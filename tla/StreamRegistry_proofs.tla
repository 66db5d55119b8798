------------------------ MODULE StreamRegistry_proofs ------------------------
(***************************************************************************)
(* The names of the stream registry implement StreamClaims, nothing but a  *)
(* trusted replacement leaves a running broadcaster unreachable, and the   *)
(* viewer cap holds, for any sets of names, broadcasters and viewers.      *)
(***************************************************************************)
EXTENDS StreamRegistry, FiniteSetTheorems, TLAPS

(* What the map refers to was published under that name, and a broadcaster *)
(* has a task from the moment its caller spawned it.                       *)
MapOK ==
  /\ \A n \in Name : streams[n] # None =>
       caller[streams[n]] = "done" /\ name[streams[n]] = n
  /\ \A b \in Bc : caller[b] \in {"idle", "refused"} => task[b] = "unborn"
  /\ \A b \in Bc : caller[b] \in {"spawned", "done"} => name[b] \in Name

(* Between the check and the insertion a try_publish call is inside the    *)
(* mutex, and its name has no live broadcaster; so is a subscribing viewer, *)
(* and the broadcaster it found is still the one its name stands for.      *)
LockOK ==
  /\ \A b \in Bc \ Embedded : caller[b] = "spawned" => lock = b /\ ~Alive(streams[name[b]])
  /\ \A v \in Viewer : seeking[v] # None =>
       /\ lock = v
       /\ caller[seeking[v]] = "done"
       /\ streams[name[seeking[v]]] = seeking[v]

IInv == TypeOK /\ MapOK /\ LockOK /\ OrphansAreReplaced /\ ViewerCapHolds

-----------------------------------------------------------------------------
LEMMA InitEstablishes == Init => IInv
<1> SUFFICES ASSUME Init PROVE IInv
  OBVIOUS
<1>1. TypeOK /\ MapOK /\ LockOK /\ OrphansAreReplaced
  BY SetsAssumption DEF Init, TypeOK, MapOK, LockOK, OrphansAreReplaced
<1>2. ViewerCapHolds
  <2>1. \A b \in Bc : Receivers(b) = {}
    BY SetsAssumption DEF Init, Receivers
  <2>2. QED
    BY <2>1, FS_EmptySet, CapAssumption DEF ViewerCapHolds
<1>3. QED
  BY <1>1, <1>2 DEF IInv

(* Steps after which no viewer is a receiver that was not one keep the cap. *)
LEMMA FewerReceivers ==
  ASSUME ViewerCapHolds, CapAssumption, \A v \in Viewer, b \in Bc : rx'[v] = b => rx[v] = b
  PROVE  ViewerCapHolds'
<1> SUFFICES ASSUME NEW b \in Bc PROVE Cardinality(Receivers(b)') <= MaxViewers
  BY DEF ViewerCapHolds
<1>1. Receivers(b)' \subseteq Receivers(b) /\ IsFiniteSet(Receivers(b))
  <2>1. IsFiniteSet(Receivers(b))
    BY FS_Subset, CapAssumption DEF Receivers, CapAssumption
  <2>2. QED
    BY <2>1 DEF Receivers
<1>2. /\ Cardinality(Receivers(b)') <= Cardinality(Receivers(b))
      /\ Cardinality(Receivers(b)) \in Nat /\ Cardinality(Receivers(b)') \in Nat
  BY <1>1, FS_Subset, FS_CardinalityType
<1>3. QED
  BY <1>2 DEF ViewerCapHolds, CapAssumption

(* What the steps that touch neither the receivers nor the cap need.        *)
LEMMA SameReceivers ==
  ASSUME ViewerCapHolds, rx' = rx
  PROVE  ViewerCapHolds'
BY FewerReceivers, CapAssumption

-----------------------------------------------------------------------------
LEMMA PublishKeeps ==
  ASSUME IInv, NEW b \in Bc, NEW n \in Name, Publish(b, n) \/ TryPublish(b, n) \/ TryRefused(b, n)
  PROVE  IInv'
<1> USE SetsAssumption DEF IInv, taskVars, viewVars
<1>1. CASE Publish(b, n)
  <2> USE <1>1 DEF Publish, Spawn
  <2>1. TypeOK'
    BY DEF TypeOK
  <2>2. MapOK'
    BY DEF TypeOK, MapOK
  <2>3. LockOK'
    <3>1. \A x \in Bc \ {b} : name'[x] = name[x] /\ caller'[x] = caller[x] /\ task'[x] = task[x]
      BY DEF TypeOK
    <3>2. \A m \in Name : streams[m] # b
      BY DEF MapOK
    <3>3. \A x \in Bc \ Embedded : caller'[x] = "spawned" => lock' = x /\ ~Alive(streams[name[x]])'
      BY <3>1, <3>2 DEF TypeOK, MapOK, LockOK, Alive
    <3>4. \A v \in Viewer : seeking[v] # None => seeking[v] \in Bc \ {b}
      BY DEF TypeOK, LockOK
    <3>5. QED
      BY <3>1, <3>3, <3>4 DEF LockOK
  <2>4. OrphansAreReplaced'
    BY DEF TypeOK, MapOK, OrphansAreReplaced, Alive
  <2>5. QED
    BY <2>1, <2>2, <2>3, <2>4, SameReceivers
<1>2. CASE TryPublish(b, n)
  <2> USE <1>2 DEF TryPublish, Spawn
  <2>1. TypeOK'
    BY DEF TypeOK
  <2>2. MapOK'
    BY DEF TypeOK, MapOK
  <2>3. LockOK'
    BY DEF TypeOK, MapOK, LockOK, Alive
  <2>4. OrphansAreReplaced'
    BY DEF TypeOK, MapOK, OrphansAreReplaced, Alive
  <2>5. QED
    BY <2>1, <2>2, <2>3, <2>4, SameReceivers
<1>3. CASE TryRefused(b, n)
  <2> USE <1>3 DEF TryRefused
  <2>1. TypeOK' /\ MapOK'
    BY DEF TypeOK, MapOK
  <2>2. LockOK'
    BY DEF TypeOK, MapOK, LockOK, Alive
  <2>3. OrphansAreReplaced'
    BY DEF TypeOK, MapOK, OrphansAreReplaced, Alive
  <2>4. QED
    BY <2>1, <2>2, <2>3, SameReceivers
<1>4. QED
  BY <1>1, <1>2, <1>3

LEMMA InsertKeeps ==
  ASSUME IInv, NEW b \in Bc, InsertReplacing(b) \/ TryInsert(b)
  PROVE  IInv'
<1> USE SetsAssumption DEF IInv, taskVars, viewVars
<1>1. CASE InsertReplacing(b)
  <2> USE <1>1 DEF InsertReplacing
  <2>1. TypeOK' /\ MapOK'
    BY DEF TypeOK, MapOK
  <2>2. LockOK'
    BY DEF TypeOK, MapOK, LockOK, Alive
  <2>3. OrphansAreReplaced'
    BY DEF TypeOK, MapOK, OrphansAreReplaced, Alive
  <2>4. QED
    BY <2>1, <2>2, <2>3, SameReceivers
<1>2. CASE TryInsert(b)
  <2> USE <1>2 DEF TryInsert
  <2>1. TypeOK' /\ MapOK'
    BY DEF TypeOK, MapOK
  <2>2. LockOK'
    BY DEF TypeOK, MapOK, LockOK, Alive
  <2>3. OrphansAreReplaced'
    BY DEF TypeOK, MapOK, LockOK, OrphansAreReplaced, Alive
  <2>4. QED
    BY <2>1, <2>2, <2>3, SameReceivers
<1>3. QED
  BY <1>1, <1>2

LEMMA CleanupKeeps ==
  ASSUME IInv, Cleanup
  PROVE  IInv'
<1> USE SetsAssumption DEF IInv, taskVars, viewVars, Cleanup
<1>1. TypeOK' /\ MapOK'
  BY DEF TypeOK, MapOK, Alive
<1>2. LockOK'
  BY DEF TypeOK, MapOK, LockOK, Alive
<1>3. OrphansAreReplaced'
  BY DEF TypeOK, MapOK, OrphansAreReplaced, Alive
<1>4. QED
  BY <1>1, <1>2, <1>3, SameReceivers

(* The task steps and the end of a source: nothing becomes alive.           *)
LEMMA TaskKeeps ==
  ASSUME IInv, NEW b \in Bc, TaskNext(b) \/ SourceEnds(b)
  PROVE  IInv'
<1> USE SetsAssumption DEF IInv, taskVars, viewVars
<1>1. /\ UNCHANGED <<streams, lock, caller, name, rx, seeking, shut>>
      /\ TypeOK'
      /\ \A x \in Bc : task[x] = "unborn" <=> task'[x] = "unborn"
      /\ \A x \in Bc : task'[x] \in {"running", "sleeping"} => task[x] \in {"running", "sleeping"}
  <2> USE DEF TypeOK
  <2>1. CASE TaskStopped(b)
    BY <2>1 DEF TaskStopped
  <2>2. CASE TaskSourceEnded(b)
    BY <2>2 DEF TaskSourceEnded
  <2>3. CASE TaskError(b)
    BY <2>3 DEF TaskError
  <2>4. CASE TaskRetries(b)
    BY <2>4 DEF TaskRetries
  <2>5. CASE TaskCloses(b)
    BY <2>5 DEF TaskCloses
  <2>6. CASE SourceEnds(b)
    BY <2>6 DEF SourceEnds
  <2>7. QED
    BY <2>1, <2>2, <2>3, <2>4, <2>5, <2>6 DEF TaskNext
<1>2. MapOK'
  BY <1>1 DEF TypeOK, MapOK
<1>3. LockOK'
  BY <1>1 DEF TypeOK, MapOK, LockOK, Alive
<1>4. OrphansAreReplaced'
  BY <1>1 DEF TypeOK, MapOK, OrphansAreReplaced, Alive
<1>5. QED
  BY <1>1, <1>2, <1>3, <1>4, SameReceivers

LEMMA ViewerKeeps ==
  ASSUME IInv, NEW v \in Viewer,
         (\E n \in Name : Subscribe(v, n)) \/ ViewerLeaves(v) \/ ViewerSeesClosed(v)
  PROVE  IInv'
<1> USE SetsAssumption DEF IInv, taskVars, viewVars
<1>1. ASSUME NEW n \in Name, Subscribe(v, n) PROVE IInv'
  <2> USE <1>1 DEF Subscribe
  <2>1. TypeOK' /\ MapOK'
    BY DEF TypeOK, MapOK, Alive
  <2>2. LockOK'
    BY DEF TypeOK, MapOK, LockOK, Alive
  <2>3. OrphansAreReplaced'
    BY DEF TypeOK, MapOK, OrphansAreReplaced, Alive
  <2>4. QED
    BY <2>1, <2>2, <2>3, SameReceivers
<1>2. CASE ViewerLeaves(v) \/ ViewerSeesClosed(v)
  <2>1. ViewerLeaves(v)
    BY <1>2 DEF ViewerSeesClosed
  <2> USE <2>1 DEF ViewerLeaves
  <2>2. TypeOK' /\ MapOK'
    BY DEF TypeOK, MapOK
  <2>3. LockOK' /\ OrphansAreReplaced'
    BY DEF LockOK, OrphansAreReplaced, Alive
  <2>4. ViewerCapHolds'
    BY FewerReceivers, CapAssumption DEF TypeOK
  <2>5. QED
    BY <2>2, <2>3, <2>4
<1>3. QED
  BY <1>1, <1>2

LEMMA AttachKeeps ==
  ASSUME IInv, NEW v \in Viewer, Attach(v)
  PROVE  IInv'
<1> USE SetsAssumption DEF IInv, taskVars, viewVars, Attach
<1>1. TypeOK' /\ MapOK'
  BY DEF TypeOK, MapOK
<1>2. LockOK'
  BY DEF TypeOK, MapOK, LockOK, Alive
<1>3. OrphansAreReplaced'
  BY DEF OrphansAreReplaced, Alive
<1>4. ViewerCapHolds'
  <2> SUFFICES ASSUME NEW b \in Bc PROVE Cardinality(Receivers(b)') <= MaxViewers
    BY DEF ViewerCapHolds
  <2>1. IsFiniteSet(Receivers(b))
    BY FS_Subset, CapAssumption DEF Receivers, CapAssumption
  <2>2. CASE b = seeking[v] /\ Cardinality(Receivers(b)) < MaxViewers
    <3>1. Receivers(b)' \subseteq Receivers(b) \cup {v}
      BY DEF Receivers, TypeOK
    <3>2. /\ IsFiniteSet(Receivers(b) \cup {v})
          /\ Cardinality(Receivers(b) \cup {v}) <= Cardinality(Receivers(b)) + 1
          /\ Cardinality(Receivers(b)) \in Nat
      <4>1. Cardinality(Receivers(b)) \in Nat
        BY <2>1, FS_CardinalityType
      <4>2. /\ IsFiniteSet(Receivers(b) \cup {v})
            /\ Cardinality(Receivers(b) \cup {v}) =
                 IF v \in Receivers(b) THEN Cardinality(Receivers(b))
                                       ELSE Cardinality(Receivers(b)) + 1
        BY <2>1, FS_AddElement, Zenon
      <4>3. QED
        BY <4>1, <4>2
    <3>3. Cardinality(Receivers(b)') <= Cardinality(Receivers(b) \cup {v})
      BY <3>1, <3>2, FS_Subset
    <3>4. /\ Cardinality(Receivers(b) \cup {v}) \in Nat
          /\ Cardinality(Receivers(b)') \in Nat
      BY <3>1, <3>2, FS_Subset, FS_CardinalityType
    <3>5. QED
      BY <3>2, <3>3, <3>4, <2>2, CapAssumption DEF CapAssumption
  <2>3. CASE ~(b = seeking[v] /\ Cardinality(Receivers(b)) < MaxViewers)
    <3>1. Receivers(b)' \subseteq Receivers(b)
      <4>1. \A x \in Viewer : rx'[x] = b => rx[x] = b
        <5>1. \A x \in Viewer \ {v} : rx'[x] = rx[x]
          BY DEF TypeOK
        <5>2. rx'[v] # b
          BY <2>3 DEF TypeOK
        <5>3. QED
          BY <5>1, <5>2
      <4>2. QED
        BY <4>1 DEF Receivers
    <3>2. /\ Cardinality(Receivers(b)') <= Cardinality(Receivers(b))
          /\ Cardinality(Receivers(b)) \in Nat /\ Cardinality(Receivers(b)') \in Nat
      BY <2>1, <3>1, FS_Subset, FS_CardinalityType
    <3>3. QED
      BY <3>2, CapAssumption DEF ViewerCapHolds, CapAssumption
  <2>4. QED
    BY <2>2, <2>3
<1>5. QED
  BY <1>1, <1>2, <1>3, <1>4

LEMMA ShutKeeps ==
  ASSUME IInv, ShutNext
  PROVE  IInv'
<1> USE SetsAssumption DEF IInv, taskVars, viewVars
<1>1. /\ UNCHANGED <<streams, lock, caller, name, task, rx, seeking>>
      /\ TypeOK'
  <2>1. CASE ShutdownAll
    <3>1. Registered \subseteq Bc
      BY DEF Registered
    <3>2. QED
      BY <2>1, <3>1 DEF ShutdownAll, TypeOK
  <2>2. CASE JoinAll
    BY <2>2 DEF JoinAll, TypeOK
  <2>3. ASSUME NEW b \in Bc, Signal(b)
        PROVE  UNCHANGED <<streams, lock, caller, name, task, rx, seeking>> /\ TypeOK'
    <3>1. permit' \in [Bc -> BOOLEAN]
      BY <2>3 DEF Signal, TypeOK
    <3>2. QED
      BY <2>3, <3>1 DEF Signal, TypeOK
  <2>4. QED
    BY <2>1, <2>2, <2>3 DEF ShutNext
<1>2. MapOK' /\ LockOK' /\ OrphansAreReplaced'
  BY <1>1 DEF MapOK, LockOK, OrphansAreReplaced, Alive
<1>3. QED
  BY <1>1, <1>2, SameReceivers

-----------------------------------------------------------------------------
LEMMA StepKeeps == IInv /\ [Next]_vars => IInv'
<1> SUFFICES ASSUME IInv, [Next]_vars PROVE IInv'
  OBVIOUS
<1>1. CASE UNCHANGED vars
  <2>1. TypeOK' /\ MapOK' /\ LockOK' /\ OrphansAreReplaced'
    BY <1>1 DEF vars, taskVars, viewVars, IInv, TypeOK, MapOK, LockOK, OrphansAreReplaced, Alive
  <2>2. ViewerCapHolds'
    BY <1>1, SameReceivers DEF vars, viewVars, IInv
  <2>3. QED
    BY <2>1, <2>2 DEF IInv
<1>2. CASE Next
  BY <1>2, PublishKeeps, InsertKeeps, CleanupKeeps, TaskKeeps, ViewerKeeps, AttachKeeps, ShutKeeps
     DEF Next
<1>3. QED
  BY <1>1, <1>2

(* The strengthened invariant holds in every reachable state. *)
THEOREM Inductive == Spec => []IInv
BY InitEstablishes, StepKeeps, PTL DEF Spec

(* Every variable keeps its type. *)
THEOREM TypeCorrect == Spec => []TypeOK
BY Inductive, PTL DEF IInv

(* A running broadcaster that its name no longer leads to was put aside by  *)
(* an embedder's publish, never by the racing clients or by a cleanup       *)
(* (stream_registry.rs:57-128, 191-194).                                    *)
THEOREM OnlyTheTrustedOrphan == Spec => []OrphansAreReplaced
BY Inductive, PTL DEF IInv

(* No interleaving of subscribers takes a broadcaster over its viewer cap   *)
(* (broadcaster.rs:189-199).                                                *)
THEOREM ViewersAreCapped == Spec => []ViewerCapHolds
BY Inductive, PTL DEF IInv

(* A viewer that attaches gets the broadcaster its name stands for then,    *)
(* because the whole of subscribe is inside the mutex of the map            *)
(* (stream_registry.rs:132-135).                                            *)
THEOREM ViewersGetTheNewStream == Spec => NewViewersGetTheNewStream
<1>1. IInv /\ [Next]_vars =>
        [\A v \in Viewer : rx[v] = None /\ rx'[v] # None =>
           streams[name[rx'[v]]] = rx'[v]]_vars
  <2> SUFFICES ASSUME IInv, Next, NEW v \in Viewer, rx[v] = None, rx'[v] # None
               PROVE  streams[name[rx'[v]]] = rx'[v]
    OBVIOUS
  <2>1. Attach(v)
    BY DEF Next, Publish, TryPublish, TryRefused, Spawn, InsertReplacing, TryInsert, Cleanup,
           TaskNext, TaskStopped, TaskSourceEnded, TaskError, TaskRetries, TaskCloses, SourceEnds,
           Subscribe, Attach, ViewerLeaves, ViewerSeesClosed, ShutNext, ShutdownAll, JoinAll,
           Signal, taskVars, viewVars, IInv, TypeOK
  <2>2. rx'[v] = seeking[v] /\ seeking[v] # None
    BY <2>1 DEF Attach, IInv, TypeOK
  <2>3. QED
    BY <2>2 DEF IInv, LockOK
<1>2. QED
  BY <1>1, Inductive, PTL DEF Spec, NewViewersGetTheNewStream

-----------------------------------------------------------------------------
LEMMA InitImplements == Init => Claims!Init
BY DEF Init, Claims!Init, owners, Alive

(* A live broadcaster that goes into the map claims its name, or replaces   *)
(* the stream that had it.                                                  *)
LEMMA InsertImplements ==
  ASSUME IInv, NEW b \in Bc, InsertReplacing(b) \/ TryInsert(b)
  PROVE  [Claims!Next]_owners
<1> DEFINE n == name[b]
<1>1. n \in Name
  BY DEF InsertReplacing, TryInsert, IInv, MapOK
<1>2. owners' = [owners EXCEPT ![n] = IF Alive(b) THEN b ELSE None]
  BY <1>1 DEF InsertReplacing, TryInsert, IInv, TypeOK, owners, Alive, taskVars
<1>3. CASE Alive(b) /\ InsertReplacing(b)
  BY <1>1, <1>2, <1>3 DEF InsertReplacing, Claims!Next, Claims!Replace
<1>4. CASE Alive(b) /\ TryInsert(b)
  <2>1. owners[n] = None
    BY <1>1, <1>4 DEF TryInsert, IInv, LockOK, owners
  <2>2. QED
    BY <1>1, <1>2, <1>4, <2>1 DEF Claims!Next, Claims!Claim
<1>5. CASE ~Alive(b)
  <2>1. CASE owners[n] = None
    BY <1>1, <1>2, <1>5, <2>1 DEF owners
  <2>2. CASE owners[n] # None
    BY <1>1, <1>2, <1>5, <2>2 DEF Claims!Next, Claims!End
  <2>3. QED
    BY <2>1, <2>2
<1>6. QED
  BY <1>3, <1>4, <1>5

(* The task's exit ends the stream of the one name it can be found by.      *)
LEMMA TaskImplements ==
  ASSUME IInv, NEW b \in Bc, TaskNext(b) \/ SourceEnds(b)
  PROVE  [Claims!Next]_owners
<1>1. /\ UNCHANGED <<streams, name>>
      /\ \A x \in Bc \ {b} : task'[x] = task[x]
      /\ Alive(b)' => Alive(b)
  BY SetsAssumption DEF TaskNext, TaskStopped, TaskSourceEnded, TaskError, TaskRetries, TaskCloses,
     SourceEnds, IInv, TypeOK, Alive
<1>2. CASE Alive(b) /\ ~Alive(b)' /\ name[b] \in Name /\ streams[name[b]] = b
  <2>1. \A n \in Name \ {name[b]} : streams[n] # b
    BY <1>2, SetsAssumption DEF IInv, MapOK
  <2>2. owners' = [owners EXCEPT ![name[b]] = None]
    <3>1. \A n \in Name \ {name[b]} : Alive(streams[n])' <=> Alive(streams[n])
      BY <1>1, <2>1 DEF Alive, IInv, TypeOK
    <3>2. ~Alive(streams[name[b]])'
      BY <1>1, <1>2
    <3>3. QED
      BY <1>1, <1>2, <3>1, <3>2 DEF owners
  <2>3. owners[name[b]] # None
    BY <1>2, SetsAssumption DEF owners
  <2>4. QED
    BY <1>2, <2>2, <2>3 DEF Claims!Next, Claims!End
<1>3. CASE ~(Alive(b) /\ ~Alive(b)' /\ name[b] \in Name /\ streams[name[b]] = b)
  <2>1. \A n \in Name : streams[n] = b => name[b] = n
    BY SetsAssumption DEF IInv, MapOK
  <2>2. \A n \in Name : Alive(streams[n])' <=> Alive(streams[n])
    <3> SUFFICES ASSUME NEW n \in Name PROVE Alive(streams[n])' <=> Alive(streams[n])
      OBVIOUS
    <3>1. CASE streams[n] = b
      BY <1>1, <1>3, <2>1, <3>1 DEF Alive
    <3>2. CASE streams[n] # b
      BY <1>1, <3>2 DEF Alive, IInv, TypeOK
    <3>3. QED
      BY <3>1, <3>2
  <2>3. owners' = owners
    BY <1>1, <2>2 DEF owners
  <2>4. QED
    BY <2>3
<1>4. QED
  BY <1>2, <1>3

(* All other steps leave every name to the stream that has it.              *)
LEMMA OthersImplement ==
  ASSUME IInv,
         \/ UNCHANGED vars
         \/ \E b \in Bc, n \in Name : Publish(b, n) \/ TryPublish(b, n) \/ TryRefused(b, n)
         \/ \E v \in Viewer :
              (\E n \in Name : Subscribe(v, n)) \/ Attach(v) \/ ViewerLeaves(v) \/ ViewerSeesClosed(v)
         \/ Cleanup \/ ShutNext
  PROVE  owners' = owners
<1>1. CASE \E b \in Bc, n \in Name : Publish(b, n) \/ TryPublish(b, n)
  BY <1>1, SetsAssumption
     DEF Publish, TryPublish, Spawn, IInv, TypeOK, MapOK, owners, Alive
<1>2. CASE Cleanup
  BY <1>2 DEF Cleanup, taskVars, owners, Alive
<1>3. CASE UNCHANGED <<streams, task>>
  BY <1>3 DEF owners, Alive
<1>4. QED
  BY <1>1, <1>2, <1>3
     DEF vars, taskVars, viewVars, TryRefused, Subscribe, Attach, ViewerLeaves, ViewerSeesClosed,
         ShutNext, ShutdownAll, JoinAll, Signal

(* The registry implements the first-come claims of StreamClaims, with an   *)
(* owner for each name whose broadcaster is alive: no interleaving of       *)
(* publishers, exiting tasks, viewers, cleanups and shutdown lets one       *)
(* client take over the live stream of another (stream_registry.rs:57-214). *)
THEOREM ImplementsClaims == Spec => ClaimsSpec
<1>1. IInv /\ [Next]_vars => [Claims!Next]_owners
  BY InsertImplements, TaskImplements, OthersImplement DEF Next
<1>2. QED
  BY <1>1, InitImplements, Inductive, PTL DEF Spec, ClaimsSpec, Claims!Spec
=============================================================================
