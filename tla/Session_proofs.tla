--------------------------- MODULE Session_proofs ---------------------------
(***************************************************************************)
(* Upstream messages are conserved and only finished sessions leave the    *)
(* registry, for any number of sessions and any channel capacity.          *)
(***************************************************************************)
EXTENDS Session, TLAPS

(* A task holds messages only between releasing and routing them, and the  *)
(* pump starts with the entry.                                             *)
HandsEmpty ==
  \A s \in Session :
    /\ creator[s] = "start" => pump[s] = "unborn"
    /\ pump[s] # "route" => pumpCarry[s].data = 0
    /\ tick[s] # "route" => tickCarry[s].data = 0

(* tick_one runs on the sessions of the batch, which stay registered until *)
(* the batch is over, and reports dead only what is finished.              *)
BatchOK ==
  /\ batch \subseteq entries
  /\ \A s \in Session :
       /\ s \in batch <=> tick[s] # "none"
       /\ tick[s] = "dead" => finished[s]
       /\ s \in entries => creator[s] = "inserted"

IInv == TypeOK /\ HandsEmpty /\ BatchOK /\ Conservation /\ OnlyFinishedLeave

-----------------------------------------------------------------------------
LEMMA InitEstablishes == Init => IInv
BY RolesAssumption, BoundsAssumption
   DEF Init, IInv, TypeOK, HandsEmpty, BatchOK, Conservation, OnlyFinishedLeave,
       PumpPC, TickPC, SrtState, Carry, Nothing, PumpGone

(* Steps that leave the messages where they are, or move them all.          *)
LEMMA SimpleStepsKeep ==
  ASSUME IInv, NEW s \in Session,
         \/ Insert(s) \/ PumpPoll(s) \/ PumpRecv(s) \/ PumpPark(s) \/ PumpRecvError(s)
         \/ PumpSend(s) \/ PumpClose(s) \/ PumpFinish(s) \/ Abort(s)
         \/ TickAll \/ TickFinished(s) \/ Prune
         \/ PeerCloses(s) \/ StreamEnds(s) \/ BroadcasterEnds(s) \/ AskToStop(s)
  PROVE  IInv'
<1> USE RolesAssumption, BoundsAssumption
    DEF IInv, entryVars, dataVars, pumpVars, tickVars, TypeOK, PumpPC, TickPC, Carry, Nothing,
        HandsEmpty, BatchOK, Conservation, OnlyFinishedLeave, PumpGone
<1>1. CASE Insert(s)
  BY <1>1 DEF Insert
<1>2. CASE PumpPoll(s)
  BY <1>2 DEF PumpPoll
<1>3. CASE PumpRecv(s)
  BY <1>3 DEF PumpRecv
<1>4. CASE PumpPark(s)
  BY <1>4 DEF PumpPark
<1>5. CASE PumpRecvError(s)
  BY <1>5 DEF PumpRecvError
<1>6. CASE PumpSend(s)
  BY <1>6 DEF PumpSend
<1>7. CASE PumpClose(s)
  BY <1>7 DEF PumpClose
<1>8. CASE PumpFinish(s)
  BY <1>8 DEF PumpFinish
<1>9. CASE Abort(s)
  BY <1>9 DEF Abort
<1>10. CASE TickAll
  BY <1>10 DEF TickAll
<1>11. CASE TickFinished(s)
  BY <1>11 DEF TickFinished
<1>12. CASE Prune
  BY <1>12 DEF Prune
<1>13. CASE PeerCloses(s)
  BY <1>13 DEF PeerCloses
<1>14. CASE StreamEnds(s)
  BY <1>14 DEF StreamEnds
<1>15. CASE BroadcasterEnds(s)
  BY <1>15 DEF BroadcasterEnds
<1>16. CASE AskToStop(s)
  BY <1>16 DEF AskToStop, NotifyOne
<1>17. QED
  BY <1>1, <1>2, <1>3, <1>4, <1>5, <1>6, <1>7, <1>8, <1>9, <1>10, <1>11, <1>12, <1>13, <1>14, <1>15, <1>16

(* The other steps, with the facts about their data spelled out.            *)
LEMMA CreateKeeps ==
  ASSUME IInv, NEW s \in Session, Create(s)
  PROVE  IInv'
<1> USE DEF IInv, Create, entryVars, dataVars, tickVars
<1>1. TypeOK'
  BY DEF TypeOK, PumpPC
<1>2. HandsEmpty' /\ Conservation'
  BY RolesAssumption DEF TypeOK, HandsEmpty, Conservation
<1>3. BatchOK'
  <2>1. s \notin entries
    BY DEF BatchOK
  <2>2. \A x \in Session \ {s} : creator'[x] = creator[x]
    BY DEF TypeOK
  <2>3. QED
    BY <2>1, <2>2 DEF BatchOK
<1>4. OnlyFinishedLeave'
  BY DEF TypeOK, OnlyFinishedLeave, PumpGone
<1>5. QED
  BY <1>1, <1>2, <1>3, <1>4

LEMMA PumpShutdownKeeps ==
  ASSUME IInv, NEW s \in Session, PumpShutdown(s)
  PROVE  IInv'
<1> USE DEF IInv, PumpShutdown, dataVars, tickVars
<1>1. TypeOK'
  <2>1. permit' \in [Session -> BOOLEAN] /\ woken' \in [Session -> BOOLEAN]
    BY DEF TypeOK
  <2>2. QED
    BY <2>1 DEF TypeOK, PumpPC
<1>2. HandsEmpty' /\ Conservation'
  BY RolesAssumption DEF TypeOK, HandsEmpty, Conservation
<1>3. BatchOK' /\ OnlyFinishedLeave'
  BY DEF TypeOK, BatchOK, OnlyFinishedLeave, PumpGone
<1>4. QED
  BY <1>1, <1>2, <1>3

(* What the state machine may answer, and how much it may release.          *)
LEMMA OutcomeType ==
  ASSUME NEW state, NEW o \in SrtOutcomes(state)
  PROVE  o.state \in SrtState /\ o.close \in BOOLEAN
BY DEF SrtOutcomes

LEMMA CarryCleared == \A c \in Carry : [c EXCEPT !.data = 0] \in Carry
BY BoundsAssumption DEF Carry

(* notify_waiters sets a flag of the session and clears none.               *)
LEMMA NotifyWaitersType ==
  ASSUME TypeOK, NEW s \in Session, NotifyWaiters(s)
  PROVE  woken' \in [Session -> BOOLEAN]
<1>1. (woken[s] \/ Waiting(s)) \in BOOLEAN
  OBVIOUS
<1>2. \A b \in BOOLEAN : [woken EXCEPT ![s] = b] \in [Session -> BOOLEAN]
  BY DEF TypeOK
<1>3. QED
  BY <1>1, <1>2, Zenon DEF NotifyWaiters

LEMMA ReleasesType ==
  ASSUME TypeOK, NEW s \in Session, NEW state, NEW n \in Releases(s, state)
  PROVE  n \in 0..MaxReleases /\ released[s] + n \in 0..MaxReleases
BY BoundsAssumption DEF Releases, TypeOK

(* The publish channel takes what has room in it and no more.               *)
LEMMA EnqueuedBound ==
  ASSUME TypeOK, NEW s \in Session, NEW n \in Nat
  PROVE  /\ Enqueued(s, n) \in 0..n
         /\ queued[s] + Enqueued(s, n) \in 0..QueueCap
BY BoundsAssumption DEF Enqueued, Lesser, TypeOK

LEMMA HandleDatagramKeeps ==
  ASSUME IInv, NEW s \in Session, HandleDatagram(s)
  PROVE  IInv'
<1> USE DEF IInv
<1>1. PICK o \in SrtOutcomes(srt[s]), n \in Releases(s, srt[s]) :
        /\ srt' = [srt EXCEPT ![s] = o.state]
        /\ released' = [released EXCEPT ![s] = @ + n]
        /\ pumpCarry' = [pumpCarry EXCEPT ![s] = [data |-> n, close |-> o.close]]
  BY DEF HandleDatagram
<1>2. /\ pump[s] = "handle" /\ pump' = [pump EXCEPT ![s] = "route"]
      /\ UNCHANGED <<finished, permit, woken, conn, viewer, consumed, queued, channel, dropped,
                     creator, tickVars>>
  BY DEF HandleDatagram
<1>3. /\ o.state \in SrtState /\ o.close \in BOOLEAN
      /\ n \in 0..MaxReleases /\ released[s] + n \in 0..MaxReleases
  BY OutcomeType, ReleasesType DEF TypeOK
<1>4. TypeOK'
  BY <1>1, <1>2, <1>3 DEF TypeOK, PumpPC, Carry, tickVars
<1>5. HandsEmpty' /\ BatchOK'
  BY <1>1, <1>2 DEF TypeOK, HandsEmpty, BatchOK, tickVars
<1>6. Conservation'
  <2>1. /\ released'[s] = released[s] + n
        /\ pumpCarry[s].data = 0 /\ pumpCarry'[s].data = n
    BY <1>1, <1>2 DEF TypeOK, HandsEmpty
  <2>2. \A x \in Session \ {s} :
          released'[x] = released[x] /\ pumpCarry'[x] = pumpCarry[x]
    BY <1>1 DEF TypeOK
  <2>3. \A x \in Session : released[x] \in Nat /\ consumed[x] \in Nat /\ queued[x] \in Nat
          /\ dropped[x] \in Nat /\ tickCarry[x].data \in Nat /\ n \in Nat
    BY <1>3, BoundsAssumption DEF TypeOK, Carry
  <2>4. QED
    BY <1>2, <2>1, <2>2, <2>3, RolesAssumption DEF Conservation, tickVars
<1>7. OnlyFinishedLeave'
  BY <1>2 DEF TypeOK, OnlyFinishedLeave, PumpGone, tickVars
<1>8. QED
  BY <1>4, <1>5, <1>6, <1>7

LEMMA TickInitiatorKeeps ==
  ASSUME IInv, NEW s \in Session, TickInitiator(s)
  PROVE  IInv'
<1> USE DEF IInv
<1>1. PICK o \in SrtOutcomes(srt[s]) : \E n \in Releases(s, o.state) :
        /\ srt' = [srt EXCEPT ![s] = o.state]
        /\ released' = [released EXCEPT ![s] = @ + n]
        /\ tickCarry' = [tickCarry EXCEPT ![s] = [data |-> n, close |-> o.close]]
        /\ IF IsConnected(o.state) /\ viewer[s] = "closed"
             THEN finished' = [finished EXCEPT ![s] = TRUE] /\ NotifyWaiters(s)
             ELSE UNCHANGED <<finished, woken>>
  BY DEF TickInitiator
<1>2. PICK n \in Releases(s, o.state) :
        /\ srt' = [srt EXCEPT ![s] = o.state]
        /\ released' = [released EXCEPT ![s] = @ + n]
        /\ tickCarry' = [tickCarry EXCEPT ![s] = [data |-> n, close |-> o.close]]
  BY <1>1
<1>3. /\ tick[s] = "start" /\ tick' = [tick EXCEPT ![s] = "route"]
      /\ UNCHANGED <<permit, conn, viewer, consumed, queued, channel, dropped, pumpVars, creator,
                     entries, batch>>
  BY DEF TickInitiator
<1>4. /\ o.state \in SrtState /\ o.close \in BOOLEAN
      /\ n \in 0..MaxReleases /\ released[s] + n \in 0..MaxReleases
  BY OutcomeType, ReleasesType DEF TypeOK
<1>5. /\ finished' \in [Session -> BOOLEAN] /\ woken' \in [Session -> BOOLEAN]
      /\ \A x \in Session : finished[x] => finished'[x]
  <2>1. woken' \in [Session -> BOOLEAN]
    BY <1>1, NotifyWaitersType DEF TypeOK
  <2>2. finished' = finished \/ finished' = [finished EXCEPT ![s] = TRUE]
    BY <1>1
  <2>3. QED
    BY <2>1, <2>2 DEF TypeOK
<1>6. TypeOK'
  BY <1>2, <1>3, <1>4, <1>5 DEF TypeOK, TickPC, Carry, pumpVars
<1>7. HandsEmpty' /\ BatchOK'
  BY <1>2, <1>3, <1>5 DEF TypeOK, HandsEmpty, BatchOK, pumpVars
<1>8. Conservation'
  <2>1. /\ released'[s] = released[s] + n
        /\ tickCarry[s].data = 0 /\ tickCarry'[s].data = n
    BY <1>2, <1>3 DEF TypeOK, HandsEmpty
  <2>2. \A x \in Session \ {s} :
          released'[x] = released[x] /\ tickCarry'[x] = tickCarry[x]
    BY <1>2 DEF TypeOK
  <2>3. \A x \in Session : released[x] \in Nat /\ consumed[x] \in Nat /\ queued[x] \in Nat
          /\ dropped[x] \in Nat /\ pumpCarry[x].data \in Nat /\ n \in Nat
    BY <1>4, BoundsAssumption DEF TypeOK, Carry
  <2>4. QED
    BY <1>3, <2>1, <2>2, <2>3, RolesAssumption DEF Conservation, pumpVars
<1>9. OnlyFinishedLeave'
  BY <1>3, <1>5 DEF TypeOK, OnlyFinishedLeave, PumpGone, pumpVars
<1>10. QED
  BY <1>6, <1>7, <1>8, <1>9

LEMMA PumpRouteKeeps ==
  ASSUME IInv, NEW s \in Session, PumpRoute(s)
  PROVE  IInv'
<1> USE DEF IInv, PumpRoute, RouteReleaseData, entryVars, tickVars
<1> DEFINE n == pumpCarry[s].data
           e == Enqueued(s, n)
<1>1. n \in Nat /\ e \in 0..n /\ queued[s] + e \in 0..QueueCap
  <2>1. n \in Nat
    BY BoundsAssumption DEF TypeOK, Carry
  <2>2. QED
    BY <2>1, EnqueuedBound
<1>2. /\ queued' = [queued EXCEPT ![s] = queued[s] + e]
      /\ dropped' = [dropped EXCEPT ![s] = dropped[s] + (n - e)]
      /\ pumpCarry' = [pumpCarry EXCEPT ![s].data = 0]
  OBVIOUS
<1> HIDE DEF n, e
<1>3. TypeOK'
  <2>1. queued' \in [Session -> 0..QueueCap] /\ dropped' \in [Session -> Nat]
    BY <1>1, <1>2 DEF TypeOK
  <2>2. pumpCarry' \in [Session -> Carry]
    <3>1. pumpCarry' = [pumpCarry EXCEPT ![s] = [pumpCarry[s] EXCEPT !.data = 0]]
      BY <1>2
    <3>2. QED
      BY <3>1, CarryCleared DEF TypeOK
  <2>3. QED
    BY <2>1, <2>2 DEF TypeOK, PumpPC, TickPC
<1>4. HandsEmpty' /\ BatchOK'
  BY BoundsAssumption DEF TypeOK, HandsEmpty, BatchOK, Carry
<1>5. Conservation'
  <2>1. /\ queued'[s] = queued[s] + e /\ dropped'[s] = dropped[s] + (n - e)
        /\ pumpCarry'[s].data = 0
    BY <1>2 DEF TypeOK, Carry
  <2>2. \A x \in Session \ {s} :
          queued'[x] = queued[x] /\ dropped'[x] = dropped[x] /\ pumpCarry'[x] = pumpCarry[x]
    BY <1>2 DEF TypeOK
  <2>3. \A x \in Session : released[x] \in Nat /\ consumed[x] \in Nat /\ queued[x] \in Nat
          /\ dropped[x] \in Nat /\ pumpCarry[x].data \in Nat /\ tickCarry[x].data \in Nat
    BY BoundsAssumption DEF TypeOK, Carry
  <2>4. pumpCarry[s].data = n
    BY DEF n
  <2>5. QED
    BY <1>1, <2>1, <2>2, <2>3, <2>4, RolesAssumption DEF Conservation
<1>6. OnlyFinishedLeave'
  BY DEF TypeOK, OnlyFinishedLeave, PumpGone
<1>7. QED
  BY <1>3, <1>4, <1>5, <1>6

LEMMA TickRouteKeeps ==
  ASSUME IInv, NEW s \in Session, TickRoute(s)
  PROVE  IInv'
<1> USE DEF IInv, TickRoute, RouteReleaseData, entryVars, pumpVars
<1> DEFINE n == tickCarry[s].data
           e == Enqueued(s, n)
<1>1. n \in Nat /\ e \in 0..n /\ queued[s] + e \in 0..QueueCap
  <2>1. n \in Nat
    BY BoundsAssumption DEF TypeOK, Carry
  <2>2. QED
    BY <2>1, EnqueuedBound
<1>2. /\ queued' = [queued EXCEPT ![s] = queued[s] + e]
      /\ dropped' = [dropped EXCEPT ![s] = dropped[s] + (n - e)]
      /\ tickCarry' = [tickCarry EXCEPT ![s].data = 0]
  OBVIOUS
<1> HIDE DEF n, e
<1>3. TypeOK'
  <2>1. queued' \in [Session -> 0..QueueCap] /\ dropped' \in [Session -> Nat]
    BY <1>1, <1>2 DEF TypeOK
  <2>2. tickCarry' \in [Session -> Carry]
    <3>1. tickCarry' = [tickCarry EXCEPT ![s] = [tickCarry[s] EXCEPT !.data = 0]]
      BY <1>2
    <3>2. QED
      BY <3>1, CarryCleared DEF TypeOK
  <2>3. QED
    BY <2>1, <2>2 DEF TypeOK, PumpPC, TickPC
<1>4. HandsEmpty' /\ BatchOK'
  BY BoundsAssumption DEF TypeOK, HandsEmpty, BatchOK, Carry
<1>5. Conservation'
  <2>1. /\ queued'[s] = queued[s] + e /\ dropped'[s] = dropped[s] + (n - e)
        /\ tickCarry'[s].data = 0
    BY <1>2 DEF TypeOK, Carry
  <2>2. \A x \in Session \ {s} :
          queued'[x] = queued[x] /\ dropped'[x] = dropped[x] /\ tickCarry'[x] = tickCarry[x]
    BY <1>2 DEF TypeOK
  <2>3. \A x \in Session : released[x] \in Nat /\ consumed[x] \in Nat /\ queued[x] \in Nat
          /\ dropped[x] \in Nat /\ pumpCarry[x].data \in Nat /\ tickCarry[x].data \in Nat
    BY BoundsAssumption DEF TypeOK, Carry
  <2>4. tickCarry[s].data = n
    BY DEF n
  <2>5. QED
    BY <1>1, <2>1, <2>2, <2>3, <2>4, RolesAssumption DEF Conservation
<1>6. OnlyFinishedLeave'
  BY DEF TypeOK, OnlyFinishedLeave, PumpGone
<1>7. QED
  BY <1>3, <1>4, <1>5, <1>6

LEMMA TickSendKeeps ==
  ASSUME IInv, NEW s \in Session, TickSend(s)
  PROVE  IInv'
<1> USE DEF IInv, TickSend, dataVars, pumpVars
<1>1. /\ finished' \in [Session -> BOOLEAN] /\ woken' \in [Session -> BOOLEAN]
      /\ \A x \in Session : finished[x] => finished'[x]
  <2>1. woken' \in [Session -> BOOLEAN]
    BY NotifyWaitersType DEF TypeOK
  <2>2. finished' = finished \/ finished' = [finished EXCEPT ![s] = TRUE]
    OBVIOUS
  <2>3. QED
    BY <2>1, <2>2 DEF TypeOK
<1>2. /\ tick[s] = "send"
      /\ tick' = [tick EXCEPT ![s] = IF finished'[s] THEN "dead" ELSE "live"]
      /\ tickCarry' = [tickCarry EXCEPT ![s] = Nothing]
      /\ UNCHANGED <<permit, srt, conn, viewer, dataVars, pumpVars, creator, entries, batch>>
  OBVIOUS
<1>3. TypeOK'
  <2>1. tickCarry' \in [Session -> Carry]
    BY <1>2, BoundsAssumption DEF TypeOK, Carry, Nothing
  <2>2. tick' \in [Session -> TickPC]
    <3>1. (IF finished'[s] THEN "dead" ELSE "live") \in TickPC
      BY DEF TickPC
    <3>2. QED
      BY <3>1, <1>2 DEF TypeOK
  <2>3. QED
    BY <1>1, <1>2, <2>1, <2>2 DEF TypeOK
<1>4. HandsEmpty' /\ BatchOK'
  BY <1>1, <1>2 DEF TypeOK, HandsEmpty, BatchOK, Nothing
<1>5. Conservation'
  <2>1. \A x \in Session : tickCarry'[x].data = tickCarry[x].data
    BY <1>2 DEF TypeOK, HandsEmpty, Nothing
  <2>2. QED
    BY <1>2, <2>1, RolesAssumption DEF Conservation
<1>6. OnlyFinishedLeave'
  BY <1>1, <1>2 DEF TypeOK, OnlyFinishedLeave, PumpGone
<1>7. QED
  BY <1>3, <1>4, <1>5, <1>6

LEMMA ConsumeKeeps ==
  ASSUME IInv, NEW s \in Session, Consume(s)
  PROVE  IInv'
<1> USE DEF IInv, Consume, entryVars, pumpVars, tickVars
<1>1. TypeOK'
  BY BoundsAssumption DEF TypeOK
<1>2. HandsEmpty' /\ BatchOK' /\ OnlyFinishedLeave'
  BY DEF TypeOK, HandsEmpty, BatchOK, OnlyFinishedLeave, PumpGone
<1>3. Conservation'
  <2>1. queued'[s] = queued[s] - 1 /\ consumed'[s] = consumed[s] + 1
    BY DEF TypeOK
  <2>2. \A x \in Session \ {s} : queued'[x] = queued[x] /\ consumed'[x] = consumed[x]
    BY DEF TypeOK
  <2>3. \A x \in Session : released[x] \in Nat /\ consumed[x] \in Nat /\ queued[x] \in Nat
          /\ dropped[x] \in Nat /\ pumpCarry[x].data \in Nat /\ tickCarry[x].data \in Nat
    BY BoundsAssumption DEF TypeOK, Carry
  <2>4. QED
    BY <2>1, <2>2, <2>3, RolesAssumption DEF Conservation
<1>4. QED
  BY <1>1, <1>2, <1>3

-----------------------------------------------------------------------------
LEMMA StepKeeps == IInv /\ [Next]_vars => IInv'
<1> SUFFICES ASSUME IInv, [Next]_vars PROVE IInv'
  OBVIOUS
<1>1. CASE UNCHANGED vars
  BY <1>1 DEF vars, entryVars, dataVars, pumpVars, tickVars, IInv, TypeOK, HandsEmpty, BatchOK,
              Conservation, OnlyFinishedLeave, PumpGone
<1>2. ASSUME NEW s \in Session, PumpNext(s) PROVE IInv'
  BY <1>2, SimpleStepsKeep, PumpShutdownKeeps, HandleDatagramKeeps, PumpRouteKeeps DEF PumpNext
<1>3. ASSUME NEW s \in Session, TickNext(s) PROVE IInv'
  BY <1>3, SimpleStepsKeep, TickInitiatorKeeps, TickRouteKeeps, TickSendKeeps DEF TickNext
<1>4. ASSUME NEW s \in Session, Environment(s) PROVE IInv'
  BY <1>4, SimpleStepsKeep, ConsumeKeeps DEF Environment
<1>5. ASSUME NEW s \in Session, Create(s) \/ Insert(s) PROVE IInv'
  BY <1>5, SimpleStepsKeep, CreateKeeps
<1>6. CASE TickAll \/ Prune
  <2>1. PICK s \in Session : TRUE
    BY <1>6 DEF TickAll, Prune, IInv, TypeOK
  <2>2. QED
    BY <1>6, <2>1, SimpleStepsKeep
<1>7. QED
  BY <1>1, <1>2, <1>3, <1>4, <1>5, <1>6 DEF Next

(* The strengthened invariant holds in every reachable state. *)
THEOREM Inductive == Spec => []IInv
BY InitEstablishes, StepKeeps, PTL DEF Spec

(* Every variable keeps its type; in particular the publish channel never  *)
(* holds more than its capacity (session.rs:296-323).                      *)
THEOREM TypeCorrect == Spec => []TypeOK
BY Inductive, PTL DEF IInv

(* Every upstream message is delivered, waiting, counted as dropped, or in  *)
(* the hands of the task that released it, whichever of the pump and the    *)
(* ticker that is (session.rs:207-231, registry.rs:324-415).                *)
THEOREM MessagesAreConserved == Spec => []Conservation
BY Inductive, PTL DEF IInv

(* Only finished sessions leave the registry, and a session whose pump has  *)
(* exited or was aborted is finished (registry.rs:286-292,                  *)
(* session.rs:248-256).                                                     *)
THEOREM OnlyFinishedSessionsLeave == Spec => []OnlyFinishedLeave
BY Inductive, PTL DEF IInv
=============================================================================
