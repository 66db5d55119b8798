--------------------------- MODULE StreamRegistry ---------------------------
(***************************************************************************)
(* The streams of the gateway (crates/websrt/src/stream_registry.rs,       *)
(* broadcaster.rs).                                                        *)
(*                                                                         *)
(* The registry is a map from names to broadcasters behind a mutex.  A     *)
(* broadcaster is an object and the task that reads its source; the task   *)
(* runs from before the object is in the map until its source ends or it   *)
(* is told to stop, and clears `alive` and then the sender when it exits.  *)
(* Messages are the subject of ViewerFeed.                                 *)
(***************************************************************************)
EXTENDS Naturals, FiniteSets

CONSTANTS
  Name,        \* stream names
  Bc,          \* broadcasters, each of them spawned at most once
  Embedded,    \* those of publish and publish_ingester; the others are of try_publish*
  Endless,     \* those whose ingester reconnects forever (SrtIngester)
  Viewer,      \* viewer sessions
  MaxViewers,  \* cap on the viewers of one broadcaster
  None         \* no broadcaster, no name, nobody

ASSUME SetsAssumption ==
  /\ Embedded \subseteq Bc /\ Endless \subseteq Bc
  /\ None \notin Bc \cup Name \cup Viewer
  /\ Bc \cap Viewer = {}
ASSUME CapAssumption == MaxViewers \in Nat \ {0} /\ IsFiniteSet(Viewer)

VARIABLES
  streams,   \* the map: streams[n] is a broadcaster or None
  lock,      \* who is inside the mutex of the map
  caller,    \* caller[b]: the call that publishes b
  name,      \* the name b was published under
  task,      \* the background task of b
  source,    \* whether the ingester of b has ended
  permit,    \* the shutdown Notify of b holds a permit
  rx,        \* rx[v]: the broadcaster viewer v has a receiver of
  seeking,   \* seeking[v]: the broadcaster v found in the map and is subscribing to
  shut       \* the shutdown_all call of Gateway::run

taskVars == <<task, source, permit>>
viewVars == <<rx, seeking>>
vars == <<streams, lock, caller, name, taskVars, viewVars, shut>>

Alive(b) == b # None /\ task[b] \in {"running", "sleeping"}
Registered == {b \in Bc : \E n \in Name : streams[n] = b}
Receivers(b) == {v \in Viewer : rx[v] = b}

-----------------------------------------------------------------------------
Init ==
  /\ streams = [n \in Name |-> None]
  /\ lock = None
  /\ caller = [b \in Bc |-> "idle"]
  /\ name = [b \in Bc |-> None]
  /\ task = [b \in Bc |-> "unborn"]
  /\ source = [b \in Bc |-> "live"]
  /\ permit = [b \in Bc |-> FALSE]
  /\ rx = [v \in Viewer |-> None]
  /\ seeking = [v \in Viewer |-> None]
  /\ shut = [pc |-> "idle", batch |-> {}, waiting |-> {}]

Spawn(b, n) ==
  /\ caller[b] = "idle"
  /\ caller' = [caller EXCEPT ![b] = "spawned"]
  /\ name' = [name EXCEPT ![b] = n]
  /\ task' = [task EXCEPT ![b] = "running"]

(* publish, publish_ingester: the task is spawned before the map is locked. *)
Publish(b, n) ==
  /\ b \in Embedded
  /\ Spawn(b, n)
  /\ UNCHANGED <<streams, lock, source, permit, viewVars, shut>>

InsertReplacing(b) ==
  /\ b \in Embedded /\ caller[b] = "spawned"
  /\ lock = None
  /\ streams' = [streams EXCEPT ![name[b]] = b]
  /\ caller' = [caller EXCEPT ![b] = "done"]
  /\ UNCHANGED <<lock, name, taskVars, viewVars, shut>>

(* Mutant: try_publish releases the map between the check and the insertion.*)
TryPublishUnlocked(b, n) ==
  /\ b \notin Embedded
  /\ lock = None
  /\ ~Alive(streams[n])
  /\ Spawn(b, n)
  /\ UNCHANGED <<streams, lock, source, permit, viewVars, shut>>

(* try_publish, try_publish_ingester: under the lock, a live occupant of    *)
(* the name wins; otherwise the task is spawned ...                         *)
TryPublish(b, n) ==
  /\ b \notin Embedded
  /\ lock = None
  /\ ~Alive(streams[n])
  /\ Spawn(b, n)
  /\ lock' = b
  /\ UNCHANGED <<streams, source, permit, viewVars, shut>>

TryRefused(b, n) ==
  /\ b \notin Embedded
  /\ lock = None
  /\ Alive(streams[n])
  /\ caller[b] = "idle"
  /\ caller' = [caller EXCEPT ![b] = "refused"]
  /\ UNCHANGED <<streams, lock, name, taskVars, viewVars, shut>>

(* ... and inserted before the lock is released.                            *)
TryInsert(b) ==
  /\ b \notin Embedded /\ caller[b] = "spawned"
  /\ lock' = None
  /\ streams' = [streams EXCEPT ![name[b]] = b]
  /\ caller' = [caller EXCEPT ![b] = "done"]
  /\ UNCHANGED <<name, taskVars, viewVars, shut>>

(* Mutant: cleanup also drops a stream whose ingester is between two errors.*)
CleanupNotRunning ==
  /\ lock = None
  /\ streams' = [n \in Name |->
       IF streams[n] # None /\ task[streams[n]] = "running" THEN streams[n] ELSE None]
  /\ UNCHANGED <<lock, caller, name, taskVars, viewVars, shut>>

(* Mutant: cleanup is not called.                                           *)
CleanupNever == lock = None /\ UNCHANGED vars

(* cleanup, from the ticker every 60 s and at the end of Gateway::run.      *)
Cleanup ==
  /\ lock = None
  /\ streams' = [n \in Name |-> IF Alive(streams[n]) THEN streams[n] ELSE None]
  /\ UNCHANGED <<lock, caller, name, taskVars, viewVars, shut>>

-----------------------------------------------------------------------------
(* The task: a biased select between the shutdown Notify and the ingester.  *)
TaskStopped(b) ==
  /\ task[b] = "running" /\ permit[b]
  /\ task' = [task EXCEPT ![b] = "dead"]
  /\ permit' = [permit EXCEPT ![b] = FALSE]
  /\ UNCHANGED <<streams, lock, caller, name, source, viewVars, shut>>

TaskSourceEnded(b) ==
  /\ task[b] = "running" /\ ~permit[b] /\ source[b] = "ended"
  /\ task' = [task EXCEPT ![b] = "dead"]
  /\ UNCHANGED <<streams, lock, caller, name, source, permit, viewVars, shut>>

(* An ingester error is slept off outside the select.                       *)
TaskError(b) ==
  /\ task[b] = "running" /\ ~permit[b] /\ source[b] = "live"
  /\ task' = [task EXCEPT ![b] = "sleeping"]
  /\ UNCHANGED <<streams, lock, caller, name, source, permit, viewVars, shut>>

TaskRetries(b) ==
  /\ task[b] = "sleeping"
  /\ task' = [task EXCEPT ![b] = "running"]
  /\ UNCHANGED <<streams, lock, caller, name, source, permit, viewVars, shut>>

(* Mutant: the exiting task forgets the broadcaster's copy of the sender.   *)
TaskLeavesSender(b) == task[b] = "dead" /\ UNCHANGED vars

(* alive is false already; the senders are dropped, the channel is closed.  *)
TaskCloses(b) ==
  /\ task[b] = "dead"
  /\ task' = [task EXCEPT ![b] = "closed"]
  /\ UNCHANGED <<streams, lock, caller, name, source, permit, viewVars, shut>>

(* The publisher drops its end, the file is over, the SRT caller hangs up.  *)
SourceEnds(b) ==
  /\ task[b] # "unborn" /\ source[b] = "live" /\ b \notin Endless
  /\ source' = [source EXCEPT ![b] = "ended"]
  /\ UNCHANGED <<streams, lock, caller, name, task, permit, viewVars, shut>>

-----------------------------------------------------------------------------
(* Mutant: subscribe looks the name up and lets go of the map at once.      *)
SubscribeUnlocked(v, n) ==
  /\ rx[v] = None /\ seeking[v] = None
  /\ lock = None
  /\ Alive(streams[n])
  /\ seeking' = [seeking EXCEPT ![v] = streams[n]]
  /\ UNCHANGED <<streams, lock, caller, name, taskVars, rx, shut>>

(* subscribe: with the map locked, first the flag `alive` ...               *)
Subscribe(v, n) ==
  /\ rx[v] = None /\ seeking[v] = None
  /\ lock = None
  /\ Alive(streams[n])
  /\ lock' = v
  /\ seeking' = [seeking EXCEPT ![v] = streams[n]]
  /\ UNCHANGED <<streams, caller, name, taskVars, rx, shut>>

(* Mutant: the viewer cap is compared with <= .                             *)
AttachOffByOne(v) ==
  /\ seeking[v] # None
  /\ rx' = [rx EXCEPT ![v] =
       IF task[seeking[v]] # "closed" /\ Cardinality(Receivers(seeking[v])) <= MaxViewers
         THEN seeking[v] ELSE None]
  /\ seeking' = [seeking EXCEPT ![v] = None]
  /\ lock' = None
  /\ UNCHANGED <<streams, caller, name, taskVars, shut>>

(* ... then, under the sender's mutex, the sender and the cap.  The task    *)
(* may have exited in between.                                              *)
Attach(v) ==
  /\ seeking[v] # None
  /\ rx' = [rx EXCEPT ![v] =
       IF task[seeking[v]] # "closed" /\ Cardinality(Receivers(seeking[v])) < MaxViewers
         THEN seeking[v] ELSE None]
  /\ seeking' = [seeking EXCEPT ![v] = None]
  /\ lock' = None
  /\ UNCHANGED <<streams, caller, name, taskVars, shut>>

(* The viewer's session ends for a reason of its own, or because its        *)
(* receiver returned Closed.                                                *)
ViewerLeaves(v) ==
  /\ rx[v] # None
  /\ rx' = [rx EXCEPT ![v] = None]
  /\ UNCHANGED <<streams, lock, caller, name, taskVars, seeking, shut>>

ViewerSeesClosed(v) ==
  /\ rx[v] # None /\ task[rx[v]] = "closed"
  /\ ViewerLeaves(v)

-----------------------------------------------------------------------------
(* Mutant: the snapshot has an entry for a name that no broadcaster has.    *)
SnapshotOfNames ==
  /\ shut.pc = "idle" /\ lock = None
  /\ LET batch == {streams[n] : n \in Name}
     IN shut' = [pc |-> "signal", batch |-> batch, waiting |-> batch]
  /\ UNCHANGED <<streams, lock, caller, name, taskVars, viewVars>>

(* shutdown_all: a snapshot of the map, a notify_one for each broadcaster   *)
(* of it, then a join of each, which gives up after 2 s.                    *)
ShutdownAll ==
  /\ shut.pc = "idle" /\ lock = None
  /\ shut' = [pc |-> "signal", batch |-> Registered, waiting |-> Registered]
  /\ UNCHANGED <<streams, lock, caller, name, taskVars, viewVars>>

(* Mutant: notify_waiters, which a task that is not in its select misses.   *)
SignalWaiters(b) ==
  /\ shut.pc = "signal" /\ b \in shut.waiting
  /\ permit' = [permit EXCEPT ![b] = task[b] = "running"]
  /\ shut' = [shut EXCEPT !.waiting = @ \ {b}]
  /\ UNCHANGED <<streams, lock, caller, name, task, source, viewVars>>

Signal(b) ==
  /\ shut.pc = "signal" /\ b \in shut.waiting
  /\ permit' = [permit EXCEPT ![b] = TRUE]
  /\ shut' = [shut EXCEPT !.waiting = @ \ {b}]
  /\ UNCHANGED <<streams, lock, caller, name, task, source, viewVars>>

(* Every join returns, because the task has exited or the 2 s are over.     *)
JoinAll ==
  /\ shut.pc = "signal" /\ shut.waiting = {}
  /\ shut' = [shut EXCEPT !.pc = "done"]
  /\ UNCHANGED <<streams, lock, caller, name, taskVars, viewVars>>

-----------------------------------------------------------------------------
TaskNext(b) ==
  TaskStopped(b) \/ TaskSourceEnded(b) \/ TaskError(b) \/ TaskRetries(b) \/ TaskCloses(b)

ShutNext == ShutdownAll \/ JoinAll \/ \E b \in Bc : Signal(b)

Next ==
  \/ \E b \in Bc :
       \/ \E n \in Name : Publish(b, n) \/ TryPublish(b, n) \/ TryRefused(b, n)
       \/ InsertReplacing(b) \/ TryInsert(b)
       \/ TaskNext(b) \/ SourceEnds(b)
  \/ \E v \in Viewer :
       \/ \E n \in Name : Subscribe(v, n)
       \/ Attach(v) \/ ViewerLeaves(v) \/ ViewerSeesClosed(v)
  \/ Cleanup
  \/ ShutNext

(* Tasks go on, who is inside the mutex leaves it, calls return, the ticker *)
(* cleans up and polls each viewer; sources, publishers and viewers promise *)
(* nothing.  Strong fairness where a call competes for the mutex.           *)
LeavesLock == (\E b \in Bc : TryInsert(b)) \/ (\E v \in Viewer : Attach(v))

Fairness ==
  /\ \A b \in Bc : WF_vars(TaskNext(b))
  /\ \A b \in Embedded : SF_vars(InsertReplacing(b))
  /\ \A v \in Viewer : WF_vars(ViewerSeesClosed(v))
  /\ WF_vars(LeavesLock)
  /\ WF_vars(\E b \in Bc : Signal(b))
  /\ SF_vars(Cleanup)

Spec == Init /\ [][Next]_vars /\ Fairness

-----------------------------------------------------------------------------
(* Every variable has the type its code counterpart has. *)
TypeOK ==
  /\ streams \in [Name -> Bc \cup {None}]
  /\ lock \in Bc \cup Viewer \cup {None}
  /\ caller \in [Bc -> {"idle", "spawned", "done", "refused"}]
  /\ name \in [Bc -> Name \cup {None}]
  /\ task \in [Bc -> {"unborn", "running", "sleeping", "dead", "closed"}]
  /\ source \in [Bc -> {"live", "ended"}]
  /\ permit \in [Bc -> BOOLEAN]
  /\ rx \in [Viewer -> Bc \cup {None}]
  /\ seeking \in [Viewer -> Bc \cup {None}]
  /\ shut \in [pc : {"idle", "signal", "done"}, batch : SUBSET Bc, waiting : SUBSET Bc]

(* A running broadcaster that was published but cannot be found by name,    *)
(* which no cleanup and no shutdown will ever reach, exists only where the  *)
(* embedder published over a name: never through the paths open to clients, *)
(* however they race (stream_registry.rs:89-128, 191-194; the doc of        *)
(* publish, 48-56).                                                         *)
OrphansAreReplaced ==
  \A b \in Bc :
    caller[b] = "done" /\ Alive(b) /\ streams[name[b]] # b =>
      \E e \in Embedded \ {b} : caller[e] = "done" /\ name[e] = name[b]

(* No broadcaster ever serves more viewers than its cap, whatever viewers   *)
(* subscribe at the same time (broadcaster.rs:189-199).                     *)
ViewerCapHolds == \A b \in Bc : Cardinality(Receivers(b)) <= MaxViewers

(* The names implement StreamClaims: the first to claim a name keeps it     *)
(* while it is alive, and only an embedder's publish takes it over          *)
(* (README: "A live stream name cannot be taken over").                     *)
owners == [n \in Name |-> IF Alive(streams[n]) THEN streams[n] ELSE None]
Claims == INSTANCE StreamClaims
            WITH owner <- owners, Stream <- Bc, Trusted <- Embedded, Nobody <- None
ClaimsSpec == Claims!Spec

(* A viewer subscribes to the broadcaster its name stands for at that       *)
(* moment, never to one that was replaced meanwhile (stream_registry.rs:    *)
(* 52-53 "new subscribers get the new stream").                             *)
NewViewersGetTheNewStream ==
  [][\A v \in Viewer : rx[v] = None /\ rx'[v] # None =>
       streams[name[rx'[v]]] = rx'[v]]_vars

(* When a source ends, every viewer of it is let go instead of waiting for  *)
(* messages that will not come, also one that subscribed while the task was *)
(* exiting (broadcaster.rs:62-66, 154-159, 189-199).                        *)
ViewersLearnOfTheEnd ==
  \A v \in Viewer : (rx[v] # None /\ source[rx[v]] = "ended") ~> rx[v] = None

(* The name of a source that ended becomes free or goes to another source:  *)
(* nothing keeps the dead broadcaster in the map (stream_registry.rs:       *)
(* 191-194).                                                                *)
HeldByEnded(n) == streams[n] # None /\ source[streams[n]] = "ended"
EndedStreamsAreForgotten == \A n \in Name : HeldByEnded(n) ~> ~HeldByEnded(n)

(* shutdown_all stops every broadcaster that is in the map, also one whose  *)
(* ingester never ends by itself and one that is sleeping off an error when *)
(* the signal comes (stream_registry.rs:196-214, broadcaster.rs:77-79).     *)
ShutdownStopsRegistered ==
  shut.pc # "idle" ~> \A b \in shut.batch : task[b] = "closed"

(* stream_registry.rs:196: shutdown_all signals "every broadcaster", so     *)
(* that ingesters in a reconnect loop release what they have bound.         *)
ShutdownSignalsEvery ==
  [][shut.pc = "idle" /\ shut'.pc = "signal" =>
       \A b \in Bc : caller[b] = "done" /\ Alive(b) => b \in shut'.batch]_vars
=============================================================================
