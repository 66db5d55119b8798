------------------------------ MODULE Session ------------------------------
(***************************************************************************)
(* The sessions of the gateway (crates/websrt/src/session.rs, registry.rs, *)
(* srt_sender.rs).                                                         *)
(*                                                                         *)
(* Each session has a recv_pump task that feeds the datagrams of the peer  *)
(* to the session's SRT state machine; one ticker task drives the state    *)
(* machines of all sessions.  The two share the state machine (a mutex),   *)
(* the flag `finished` and a Notify.  A section under the mutex holds no   *)
(* await, so it is one action here; whatever a task does between two       *)
(* awaits or locks is an action of its own.                                *)
(***************************************************************************)
EXTENDS Naturals, FiniteSets

CONSTANTS
  Session,      \* session ids
  Viewers,      \* sessions with a ViewerRx: ?stream=, alone or beside ?publish=
  Publishers,   \* sessions with a publish channel: ?publish=
  QueueCap,     \* capacity of the publish channel
  MaxReleases   \* bound: upstream messages one session releases

ASSUME SessionIsFinite == IsFiniteSet(Session)
ASSUME RolesAssumption == Viewers \subseteq Session /\ Publishers \subseteq Session
ASSUME BoundsAssumption == QueueCap \in Nat \ {0} /\ MaxReleases \in Nat

VARIABLES
  \* the SessionEntry
  finished,   \* the flag `finished`
  permit,     \* Notify: the permit a notify_one stored
  woken,      \* Notify: a notify_waiters found the pump waiting
  srt,        \* the state of the SrtInitiator
  conn,       \* the WebTransport connection: "open", or who closed it
  viewer,     \* the ViewerRx: "none", "open", or "closed" once try_recv says so
  released,   \* number of upstream messages the state machine released
  consumed,   \* ... that left the publish channel at the broadcaster's end
  queued,     \* ... that are in the publish channel
  channel,    \* the publish channel: "open", "closed" once the broadcaster ended
  dropped,    \* publish_dropped
  \* the recv_pump task
  pump,       \* its program counter
  pumpCarry,  \* what handle_datagram returned to it: messages, Close
  \* the SessionRegistry and the ticker task
  creator,    \* the handler task that creates the session
  entries,    \* the registry: the ids it holds
  batch,      \* the snapshot of the running tick_all
  tick,       \* tick[s]: the program counter of tick_one(s)
  tickCarry   \* what tick returned to tick_one: messages, Close

entryVars == <<finished, permit, woken, srt, conn, viewer>>
dataVars == <<released, consumed, queued, channel, dropped>>
pumpVars == <<pump, pumpCarry>>
tickVars == <<entries, batch, tick, tickCarry>>
vars == <<entryVars, dataVars, pumpVars, creator, tickVars>>

PumpPC == {"unborn", "parked", "polling", "handle", "route", "send",
           "close", "finish", "exited", "aborted"}
TickPC == {"none", "start", "route", "send", "live", "dead"}
Carry == [data : 0..MaxReleases, close : BOOLEAN]
Nothing == [data |-> 0, close |-> FALSE]

PumpGone(s) == pump[s] \in {"exited", "aborted"}

-----------------------------------------------------------------------------
(* What srt-protocol may make of one input: the handshake goes on, ends in  *)
(* a connection or is refused; a connection goes on or ends.  An ended      *)
(* connection stays in InitiatorState::Connected and can return Close       *)
(* again on every later drain.                                              *)
SrtState == {"handshaking", "connected", "ended", "closed"}
SrtSteps ==
  {<<"handshaking", "handshaking", FALSE>>, <<"handshaking", "connected", FALSE>>,
   <<"handshaking", "closed", TRUE>>,
   <<"connected", "connected", FALSE>>, <<"connected", "ended", TRUE>>,
   <<"ended", "ended", FALSE>>, <<"ended", "ended", TRUE>>,
   <<"closed", "closed", FALSE>>}
SrtOutcomes(state) ==
  {o \in [state : SrtState, close : BOOLEAN] : <<state, o.state, o.close>> \in SrtSteps}

IsConnected(state) == state \in {"connected", "ended"}

(* A connected state machine releases the data the browser sent, here at    *)
(* most one message for an input.  A session without a publish channel      *)
(* ignores it.                                                              *)
Releases(s, state) ==
  IF IsConnected(state) /\ s \in Publishers
    THEN {n \in 0..1 : released[s] + n <= MaxReleases}
    ELSE {0}

(* notify_one leaves a permit when nobody waits and hands it to the waiter  *)
(* otherwise; a waiter dropped before it used the permit passes it on.      *)
NotifyOne(s) == permit' = [permit EXCEPT ![s] = TRUE]

(* notify_waiters reaches the pump only while it waits in its select.       *)
Waiting(s) == pump[s] \in {"parked", "polling"}
NotifyWaiters(s) == woken' = [woken EXCEPT ![s] = @ \/ Waiting(s)]

(* route_release_data for n messages: try_send fails on a full or closed    *)
(* channel, and the message is counted as dropped.                          *)
Lesser(a, b) == IF a <= b THEN a ELSE b

(* Mutant: the publish channel has no bound.                                *)
EnqueuedUnbounded(s, n) == IF channel[s] = "open" THEN n ELSE 0
Enqueued(s, n) == IF channel[s] = "open" THEN Lesser(n, QueueCap - queued[s]) ELSE 0
RouteReleaseData(s, n) ==
  /\ queued' = [queued EXCEPT ![s] = @ + Enqueued(s, n)]
  /\ dropped' = [dropped EXCEPT ![s] = @ + (n - Enqueued(s, n))]

-----------------------------------------------------------------------------
Init ==
  /\ finished = [s \in Session |-> FALSE]
  /\ permit = [s \in Session |-> FALSE]
  /\ woken = [s \in Session |-> FALSE]
  /\ srt = [s \in Session |-> "handshaking"]
  /\ conn = [s \in Session |-> "open"]
  /\ viewer = [s \in Session |-> IF s \in Viewers THEN "open" ELSE "none"]
  /\ released = [s \in Session |-> 0]
  /\ consumed = [s \in Session |-> 0]
  /\ queued = [s \in Session |-> 0]
  /\ channel = [s \in Session |-> IF s \in Publishers THEN "open" ELSE "closed"]
  /\ dropped = [s \in Session |-> 0]
  /\ pump = [s \in Session |-> "unborn"]
  /\ pumpCarry = [s \in Session |-> Nothing]
  /\ creator = [s \in Session |-> "start"]
  /\ entries = {}
  /\ batch = {}
  /\ tick = [s \in Session |-> "none"]
  /\ tickCarry = [s \in Session |-> Nothing]

(* BrowserSession::create: the pump task is running before the handler has  *)
(* put the entry into the registry.                                         *)
Create(s) ==
  /\ creator[s] = "start"
  /\ creator' = [creator EXCEPT ![s] = "created"]
  /\ pump' = [pump EXCEPT ![s] = "parked"]
  /\ UNCHANGED <<entryVars, dataVars, pumpCarry, tickVars>>

Insert(s) ==
  /\ creator[s] = "created"
  /\ creator' = [creator EXCEPT ![s] = "inserted"]
  /\ entries' = entries \cup {s}
  /\ UNCHANGED <<entryVars, dataVars, pumpVars, batch, tick, tickCarry>>

-----------------------------------------------------------------------------
(* recv_pump: the biased select.  It looks at the Notify first, then at the *)
(* connection; a notify_waiters that comes between the two polls is lost    *)
(* with the Notified future if a datagram is there.                         *)
PumpShutdown(s) ==
  /\ pump[s] = "parked"
  /\ permit[s] \/ woken[s]
  /\ pump' = [pump EXCEPT ![s] = "close"]
  /\ permit' = [permit EXCEPT ![s] = IF woken[s] THEN @ ELSE FALSE]
  /\ woken' = [woken EXCEPT ![s] = FALSE]
  /\ UNCHANGED <<finished, srt, conn, viewer, dataVars, pumpCarry, creator, tickVars>>

PumpPoll(s) ==
  /\ pump[s] = "parked"
  /\ ~permit[s] /\ ~woken[s]
  /\ pump' = [pump EXCEPT ![s] = "polling"]
  /\ UNCHANGED <<entryVars, dataVars, pumpCarry, creator, tickVars>>

(* Mutant: the pump takes a datagram and the pending permit with it.        *)
PumpRecvEatsPermit(s) ==
  /\ pump[s] = "polling"
  /\ conn[s] = "open"
  /\ pump' = [pump EXCEPT ![s] = "handle"]
  /\ woken' = [woken EXCEPT ![s] = FALSE]
  /\ permit' = [permit EXCEPT ![s] = FALSE]
  /\ UNCHANGED <<finished, srt, conn, viewer, dataVars, pumpCarry, creator, tickVars>>

PumpRecv(s) ==
  /\ pump[s] = "polling"
  /\ conn[s] = "open"
  /\ pump' = [pump EXCEPT ![s] = "handle"]
  /\ woken' = [woken EXCEPT ![s] = FALSE]
  /\ UNCHANGED <<finished, permit, srt, conn, viewer, dataVars, pumpCarry, creator, tickVars>>

PumpPark(s) ==
  /\ pump[s] = "polling"
  /\ conn[s] = "open"
  /\ pump' = [pump EXCEPT ![s] = "parked"]
  /\ UNCHANGED <<entryVars, dataVars, pumpCarry, creator, tickVars>>

PumpRecvError(s) ==
  /\ pump[s] = "polling"
  /\ conn[s] # "open"
  /\ pump' = [pump EXCEPT ![s] = "close"]
  /\ woken' = [woken EXCEPT ![s] = FALSE]
  /\ UNCHANGED <<finished, permit, srt, conn, viewer, dataVars, pumpCarry, creator, tickVars>>

(* Under the initiator mutex: handle_datagram.                              *)
HandleDatagram(s) ==
  /\ pump[s] = "handle"
  /\ \E o \in SrtOutcomes(srt[s]) : \E n \in Releases(s, srt[s]) :
       /\ srt' = [srt EXCEPT ![s] = o.state]
       /\ released' = [released EXCEPT ![s] = @ + n]
       /\ pumpCarry' = [pumpCarry EXCEPT ![s] = [data |-> n, close |-> o.close]]
  /\ pump' = [pump EXCEPT ![s] = "route"]
  /\ UNCHANGED <<finished, permit, woken, conn, viewer, consumed, queued, channel, dropped,
                 creator, tickVars>>

PumpRoute(s) ==
  /\ pump[s] = "route"
  /\ RouteReleaseData(s, pumpCarry[s].data)
  /\ pumpCarry' = [pumpCarry EXCEPT ![s].data = 0]
  /\ pump' = [pump EXCEPT ![s] = "send"]
  /\ UNCHANGED <<entryVars, released, consumed, channel, creator, tickVars>>

(* The actions are sent under the loss mutex; a datagram that cannot be     *)
(* sent (the connection is gone, the peer takes no datagrams of this size)  *)
(* or a Close ends the loop.                                                *)
PumpSend(s) ==
  /\ pump[s] = "send"
  /\ \E sendFails \in BOOLEAN :
       pump' = [pump EXCEPT ![s] =
                  IF sendFails \/ pumpCarry[s].close THEN "close" ELSE "parked"]
  /\ pumpCarry' = [pumpCarry EXCEPT ![s] = Nothing]
  /\ UNCHANGED <<entryVars, dataVars, creator, tickVars>>

PumpClose(s) ==
  /\ pump[s] = "close"
  /\ conn' = [conn EXCEPT ![s] = IF @ = "open" THEN "closed" ELSE @]
  /\ pump' = [pump EXCEPT ![s] = "finish"]
  /\ UNCHANGED <<finished, permit, woken, srt, viewer, dataVars, pumpCarry, creator, tickVars>>

(* finished = true and notify_waiters, which finds no waiter; FinishedGuard *)
(* drops with the task.                                                     *)
PumpFinish(s) ==
  /\ pump[s] = "finish"
  /\ finished' = [finished EXCEPT ![s] = TRUE]
  /\ pump' = [pump EXCEPT ![s] = "exited"]
  /\ UNCHANGED <<permit, woken, srt, conn, viewer, dataVars, pumpCarry, creator, tickVars>>

(* Mutant: no FinishedGuard.                                                *)
AbortWithoutGuard(s) ==
  /\ pump[s] \in {"parked", "handle", "send"}
  /\ permit[s]
  /\ pump' = [pump EXCEPT ![s] = "aborted"]
  /\ UNCHANGED <<entryVars, dataVars, pumpCarry, creator, tickVars>>

(* The drain of Gateway::run gave the pump its permit and waited; now it    *)
(* aborts the task, which stops at an await: the select or a mutex.  Only   *)
(* FinishedGuard runs.                                                      *)
Abort(s) ==
  /\ pump[s] \in {"parked", "handle", "send"}
  /\ permit[s]
  /\ finished' = [finished EXCEPT ![s] = TRUE]
  /\ pump' = [pump EXCEPT ![s] = "aborted"]
  /\ UNCHANGED <<permit, woken, srt, conn, viewer, dataVars, pumpCarry, creator, tickVars>>

-----------------------------------------------------------------------------
(* tick_all takes a snapshot and runs tick_one on every session of it.      *)
TickAll ==
  /\ batch = {}
  /\ entries # {}
  /\ batch' = entries
  /\ tick' = [s \in Session |-> IF s \in entries THEN "start" ELSE "none"]
  /\ UNCHANGED <<entryVars, dataVars, pumpVars, creator, entries, tickCarry>>

TickFinished(s) ==
  /\ tick[s] = "start"
  /\ finished[s]
  /\ tick' = [tick EXCEPT ![s] = "dead"]
  /\ UNCHANGED <<entryVars, dataVars, pumpVars, creator, entries, batch, tickCarry>>

(* Under the initiator mutex: tick, and for a connected session the drain   *)
(* of its viewer, which finds a stream that has ended.                      *)
TickInitiator(s) ==
  /\ tick[s] = "start"
  /\ ~finished[s]
  /\ \E o \in SrtOutcomes(srt[s]) : \E n \in Releases(s, o.state) :
       /\ srt' = [srt EXCEPT ![s] = o.state]
       /\ released' = [released EXCEPT ![s] = @ + n]
       /\ tickCarry' = [tickCarry EXCEPT ![s] = [data |-> n, close |-> o.close]]
       /\ IF IsConnected(o.state) /\ viewer[s] = "closed"
            THEN /\ finished' = [finished EXCEPT ![s] = TRUE]
                 /\ NotifyWaiters(s)
            ELSE UNCHANGED <<finished, woken>>
  /\ tick' = [tick EXCEPT ![s] = "route"]
  /\ UNCHANGED <<permit, conn, viewer, consumed, queued, channel, dropped, pumpVars, creator,
                 entries, batch>>

(* Mutant: the ticker forgets what it has to route when the session ended.  *)
TickRouteUnlessFinished(s) ==
  /\ tick[s] = "route"
  /\ RouteReleaseData(s, IF finished[s] THEN 0 ELSE tickCarry[s].data)
  /\ tickCarry' = [tickCarry EXCEPT ![s].data = 0]
  /\ tick' = [tick EXCEPT ![s] = "send"]
  /\ UNCHANGED <<entryVars, released, consumed, channel, pumpVars, creator, entries, batch>>

TickRoute(s) ==
  /\ tick[s] = "route"
  /\ RouteReleaseData(s, tickCarry[s].data)
  /\ tickCarry' = [tickCarry EXCEPT ![s].data = 0]
  /\ tick' = [tick EXCEPT ![s] = "send"]
  /\ UNCHANGED <<entryVars, released, consumed, channel, pumpVars, creator, entries, batch>>

(* Under the loss mutex: a Close ends the session; the ticker ignores a     *)
(* datagram that cannot be sent.                                            *)
TickSend(s) ==
  /\ tick[s] = "send"
  /\ IF tickCarry[s].close
       THEN /\ finished' = [finished EXCEPT ![s] = TRUE]
            /\ NotifyWaiters(s)
       ELSE UNCHANGED <<finished, woken>>
  /\ tick' = [tick EXCEPT ![s] = IF finished'[s] THEN "dead" ELSE "live"]
  /\ tickCarry' = [tickCarry EXCEPT ![s] = Nothing]
  /\ UNCHANGED <<permit, srt, conn, viewer, dataVars, pumpVars, creator, entries, batch>>

(* Mutant: every session of the batch is pruned.                            *)
PruneAll ==
  /\ batch # {}
  /\ \A s \in batch : tick[s] \in {"live", "dead"}
  /\ entries' = entries \ batch
  /\ batch' = {}
  /\ tick' = [s \in Session |-> "none"]
  /\ UNCHANGED <<entryVars, dataVars, pumpVars, creator, tickCarry>>

(* When every tick_one has returned, the finished sessions are removed.     *)
Prune ==
  /\ batch # {}
  /\ \A s \in batch : tick[s] \in {"live", "dead"}
  /\ entries' = entries \ {s \in batch : tick[s] = "dead"}
  /\ batch' = {}
  /\ tick' = [s \in Session |-> "none"]
  /\ UNCHANGED <<entryVars, dataVars, pumpVars, creator, tickCarry>>

-----------------------------------------------------------------------------
(* The peer, or the QUIC idle timeout, ends the connection.                 *)
PeerCloses(s) ==
  /\ conn[s] = "open" /\ pump[s] # "unborn"
  /\ conn' = [conn EXCEPT ![s] = "peer"]
  /\ UNCHANGED <<finished, permit, woken, srt, viewer, dataVars, pumpVars, creator, tickVars>>

(* The source of the viewed stream ends and the viewer's ring is drained.   *)
StreamEnds(s) ==
  /\ viewer[s] = "open"
  /\ viewer' = [viewer EXCEPT ![s] = "closed"]
  /\ UNCHANGED <<finished, permit, woken, srt, conn, dataVars, pumpVars, creator, tickVars>>

(* The broadcaster of the published stream takes a message, or ends and     *)
(* discards what is left in the channel.                                    *)
Consume(s) ==
  /\ queued[s] > 0
  /\ queued' = [queued EXCEPT ![s] = @ - 1]
  /\ consumed' = [consumed EXCEPT ![s] = @ + 1]
  /\ UNCHANGED <<entryVars, released, channel, dropped, pumpVars, creator, tickVars>>

BroadcasterEnds(s) ==
  /\ channel[s] = "open"
  /\ channel' = [channel EXCEPT ![s] = "closed"]
  /\ consumed' = [consumed EXCEPT ![s] = @ + queued[s]]
  /\ queued' = [queued EXCEPT ![s] = 0]
  /\ UNCHANGED <<entryVars, released, dropped, pumpVars, creator, tickVars>>

(* Gateway::run asks the session to stop.                                   *)
AskToStop(s) ==
  /\ creator[s] = "inserted" /\ ~PumpGone(s) /\ ~permit[s]
  /\ NotifyOne(s)
  /\ UNCHANGED <<finished, woken, srt, conn, viewer, dataVars, pumpVars, creator, tickVars>>

PumpNext(s) ==
  \/ PumpShutdown(s) \/ PumpPoll(s) \/ PumpRecv(s) \/ PumpPark(s) \/ PumpRecvError(s)
  \/ HandleDatagram(s) \/ PumpRoute(s) \/ PumpSend(s) \/ PumpClose(s) \/ PumpFinish(s)

TickNext(s) == TickFinished(s) \/ TickInitiator(s) \/ TickRoute(s) \/ TickSend(s)

Environment(s) ==
  \/ PeerCloses(s) \/ StreamEnds(s) \/ Consume(s) \/ BroadcasterEnds(s)
  \/ AskToStop(s) \/ Abort(s)

Next ==
  \/ TickAll \/ Prune
  \/ \E s \in Session :
       Create(s) \/ Insert(s) \/ PumpNext(s) \/ TickNext(s) \/ Environment(s)

(* The runtime keeps polling every task that can go on: the handler, the    *)
(* pump and the ticker.  The peer, the streams and the owner of the gateway *)
(* promise nothing.                                                         *)
Fairness ==
  /\ WF_vars(TickAll) /\ WF_vars(Prune)
  /\ \A s \in Session :
       WF_vars(Insert(s)) /\ WF_vars(PumpNext(s)) /\ WF_vars(TickNext(s))

Spec == Init /\ [][Next]_vars /\ Fairness

-----------------------------------------------------------------------------
(* Every variable has the type its code counterpart has. *)
TypeOK ==
  /\ finished \in [Session -> BOOLEAN]
  /\ permit \in [Session -> BOOLEAN]
  /\ woken \in [Session -> BOOLEAN]
  /\ srt \in [Session -> SrtState]
  /\ conn \in [Session -> {"open", "closed", "peer"}]
  /\ viewer \in [Session -> {"none", "open", "closed"}]
  /\ released \in [Session -> 0..MaxReleases]
  /\ consumed \in [Session -> Nat]
  /\ queued \in [Session -> 0..QueueCap]
  /\ channel \in [Session -> {"open", "closed"}]
  /\ dropped \in [Session -> Nat]
  /\ pump \in [Session -> PumpPC]
  /\ pumpCarry \in [Session -> Carry]
  /\ creator \in [Session -> {"start", "created", "inserted"}]
  /\ entries \subseteq Session
  /\ batch \subseteq Session
  /\ tick \in [Session -> TickPC]
  /\ tickCarry \in [Session -> Carry]

(* No upstream message vanishes: whichever task released it and however     *)
(* the session ends, it left the channel at the broadcaster's end, waits in *)
(* the channel, was counted in publish_dropped, or is in the hands of the   *)
(* task that released it (session.rs:214-231, 296-323, registry.rs:403-415).*)
Conservation ==
  \A s \in Publishers :
    released[s] = consumed[s] + queued[s] + dropped[s]
                  + pumpCarry[s].data + tickCarry[s].data

(* A session leaves the registry only when it has finished, and a pump that *)
(* is gone, by whatever exit, has marked it finished: neither can the       *)
(* ticker lose a live session nor keep the entry, the connection slot and   *)
(* the stream name of a dead one (registry.rs:286-292, session.rs:248-256). *)
OnlyFinishedLeave ==
  \A s \in Session :
    /\ creator[s] = "inserted" /\ s \notin entries => finished[s]
    /\ PumpGone(s) => finished[s]

(* The entry of a session is shared by the handler that creates it, the     *)
(* registry, the running tick and the pump; with the last of them go the    *)
(* connection slot, the claim of the published stream and the connection.   *)
Freed(s) == creator[s] = "inserted" /\ s \notin entries \cup batch /\ PumpGone(s)

(* A session whose peer is gone, or whose pump is gone, is freed, even when *)
(* that happened before the handler put it into the registry.               *)
DeadSessionIsFreed ==
  \A s \in Session : (conn[s] # "open" \/ PumpGone(s)) ~> Freed(s)

(* A stop that Gateway::run asks for with notify_one is never lost, also    *)
(* when the pump is busy with a datagram or just taking one                 *)
(* (gateway.rs:329-331, 625, session.rs:196-199).                           *)
StopIsHeard == \A s \in Session : permit[s] ~> PumpGone(s)

(* registry.rs:375-379: a viewer session whose stream has ended is torn     *)
(* down, "recv_pump closes the WT connection".  The ticker tells the pump   *)
(* with notify_waiters, which a pump that does not wait never learns of.    *)
FinishedSessionIsClosed ==
  \A s \in Session : finished[s] ~> (conn[s] # "open" \/ Freed(s))
=============================================================================
