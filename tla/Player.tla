------------------------------- MODULE Player -------------------------------
(***************************************************************************)
(* The viewer in the browser: the handle an embedder has (player/index.ts),*)
(* the connection under it (shared/viewer.ts), the worker with the         *)
(* WebTransport session and the loop (worker.ts), and the SRT receiver in  *)
(* the loop (crates/srt-wasm/src/lib.rs).                                  *)
(*                                                                         *)
(* Every connection gets a worker of its own: what a terminated worker had *)
(* under way, messages included, is gone.  The other end, a session of the *)
(* gateway, and the network are the environment; datagrams may be lost.    *)
(***************************************************************************)
EXTENDS Naturals, Sequences, SequencesExt

CONSTANTS
  Latency,       \* latencies the user sets
  MaxCalls       \* bound: calls of the embedder

ASSUME PlayerAssumption == Latency # {} /\ MaxCalls \in Nat

VARIABLES
  config,   \* autoReconnect, and whether a certificate hash is known
  sdk,      \* WebsrtPlayer: state, everConnected, manualDisconnect, destroyed, connectPromise
  page,     \* createViewer: connState, reconnectTimer, manualDisconnect, latencies, firstFrame
  late,     \* timers of setLatencyMs that are pending
  worker,   \* the worker: where its doInit is, its session, its receiver, the other end
  inbox,    \* messages of the worker on their way to the page
  up,       \* the gateway is there and the network carries datagrams
  calls     \* bound: calls so far

vars == <<config, sdk, page, late, worker, inbox, up, calls>>
pageVars == <<config, sdk, page, late, calls>>

-----------------------------------------------------------------------------
(* WebsrtPlayer.onViewerState.                                              *)
OnState(s, conn) ==
  CASE conn = "connecting" ->
         [s EXCEPT !.state = IF s.ever /\ ~s.manual THEN "reconnecting" ELSE "connecting"]
    [] conn = "connected" -> [s EXCEPT !.state = "connected", !.ever = TRUE]
    [] OTHER -> [s EXCEPT !.ever = @ /\ ~s.manual,
                          !.state = IF s.ever /\ ~s.manual THEN "reconnecting" ELSE "idle"]

(* doInit is at "init", "dialing" (wt.ready), "rtt" (getStats), or over, in *)
(* the "loop" or "failed"; rx is the State of the SrtReceiver.              *)
NoWorker == [at |-> "none", wt |-> "none", rx |-> "none", peer |-> "none", latency |-> 0]
NewWorker(latency) == [NoWorker EXCEPT !.at = "init", !.latency = latency]

Init ==
  /\ config \in [auto : BOOLEAN, hash : BOOLEAN]
  /\ sdk = [state |-> "idle", ever |-> FALSE, manual |-> FALSE, destroyed |-> FALSE, pending |-> FALSE]
  /\ \E l \in Latency :
       page = [conn |-> "idle", timer |-> FALSE, manual |-> FALSE, current |-> l, applied |-> l,
               first |-> TRUE]
  /\ late = 0 /\ worker = NoWorker /\ inbox = <<>>
  /\ up = TRUE /\ calls = 0

(* Mutant: teardown leaves the timer of a reconnection running.             *)
TeardownKeepsTimer(p) == [p EXCEPT !.conn = "idle"]
(* teardown; the worker and its messages go with it.                        *)
Teardown(p) == [p EXCEPT !.timer = FALSE, !.conn = "idle"]

(* doConnect, for a handle that is in the state s.                          *)
DoConnect(s, p) ==
  LET connecting == OnState(OnState(s, "idle"), "connecting")
      ready == [Teardown(p) EXCEPT !.manual = FALSE, !.conn = "connecting"]
  IN /\ inbox' = <<>>
     /\ IF config.hash
        THEN /\ sdk' = connecting
             /\ page' = [ready EXCEPT !.first = TRUE, !.applied = p.current]
             /\ worker' = NewWorker(p.current)
        ELSE /\ sdk' = [connecting EXCEPT !.state = "error", !.pending = FALSE]
             /\ page' = ready
             /\ worker' = NoWorker

(* doDisconnect.                                                            *)
DoDisconnect(s, p) ==
  /\ sdk' = OnState(s, "idle")
  /\ page' = [Teardown(p) EXCEPT !.manual = TRUE]
  /\ worker' = NoWorker /\ inbox' = <<>>

-----------------------------------------------------------------------------
(* The embedder.                                                            *)
Call == calls < MaxCalls /\ calls' = calls + 1 /\ UNCHANGED <<config, up>>

(* connect: a promise that is not settled is returned again.                *)
Connect ==
  /\ Call /\ ~sdk.destroyed
  /\ UNCHANGED late
  /\ IF sdk.pending THEN UNCHANGED <<sdk, page, worker, inbox>>
     ELSE DoConnect([sdk EXCEPT !.manual = FALSE, !.pending = TRUE], page)

Disconnect ==
  /\ Call /\ ~sdk.destroyed
  /\ DoDisconnect([sdk EXCEPT !.manual = TRUE, !.pending = FALSE], page)
  /\ UNCHANGED late

Destroy ==
  /\ Call /\ ~sdk.destroyed
  /\ DoDisconnect([sdk EXCEPT !.manual = TRUE, !.pending = FALSE, !.destroyed = TRUE], page)
  /\ UNCHANGED late

(* Mutant: only a session that is connected is started again.               *)
SetLatencyMsIfConnected(l) ==
  /\ Call
  /\ IF page.conn = "connected" /\ l # page.applied
     THEN DoDisconnect(sdk, [page EXCEPT !.current = l]) /\ late' = late + 1
     ELSE page' = [page EXCEPT !.current = l] /\ UNCHANGED <<sdk, late, worker, inbox>>

(* setLatencyMs: disconnects, and connects in 100 ms.                       *)
SetLatencyMs(l) ==
  /\ Call
  /\ IF page.conn # "idle" /\ l # page.applied
     THEN DoDisconnect(sdk, [page EXCEPT !.current = l]) /\ late' = late + 1
     ELSE page' = [page EXCEPT !.current = l] /\ UNCHANGED <<sdk, late, worker, inbox>>

-----------------------------------------------------------------------------
(* The page: its timers, and handleWorkerMsg for one message.               *)
LatencyTimer ==
  /\ late > 0 /\ late' = late - 1
  /\ DoConnect(sdk, page)
  /\ UNCHANGED <<config, up, calls>>

ReconnectTimer ==
  /\ page.timer
  /\ DoConnect(sdk, [page EXCEPT !.timer = FALSE])
  /\ UNCHANGED <<config, late, up, calls>>

Receives(msg) ==
  /\ inbox # <<>> /\ Head(inbox) = msg
  /\ inbox' = Tail(inbox)
  /\ UNCHANGED <<config, late, worker, up, calls>>

WtReady ==
  /\ Receives("wtReady")
  /\ page' = [page EXCEPT !.conn = "connected"]
  /\ sdk' = OnState(sdk, "connected")

(* Video; the first frame settles the promise of connect.                   *)
Video ==
  /\ Receives("video")
  /\ page' = [page EXCEPT !.first = FALSE]
  /\ sdk' = [sdk EXCEPT !.pending = @ /\ ~page.first]

HandshakeComplete == Receives("handshakeComplete") /\ UNCHANGED <<sdk, page>>

(* Mutant: the handle takes the failure of a session for its own end.       *)
OverEndsHandle ==
  /\ Receives("wtClosed") \/ Receives("close") \/ Receives("error")
  /\ page' = IF ~page.manual /\ config.auto THEN [page EXCEPT !.timer = TRUE] ELSE page
  /\ sdk' = [sdk EXCEPT !.state = "error"]

(* wtClosed, close, onerror: scheduleReconnect, whose log tells the handle  *)
(* unless a reconnection is due already.                                    *)
Over ==
  /\ Receives("wtClosed") \/ Receives("close") \/ Receives("error")
  /\ IF ~page.manual /\ config.auto /\ ~page.timer
     THEN /\ page' = [page EXCEPT !.timer = TRUE]
          /\ sdk' = [sdk EXCEPT !.state = "reconnecting"]
     ELSE UNCHANGED <<page, sdk>>

-----------------------------------------------------------------------------
(* The worker: doInit.                                                      *)
Works(w, msgs) == worker' = w /\ inbox' = inbox \o msgs /\ UNCHANGED <<pageVars, up>>
Failed == [NoWorker EXCEPT !.at = "failed", !.latency = worker.latency]

ScriptFails == worker.at = "init" /\ Works(Failed, <<"error">>)
WasmReady == worker.at = "init" /\ Works([worker EXCEPT !.at = "dialing"], <<>>)
Dialed == worker.at = "dialing" /\ up
          /\ Works([worker EXCEPT !.at = "rtt", !.wt = "open", !.peer = "initiating"], <<>>)

(* Mutant: a failure of doInit is logged and not reported.                  *)
InitFailsSilently == worker.at \in {"init", "dialing"} /\ Works(Failed, <<>>)
(* The catch of doInit: doStop, and the page is told.                       *)
InitFails == worker.at \in {"init", "dialing"} /\ Works(Failed, <<"wtClosed">>)

(* getStats is over; the session may have been closed during it.            *)
EntersLoop ==
  /\ worker.at = "rtt"
  /\ Works([worker EXCEPT !.at = "loop", !.rx = "handshaking"], <<"wtReady">>)

(* wt.closed; the loop ends with its reader.                                *)
TransportOver ==
  /\ worker.at = "loop" /\ worker.wt = "closed"
  /\ Works([worker EXCEPT !.at = "failed", !.rx = "closed"], <<"wtClosed">>)

-----------------------------------------------------------------------------
(* The SRT receiver in the loop: handle_datagram, poll, drain.              *)
InLoop(rx) == worker.at = "loop" /\ worker.rx = rx

(* The request of the initiator is answered, and the receiver connected; a  *)
(* lost answer is given again when the request is.                          *)
HandshakeDone ==
  /\ InLoop("handshaking") /\ worker.wt = "open" /\ up /\ worker.peer = "initiating"
  /\ \E answered \in {"initiating", "connected"} :
       Works([worker EXCEPT !.rx = "connected", !.peer = answered], <<"handshakeComplete">>)
AnswerAgain ==
  /\ InLoop("connected") /\ worker.wt = "open" /\ up /\ worker.peer = "initiating"
  /\ Works([worker EXCEPT !.peer = "connected"], <<>>)
Rejects ==
  /\ InLoop("handshaking") /\ worker.wt = "open" /\ worker.peer = "initiating"
  /\ Works([worker EXCEPT !.rx = "closed"], <<"close">>)

(* A message is released; only the one of the first frame is told apart.    *)
Releases ==
  /\ InLoop("connected") /\ worker.wt = "open" /\ up /\ worker.peer = "connected"
  /\ page.first /\ ~Contains(inbox, "video")
  /\ Works(worker, <<"video">>)

(* Action::Close: the shutdown of the other end, or nothing for too long.   *)
Closes ==
  /\ InLoop("connected") /\ (worker.peer = "gone" \/ ~up)
  /\ Works([worker EXCEPT !.rx = "closed"], <<"close">>)

-----------------------------------------------------------------------------
(* The network and the gateway.                                             *)
UpDown == up' = ~up /\ UNCHANGED <<pageVars, worker, inbox>>
(* The session is released: Session.tla, Gateway.tla.                       *)
PeerLeaves ==
  /\ worker.peer \in {"initiating", "connected"} /\ ~up
  /\ Works([worker EXCEPT !.peer = "gone"], <<>>)
(* The transport is closed by a gateway whose handshake is not answered,    *)
(* that releases the session, or by the network.                            *)
TransportClosed ==
  /\ worker.wt = "open" /\ (worker.peer # "connected" \/ ~up)
  /\ Works([worker EXCEPT !.wt = "closed", !.peer = "gone"], <<>>)

-----------------------------------------------------------------------------
CallNext == Connect \/ Disconnect \/ Destroy \/ \E l \in Latency : SetLatencyMs(l)
PageNext == LatencyTimer \/ ReconnectTimer \/ WtReady \/ Video \/ HandshakeComplete \/ Over
WorkerNext == ScriptFails \/ WasmReady \/ Dialed \/ InitFails \/ EntersLoop \/ TransportOver
ReceiverNext == HandshakeDone \/ AnswerAgain \/ Rejects \/ Releases \/ Closes
NetNext == UpDown \/ PeerLeaves \/ TransportClosed

Next == CallNext \/ PageNext \/ WorkerNext \/ ReceiverNext \/ NetNext

(* The event loops of page and worker run and the timers fire; a dial ends; *)
(* a handshake, or its transport, ends.  Of the dials, scripts and          *)
(* handshakes tried while the gateway is up, not all fail, nor does the     *)
(* transport always close between the two.                                  *)
Fairness ==
  /\ WF_vars(LatencyTimer) /\ WF_vars(ReconnectTimer)
  /\ WF_vars(WtReady \/ Video \/ HandshakeComplete \/ Over)
  /\ WF_vars(WorkerNext) /\ SF_vars(WasmReady) /\ SF_vars(Dialed)
  /\ SF_vars(worker.wt = "open" /\ EntersLoop)
  /\ WF_vars(TransportClosed) /\ WF_vars(Closes)
  /\ SF_vars(HandshakeDone /\ worker'.peer = "connected") /\ SF_vars(Releases)

Spec == Init /\ [][Next]_vars /\ Fairness

-----------------------------------------------------------------------------
TypeOK ==
  /\ config \in [auto : BOOLEAN, hash : BOOLEAN]
  /\ sdk \in [state : {"idle", "connecting", "connected", "reconnecting", "error"},
              ever : BOOLEAN, manual : BOOLEAN, destroyed : BOOLEAN, pending : BOOLEAN]
  /\ page \in [conn : {"idle", "connecting", "connected"}, timer : BOOLEAN, manual : BOOLEAN,
               current : Latency, applied : Latency, first : BOOLEAN]
  /\ late \in 0..MaxCalls
  /\ worker \in [at : {"none", "init", "dialing", "rtt", "loop", "failed"},
                 wt : {"none", "open", "closed"},
                 rx : {"none", "handshaking", "connected", "closed"},
                 peer : {"none", "initiating", "connected", "gone"}, latency : Latency \cup {0}]
  /\ up \in BOOLEAN /\ calls \in 0..MaxCalls

(* A reconnection that is due never takes down a session that lives: while  *)
(* its timer runs, the worker that is there has failed, or its SRT          *)
(* connection is closed (viewer.ts:208-219, 503-516).                       *)
SessionOver == worker.at = "failed" \/ worker.rx = "closed"
OnlyDeadSessionsAreReplaced == page.timer => SessionOver

(* A session runs with the latency that was set last, whenever it was set:  *)
(* while connecting, connected, or waiting for a reconnection               *)
(* (viewer.ts:365-367, 523-530).                                            *)
RunsAtSetLatency == worker.at # "none" => worker.latency = page.current

(* What the handle shows is true of what is under it: idle and error mean   *)
(* that no session is left and none is due, which the connect button of the *)
(* page relies on; a promise that is not settled has a session, or one to   *)
(* come, behind it (player/index.ts:163-249, pages/viewer.ts:31).           *)
HandleIsTruthful ==
  /\ sdk.state \in {"idle", "error"} => worker.at = "none" /\ ~page.timer
  /\ sdk.pending => worker.at # "none" \/ late > 0
  /\ sdk.state = "connected" => page.conn = "connected"

(* A session that is asked for plays, again and again, if the gateway is up *)
(* from some time on: whatever failed before, at whichever step, is tried   *)
(* again (viewer.ts:208-219, worker.ts:387-565, srt-wasm lib.rs:317-427).   *)
Asked == config.auto /\ up /\ sdk.state \notin {"idle", "error"}
Playing == worker.rx = "connected" /\ ~page.first /\ sdk.state = "connected"
SessionComesBack == <>[]Asked => []<>Playing

(* A handle that was disconnected, or destroyed, stays without a session    *)
(* until it is asked to connect (player/index.ts:251-264).                  *)
DisconnectStays == sdk.manual => worker.at = "none"
=============================================================================
