---------------------------- MODULE Player_proofs ----------------------------
(***************************************************************************)
(* A reconnection replaces dead sessions only, a session runs with the     *)
(* latency that was set last, and what the handle shows is true, for any   *)
(* latencies and any number of calls.                                      *)
(***************************************************************************)
EXTENDS Player, TLAPS

Msg == {"wtReady", "handshakeComplete", "video", "wtClosed", "close", "error"}
Ending == {"wtClosed", "close", "error"}
WorkerType ==
  [at : {"none", "init", "dialing", "rtt", "loop", "failed"}, wt : {"none", "open", "closed"},
   rx : {"none", "handshaking", "connected", "closed"},
   peer : {"none", "initiating", "connected", "gone"}, latency : Latency \cup {0}]

(* The receiver of a worker begins with its loop, so that no step of the    *)
(* worker takes back its end.                                               *)
RxBegins(w) == w.at \in {"none", "init", "dialing", "rtt"} => w.rx = "none"
IsOver(w) == w.at = "failed" \/ w.rx = "closed"

(* A message comes from a worker that is there, and one that asks for a     *)
(* reconnection from one whose session is over.                             *)
MessagesOK ==
  /\ inbox \in Seq(Msg)
  /\ inbox # <<>> => worker.at # "none"
  /\ \A i \in DOMAIN inbox : inbox[i] \in Ending => IsOver(worker)

(* A worker was given the latency that the page applied, and a change of it *)
(* while there is one takes effect because the page is not idle.            *)
LatencyOK ==
  worker.at # "none" =>
    page.conn # "idle" /\ worker.latency = page.applied /\ page.applied = page.current

(* Without a worker there is no transport and no other end.                 *)
NoneHasNothing == worker.at = "none" => worker.peer = "none" /\ worker.wt = "none"

IInv ==
  /\ TypeOK /\ late <= calls
  /\ RxBegins(worker) /\ NoneHasNothing /\ MessagesOK /\ LatencyOK
  /\ OnlyDeadSessionsAreReplaced /\ HandleIsTruthful

-----------------------------------------------------------------------------
LEMMA InitEstablishes == Init => IInv
BY PlayerAssumption
   DEF Init, IInv, TypeOK, NoWorker, RxBegins, NoneHasNothing, MessagesOK, LatencyOK, OnlyDeadSessionsAreReplaced,
       HandleIsTruthful, Msg

(* What the handle shows after a change of the connection.                  *)
HandleType ==
  [state : {"idle", "connecting", "connected", "reconnecting", "error"},
   ever : BOOLEAN, manual : BOOLEAN, destroyed : BOOLEAN, pending : BOOLEAN]
PageType ==
  [conn : {"idle", "connecting", "connected"}, timer : BOOLEAN, manual : BOOLEAN,
   current : Latency, applied : Latency, first : BOOLEAN]

LEMMA OnStateType ==
  ASSUME NEW s \in HandleType, NEW conn \in {"idle", "connecting", "connected"}
  PROVE  /\ OnState(s, conn) \in HandleType
         /\ OnState(s, conn).pending = s.pending
         /\ conn = "idle" => OnState(s, conn).state \in {"idle", "reconnecting"}
         /\ conn = "connecting" => OnState(s, conn).state \in {"connecting", "reconnecting"}
         /\ conn = "connected" => OnState(s, conn).state = "connected"
BY DEF OnState, HandleType

(* Whatever was there, a connect leaves a new worker or an error, and no    *)
(* promise that waits for nothing.                                          *)
LEMMA ConnectEstablishes ==
  ASSUME IInv, NEW s \in HandleType, NEW p \in PageType, DoConnect(s, p),
         UNCHANGED config, late' \in 0..MaxCalls, late' <= calls', calls' \in 0..MaxCalls,
         UNCHANGED up
  PROVE  IInv'
<1> DEFINE c == OnState(OnState(s, "idle"), "connecting")
<1>1. c \in HandleType /\ c.state \in {"connecting", "reconnecting"}
  BY OnStateType
<1>2. /\ [c EXCEPT !.state = "error", !.pending = FALSE] \in HandleType
      /\ [c EXCEPT !.state = "error", !.pending = FALSE].state = "error"
      /\ [c EXCEPT !.state = "error", !.pending = FALSE].pending = FALSE
  BY <1>1 DEF HandleType
<1>3. /\ page' \in PageType /\ page'.conn = "connecting" /\ ~page'.timer
      /\ config.hash => page'.applied = page'.current /\ page'.current = p.current
  BY ZenonT(40) DEF DoConnect, Teardown, PageType
<1>4. CASE config.hash
  <2>1. sdk' = c /\ worker' = NewWorker(p.current) /\ inbox' = <<>>
    BY <1>4 DEF DoConnect
  <2>2. /\ worker' \in WorkerType /\ worker'.at = "init" /\ worker'.rx = "none"
        /\ worker'.latency = p.current
    BY <2>1 DEF NewWorker, NoWorker, WorkerType, PageType
  <2>3. QED
    BY <1>1, <1>3, <1>4, <2>1, <2>2
       DEF IInv, TypeOK, RxBegins, NoneHasNothing, MessagesOK, LatencyOK, OnlyDeadSessionsAreReplaced,
           HandleIsTruthful, HandleType, PageType, WorkerType, Msg
<1>5. CASE ~config.hash
  <2>1. /\ sdk' = [c EXCEPT !.state = "error", !.pending = FALSE]
        /\ worker' = NoWorker /\ inbox' = <<>>
    BY <1>5 DEF DoConnect
  <2>2. sdk' \in HandleType /\ sdk'.state = "error" /\ ~sdk'.pending
    BY <1>2, <2>1
  <2>3. QED
    BY <1>3, <2>1, <2>2
       DEF IInv, TypeOK, RxBegins, NoneHasNothing, MessagesOK, LatencyOK, OnlyDeadSessionsAreReplaced,
           HandleIsTruthful, HandleType, PageType, NoWorker, Msg
<1>6. QED
  BY <1>4, <1>5

(* A disconnect leaves nothing; a promise may go on waiting for a timer.    *)
LEMMA DisconnectEstablishes ==
  ASSUME IInv, NEW s \in HandleType, NEW p \in PageType, DoDisconnect(s, p),
         UNCHANGED config, late' \in 0..MaxCalls, late' <= calls', calls' \in 0..MaxCalls,
         UNCHANGED up, s.pending => late' > 0
  PROVE  IInv'
<1>1. /\ sdk' \in HandleType /\ sdk'.state \in {"idle", "reconnecting"}
      /\ sdk'.pending => late' > 0
  BY OnStateType DEF DoDisconnect
<1>2. page' \in PageType /\ page'.conn = "idle" /\ ~page'.timer
  BY DEF DoDisconnect, Teardown, PageType
<1>3. worker' = NoWorker /\ inbox' = <<>>
  BY DEF DoDisconnect
<1>4. QED
  BY <1>1, <1>2, <1>3
     DEF IInv, TypeOK, RxBegins, NoneHasNothing, MessagesOK, LatencyOK, OnlyDeadSessionsAreReplaced,
         HandleIsTruthful, HandleType, PageType, NoWorker, Msg

-----------------------------------------------------------------------------
LEMMA CallsKeep == ASSUME IInv, CallNext PROVE IInv'
<1>0. sdk \in HandleType /\ page \in PageType /\ late \in Nat /\ calls \in Nat /\ MaxCalls \in Nat
  BY PlayerAssumption DEF IInv, TypeOK, HandleType, PageType
<1>1. Call => /\ UNCHANGED <<config, up>> /\ calls' \in 0..MaxCalls /\ late <= calls'
              /\ late \in 0..MaxCalls /\ late + 1 <= calls' /\ late + 1 \in 0..MaxCalls
  BY <1>0 DEF Call, IInv, TypeOK
<1>2. CASE Connect
  <2>1. CASE sdk.pending
    BY <1>1, <1>2, <2>1
       DEF Connect, IInv, TypeOK, RxBegins, NoneHasNothing, MessagesOK, LatencyOK, OnlyDeadSessionsAreReplaced,
           HandleIsTruthful, SessionOver, IsOver
  <2>2. CASE ~sdk.pending
    <3>1. [sdk EXCEPT !.manual = FALSE, !.pending = TRUE] \in HandleType
      BY <1>0 DEF HandleType
    <3>2. QED
      BY <1>0, <1>1, <1>2, <2>2, <3>1, ConnectEstablishes DEF Connect
  <2>3. QED
    BY <2>1, <2>2
<1>3. CASE Disconnect
  <2> DEFINE s == [sdk EXCEPT !.manual = TRUE, !.pending = FALSE]
  <2>1. s \in HandleType /\ s.pending = FALSE
    BY <1>0 DEF HandleType
  <2>2. QED
    BY <1>0, <1>1, <1>3, <2>1, DisconnectEstablishes DEF Disconnect
<1>4. CASE Destroy
  <2> DEFINE s == [sdk EXCEPT !.manual = TRUE, !.pending = FALSE, !.destroyed = TRUE]
  <2>1. s \in HandleType /\ s.pending = FALSE
    BY <1>0 DEF HandleType
  <2>2. QED
    BY <1>0, <1>1, <1>4, <2>1, DisconnectEstablishes DEF Destroy
<1>5. ASSUME NEW l \in Latency, SetLatencyMs(l) PROVE IInv'
  <2> DEFINE p == [page EXCEPT !.current = l]
  <2>1. p \in PageType
    BY <1>0 DEF PageType
  <2>2. CASE page.conn # "idle" /\ l # page.applied
    <3>1. DoDisconnect(sdk, p) /\ late' = late + 1 /\ late' > 0
      BY <1>0, <1>5, <2>2 DEF SetLatencyMs
    <3>2. QED
      BY <1>0, <1>1, <1>5, <2>1, <3>1, DisconnectEstablishes DEF SetLatencyMs
  <2>3. CASE ~(page.conn # "idle" /\ l # page.applied)
    <3>1. page' = p /\ UNCHANGED <<sdk, late, worker, inbox>> /\ Call
      BY <1>5, <2>3 DEF SetLatencyMs
    <3>2. /\ page'.conn = page.conn /\ page'.timer = page.timer /\ page'.applied = page.applied
          /\ page'.current = l
      BY <1>0, <3>1 DEF PageType
    <3>3. LatencyOK'
      BY <2>3, <3>1, <3>2 DEF IInv, LatencyOK
    <3>4. QED
      BY <1>0, <1>1, <2>1, <3>1, <3>2, <3>3
         DEF IInv, TypeOK, RxBegins, NoneHasNothing, MessagesOK, OnlyDeadSessionsAreReplaced, HandleIsTruthful,
             SessionOver, IsOver, PageType
  <2>4. QED
    BY <2>2, <2>3
<1>6. QED
  BY <1>2, <1>3, <1>4, <1>5 DEF CallNext

(* The page takes a message that is no news of the end of the session.      *)
LEMMA ReceiveKeeps ==
  ASSUME IInv, NEW msg, Receives(msg)
  PROVE  /\ TypeOK' <=> (sdk' \in HandleType /\ page' \in PageType)
         /\ MessagesOK' /\ worker.at # "none" /\ msg \in Msg
         /\ msg \in Ending => SessionOver
<1>1. inbox \in Seq(Msg) /\ inbox # <<>> /\ msg = inbox[1] /\ 1 \in DOMAIN inbox
  BY DEF Receives, IInv, MessagesOK
<1>2. inbox' \in Seq(Msg) /\ \A i \in DOMAIN inbox' : i + 1 \in DOMAIN inbox /\ inbox'[i] = inbox[i + 1]
  BY <1>1 DEF Receives
<1>3. UNCHANGED <<config, late, worker, up, calls>>
  BY DEF Receives
<1>4. QED
  BY <1>1, <1>2, <1>3 DEF IInv, MessagesOK, TypeOK, HandleType, PageType, SessionOver, IsOver

LEMMA PageKeeps == ASSUME IInv, PageNext PROVE IInv'
<1>0. sdk \in HandleType /\ page \in PageType /\ late \in Nat /\ calls \in Nat /\ MaxCalls \in Nat
  BY PlayerAssumption DEF IInv, TypeOK, HandleType, PageType
<1> USE DEF IInv, RxBegins, NoneHasNothing, LatencyOK, OnlyDeadSessionsAreReplaced, HandleIsTruthful, SessionOver
<1>1. CASE LatencyTimer
  <2>1. /\ late' \in 0..MaxCalls /\ late' <= calls' /\ calls' \in 0..MaxCalls
        /\ DoConnect(sdk, page) /\ UNCHANGED <<config, up>>
    BY <1>0, <1>1 DEF LatencyTimer, TypeOK
  <2>2. QED
    BY <1>0, <2>1, ConnectEstablishes
<1>2. CASE ReconnectTimer
  <2>1. [page EXCEPT !.timer = FALSE] \in PageType
    BY <1>0 DEF PageType
  <2>2. /\ late' \in 0..MaxCalls /\ late' <= calls' /\ calls' \in 0..MaxCalls
        /\ DoConnect(sdk, [page EXCEPT !.timer = FALSE]) /\ UNCHANGED <<config, up>>
    BY <1>0, <1>2 DEF ReconnectTimer, TypeOK
  <2>3. QED
    BY <1>0, <2>1, <2>2, ConnectEstablishes
<1>3. CASE WtReady
  <2>1. /\ sdk' \in HandleType /\ sdk'.state = "connected" /\ sdk'.pending = sdk.pending
    BY <1>0, <1>3, OnStateType DEF WtReady
  <2>2. /\ page' \in PageType /\ page'.conn = "connected" /\ page'.timer = page.timer
        /\ page'.applied = page.applied /\ page'.current = page.current
    BY <1>0, <1>3 DEF WtReady, PageType
  <2>3. QED
    BY <1>3, <2>1, <2>2, ReceiveKeeps DEF WtReady, Receives
<1>4. CASE Video
  <2>1. /\ sdk' \in HandleType /\ sdk'.state = sdk.state
        /\ sdk'.pending => sdk.pending
    BY <1>0, <1>4 DEF Video, HandleType
  <2>2. /\ page' \in PageType /\ page'.conn = page.conn /\ page'.timer = page.timer
        /\ page'.applied = page.applied /\ page'.current = page.current
    BY <1>0, <1>4 DEF Video, PageType
  <2>3. QED
    BY <1>4, <2>1, <2>2, ReceiveKeeps DEF Video, Receives
<1>5. CASE HandshakeComplete
  BY <1>0, <1>5, ReceiveKeeps DEF HandshakeComplete, Receives
<1>6. CASE Over
  <2>1. MessagesOK' /\ SessionOver /\ worker.at # "none" /\ UNCHANGED <<late, worker, calls>>
        /\ (TypeOK' <=> (sdk' \in HandleType /\ page' \in PageType))
    BY <1>6, ReceiveKeeps DEF Over, Ending, Receives
  <2>2. CASE ~page.manual /\ config.auto /\ ~page.timer
    <3>1. /\ sdk' \in HandleType /\ sdk'.state = "reconnecting" /\ sdk'.pending = sdk.pending
          /\ page' \in PageType /\ page'.conn = page.conn
          /\ page'.applied = page.applied /\ page'.current = page.current
      BY ZenonT(40), <1>0, <1>6, <2>2 DEF Over, HandleType, PageType
    <3>2. QED
      BY <2>1, <3>1
  <2>3. CASE ~(~page.manual /\ config.auto /\ ~page.timer)
    BY <1>0, <1>6, <2>1, <2>3 DEF Over
  <2>4. QED
    BY <2>2, <2>3
<1>7. QED
  BY <1>1, <1>2, <1>3, <1>4, <1>5, <1>6 DEF PageNext

(* A step of a worker that is there: it keeps its latency, its end is final,*)
(* and it sends news of its end only when it is over.                       *)
Sound(w, msgs) ==
  /\ w \in WorkerType /\ w.at # "none" /\ w.latency = worker.latency /\ RxBegins(w)
  /\ IsOver(worker) => IsOver(w)
  /\ msgs \in Seq(Msg) /\ \A i \in DOMAIN msgs : msgs[i] \in Ending => IsOver(w)

LEMMA WorkKeeps ==
  ASSUME IInv, worker.at # "none", NEW w, NEW msgs, Works(w, msgs), Sound(w, msgs)
  PROVE  IInv'
<1>1. worker' = w /\ UNCHANGED <<config, sdk, page, late, calls, up>>
  BY DEF Works, pageVars
<1>2. inbox' = inbox \o msgs /\ inbox \in Seq(Msg) /\ msgs \in Seq(Msg)
  BY DEF Works, IInv, MessagesOK, Sound
<1>3. inbox' \in Seq(Msg)
  BY <1>2
<1>4. ASSUME NEW i \in DOMAIN inbox', inbox'[i] \in Ending PROVE IsOver(w)
  <2>1. CASE i <= Len(inbox)
    BY <1>2, <1>4, <2>1 DEF IInv, MessagesOK, Sound
  <2>2. CASE i > Len(inbox)
    BY <1>2, <1>4, <2>2 DEF Sound
  <2>3. QED
    BY <1>2, <2>1, <2>2
<1>5. MessagesOK'
  BY <1>1, <1>3, <1>4 DEF MessagesOK, Sound
<1>6. QED
  BY <1>1, <1>5
     DEF IInv, TypeOK, RxBegins, NoneHasNothing, LatencyOK, OnlyDeadSessionsAreReplaced, HandleIsTruthful,
         WorkerType, SessionOver, IsOver, Sound

LEMMA WorkersKeep == ASSUME IInv, WorkerNext \/ ReceiverNext PROVE IInv'
<1>0. worker \in WorkerType /\ RxBegins(worker)
  BY DEF IInv, TypeOK, WorkerType
<1>1. CASE ScriptFails
  <2> DEFINE w == Failed
  <2>1. worker.at # "none" /\ Works(w, <<"error">>)
    BY <1>1 DEF ScriptFails
  <2>2. /\ w \in WorkerType /\ w.at = "failed" /\ w.rx = "none"
        /\ w.latency = worker.latency
    BY <1>0 DEF WorkerType, Failed, NoWorker
  <2>3. Sound(w, <<"error">>)
    <3> HIDE DEF w
    <3>1. QED
      BY <1>0, <1>1, <2>2 DEF ScriptFails, Sound, RxBegins, IsOver, Msg, Ending
  <2>4. QED
    BY <2>1, <2>3, WorkKeeps
<1>2. CASE WasmReady
  <2> DEFINE w == [worker EXCEPT !.at = "dialing"]
  <2>1. worker.at # "none" /\ Works(w, <<>>)
    BY <1>2 DEF WasmReady
  <2>2. Sound(w, <<>>)
    BY <1>0, <1>2 DEF WasmReady, Sound, WorkerType, RxBegins, IsOver, Msg, Ending
  <2>3. QED
    BY <2>1, <2>2, WorkKeeps
<1>3. CASE Dialed
  <2> DEFINE w == [worker EXCEPT !.at = "rtt", !.wt = "open", !.peer = "initiating"]
  <2>1. worker.at # "none" /\ Works(w, <<>>)
    BY <1>3 DEF Dialed
  <2>2. /\ w \in WorkerType /\ w.at = "rtt" /\ w.rx = worker.rx
        /\ w.latency = worker.latency
    BY <1>0 DEF WorkerType
  <2>3. Sound(w, <<>>)
    <3> HIDE DEF w
    <3>1. QED
      BY <1>0, <1>3, <2>2 DEF Dialed, Sound, RxBegins, IsOver, Msg, Ending
  <2>4. QED
    BY <2>1, <2>3, WorkKeeps
<1>4. CASE InitFails
  <2> DEFINE w == Failed
  <2>1. worker.at # "none" /\ Works(w, <<"wtClosed">>)
    BY <1>4 DEF InitFails
  <2>2. /\ w \in WorkerType /\ w.at = "failed" /\ w.rx = "none"
        /\ w.latency = worker.latency
    BY <1>0 DEF WorkerType, Failed, NoWorker
  <2>3. Sound(w, <<"wtClosed">>)
    <3> HIDE DEF w
    <3>1. QED
      BY <1>0, <1>4, <2>2 DEF InitFails, Sound, RxBegins, IsOver, Msg, Ending
  <2>4. QED
    BY <2>1, <2>3, WorkKeeps
<1>5. CASE EntersLoop
  <2> DEFINE w == [worker EXCEPT !.at = "loop", !.rx = "handshaking"]
  <2>1. worker.at # "none" /\ Works(w, <<"wtReady">>)
    BY <1>5 DEF EntersLoop
  <2>2. /\ w \in WorkerType /\ w.at = "loop" /\ w.rx = "handshaking"
        /\ w.latency = worker.latency
    BY <1>0 DEF WorkerType
  <2>3. Sound(w, <<"wtReady">>)
    <3> HIDE DEF w
    <3>1. QED
      BY <1>0, <1>5, <2>2 DEF EntersLoop, Sound, RxBegins, IsOver, Msg, Ending
  <2>4. QED
    BY <2>1, <2>3, WorkKeeps
<1>6. CASE TransportOver
  <2> DEFINE w == [worker EXCEPT !.at = "failed", !.rx = "closed"]
  <2>1. worker.at # "none" /\ Works(w, <<"wtClosed">>)
    BY <1>6 DEF TransportOver
  <2>2. /\ w \in WorkerType /\ w.at = "failed" /\ w.rx = "closed"
        /\ w.latency = worker.latency
    BY <1>0 DEF WorkerType
  <2>3. Sound(w, <<"wtClosed">>)
    <3> HIDE DEF w
    <3>1. QED
      BY <1>0, <1>6, <2>2 DEF TransportOver, Sound, RxBegins, IsOver, Msg, Ending
  <2>4. QED
    BY <2>1, <2>3, WorkKeeps
<1>7. CASE HandshakeDone
  <2>1. PICK answered \in {"initiating", "connected"} :
          Works([worker EXCEPT !.rx = "connected", !.peer = answered], <<"handshakeComplete">>)
    BY <1>7 DEF HandshakeDone
  <2> DEFINE w == [worker EXCEPT !.rx = "connected", !.peer = answered]
  <2>2. /\ w \in WorkerType /\ w.at = worker.at /\ w.rx = "connected"
        /\ w.latency = worker.latency
    BY <1>0 DEF WorkerType
  <2>3. worker.at # "none" /\ Sound(w, <<"handshakeComplete">>)
    <3> HIDE DEF w
    <3>1. QED
      BY <1>0, <1>7, <2>2 DEF HandshakeDone, InLoop, Sound, RxBegins, IsOver, Msg, Ending
  <2>4. QED
    BY <2>1, <2>3, WorkKeeps
<1>8. CASE AnswerAgain
  <2> DEFINE w == [worker EXCEPT !.peer = "connected"]
  <2>1. worker.at # "none" /\ Works(w, <<>>)
    BY <1>8 DEF AnswerAgain, InLoop
  <2>2. Sound(w, <<>>)
    BY <1>0, <1>8 DEF AnswerAgain, InLoop, Sound, WorkerType, RxBegins, IsOver, Msg, Ending
  <2>3. QED
    BY <2>1, <2>2, WorkKeeps
<1>9. CASE Rejects
  <2> DEFINE w == [worker EXCEPT !.rx = "closed"]
  <2>1. worker.at # "none" /\ Works(w, <<"close">>)
    BY <1>9 DEF Rejects, InLoop
  <2>2. Sound(w, <<"close">>)
    BY <1>0, <1>9 DEF Rejects, InLoop, Sound, WorkerType, RxBegins, IsOver, Msg, Ending
  <2>3. QED
    BY <2>1, <2>2, WorkKeeps
<1>10. CASE Releases
  <2> DEFINE w == worker
  <2>1. worker.at # "none" /\ Works(w, <<"video">>)
    BY <1>10 DEF Releases, InLoop
  <2>2. Sound(w, <<"video">>)
    BY <1>0, <1>10 DEF Releases, InLoop, Sound, WorkerType, RxBegins, IsOver, Msg, Ending
  <2>3. QED
    BY <2>1, <2>2, WorkKeeps
<1>11. CASE Closes
  <2> DEFINE w == [worker EXCEPT !.rx = "closed"]
  <2>1. worker.at # "none" /\ Works(w, <<"close">>)
    BY <1>11 DEF Closes, InLoop
  <2>2. Sound(w, <<"close">>)
    BY <1>0, <1>11 DEF Closes, InLoop, Sound, WorkerType, RxBegins, IsOver, Msg, Ending
  <2>3. QED
    BY <2>1, <2>2, WorkKeeps
<1>12. QED
  BY <1>1, <1>2, <1>3, <1>4, <1>5, <1>6, <1>7, <1>8, <1>9, <1>10, <1>11
     DEF WorkerNext, ReceiverNext

LEMMA NetKeeps == ASSUME IInv, NetNext PROVE IInv'
<1>0. worker \in WorkerType /\ RxBegins(worker)
  BY DEF IInv, TypeOK, WorkerType
<1>1. CASE UpDown
  BY <1>1
     DEF UpDown, pageVars, IInv, TypeOK, RxBegins, NoneHasNothing, MessagesOK, LatencyOK,
         OnlyDeadSessionsAreReplaced, HandleIsTruthful, SessionOver
<1>2. ASSUME worker.peer # "none" \/ worker.wt # "none", worker.at = "none" PROVE FALSE
  BY <1>2 DEF IInv, NoneHasNothing
<1>3. CASE PeerLeaves
  <2> DEFINE w == [worker EXCEPT !.peer = "gone"]
  <2>1. worker.at # "none" /\ Works(w, <<>>)
    BY <1>2, <1>3 DEF PeerLeaves
  <2>2. Sound(w, <<>>)
    BY <1>0, <2>1 DEF Sound, WorkerType, RxBegins, IsOver, Msg, Ending
  <2>3. QED
    BY <2>1, <2>2, WorkKeeps
<1>4. CASE TransportClosed
  <2> DEFINE w == [worker EXCEPT !.wt = "closed", !.peer = "gone"]
  <2>1. worker.at # "none" /\ Works(w, <<>>)
    BY <1>2, <1>4 DEF TransportClosed
  <2>2. /\ w \in WorkerType /\ w.at = worker.at /\ w.rx = worker.rx
        /\ w.latency = worker.latency
    BY <1>0 DEF WorkerType
  <2>3. Sound(w, <<>>)
    <3> HIDE DEF w
    <3>1. QED
      BY <1>0, <2>1, <2>2 DEF Sound, RxBegins, IsOver, Msg, Ending
  <2>4. QED
    BY <2>1, <2>3, WorkKeeps
<1>5. QED
  BY <1>1, <1>3, <1>4 DEF NetNext

(* IInv is an inductive invariant of the player (player/index.ts:163-264,   *)
(* viewer.ts:200-545, worker.ts:387-565).                                   *)
THEOREM Inductive == Spec => []IInv
<1>1. IInv /\ UNCHANGED vars => IInv'
  BY DEF vars, IInv, TypeOK, RxBegins, NoneHasNothing, MessagesOK, LatencyOK, OnlyDeadSessionsAreReplaced,
         HandleIsTruthful, SessionOver, NoneHasNothing
<1>2. IInv /\ [Next]_vars => IInv'
  BY <1>1, CallsKeep, PageKeeps, WorkersKeep, NetKeeps DEF Next
<1>3. QED
  BY <1>2, InitEstablishes, PTL DEF Spec

(* Every variable keeps its type (player/index.ts:163-264).                 *)
THEOREM TypeCorrect == Spec => []TypeOK
BY Inductive, PTL DEF IInv

(* While the timer of a reconnection runs, the session that it replaces is  *)
(* over, whatever the embedder and the network do meanwhile                 *)
(* (viewer.ts:208-219, 503-516).                                            *)
THEOREM NoLivingSessionIsReplaced == Spec => []OnlyDeadSessionsAreReplaced
BY Inductive, PTL DEF IInv

(* A worker has the latency that was set last, though it was started with   *)
(* what was set then and no message tells it of a change                    *)
(* (viewer.ts:365-367, 523-530).                                            *)
THEOREM LatencyIsTheOneSet == Spec => []RunsAtSetLatency
<1>1. IInv => RunsAtSetLatency
  BY DEF IInv, LatencyOK, RunsAtSetLatency
<1>2. QED
  BY <1>1, Inductive, PTL

(* The state and the promise of the handle are true of the worker and the   *)
(* timers under it (player/index.ts:163-249).                               *)
THEOREM HandleTellsTheTruth == Spec => []HandleIsTruthful
BY Inductive, PTL DEF IInv
=============================================================================
