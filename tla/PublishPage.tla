----------------------------- MODULE PublishPage -----------------------------
(***************************************************************************)
(* The page that publishes a captured screen or camera (web/src/stream.tsx,*)
(* shared/publish.ts) and its worker (stream-worker.ts).                   *)
(*                                                                         *)
(* A click on Publish is an asynchronous handler that sets up the audio    *)
(* graph, may wait for the user's permission, and creates a worker in the  *)
(* end.  Frames are pumped to the worker against credits.  The two talk by *)
(* messages; what is on its way when the worker is terminated is lost.     *)
(***************************************************************************)
EXTENDS Naturals, FiniteSets, Sequences, SequencesExt

CONSTANTS
  Credits,      \* the credits of FramePump.start, 4 in the code
  MaxBacklog,   \* bound: units counted in a muxer that is not polled
  MaxClicks,    \* bound: clicks on Publish
  MaxToggles    \* bound: times the tab is hidden or shown

ASSUME PageAssumption ==
  /\ {Credits, MaxBacklog, MaxClicks} \subseteq Nat \ {0} /\ MaxToggles \in Nat

VARIABLES
  page,      \* publishing, hidden, and whose worker it holds (0: null)
  click,     \* click[k]: the program counter of the k-th handler of Publish
  graph,     \* AudioGraphManager: which click's context, node, microphone (0: null)
  mics,      \* the microphones that are on
  pump,      \* FramePump: credits, pending frame callbacks, timer worker
  byVideo,   \* callbacks are asked for with requestVideoFrameCallback
  worker,    \* worker[k]: the worker that click k created
  inbox,     \* inbox[k]: its messages to the page
  hasty,     \* ghost: Stop was clicked while a handler of Publish was waiting
  toggles    \* bound: visibility changes so far

workVars == <<worker, inbox>>
audioVars == <<graph, mics>>
pageVars == <<page, click, audioVars, pump, byVideo, workVars, hasty, toggles>>

Click == 1..MaxClicks
Waiting == {"module", "mic", "resume"}
NoWorker ==
  [at |-> "none", encoder |-> FALSE, wt |-> FALSE, shook |-> FALSE, frames |-> 0, backlog |-> 0]
NoGraph == [ctx |-> 0, node |-> 0, mic |-> 0]

PageInit ==
  /\ page = [publishing |-> FALSE, hidden |-> FALSE, worker |-> 0]
  /\ click = [k \in Click |-> "idle"]
  /\ graph = NoGraph /\ mics = {}
  /\ pump = [credits |-> 0, chains |-> 0, bg |-> FALSE]
  /\ byVideo \in BOOLEAN
  /\ worker = [k \in Click |-> NoWorker]
  /\ inbox = [k \in Click |-> <<>>]
  /\ hasty = FALSE /\ toggles = 0

Goto(k, pc) == click' = [click EXCEPT ![k] = pc]

-----------------------------------------------------------------------------
(* The handler of Publish: without audio it runs through, with audio it     *)
(* waits for the module of the graph, for the microphone and for the        *)
(* context, and does not look at publishing again.                          *)
Begins(k, w) ==
  /\ ~page.publishing /\ click[k] = "idle" /\ \A j \in Click : j < k => click[j] # "idle"
  /\ page' = [page EXCEPT !.publishing = TRUE, !.worker = w]
  /\ UNCHANGED <<mics, pump, byVideo, inbox, hasty, toggles>>
NewWorker(k) == worker' = [worker EXCEPT ![k].at = "init"]

(* connect: nothing to do, or the audio of the tab, or a microphone.        *)
Connects(g) == IF g.ctx # 0 /\ g.node # 0 THEN {"mic", "resume"} ELSE {"resume"}

PublishWithoutAudio(k) ==
  Begins(k, k) /\ Goto(k, "done") /\ NewWorker(k) /\ UNCHANGED graph
PublishWithAudio(k) ==
  /\ Begins(k, page.worker) /\ UNCHANGED worker
  /\ \/ graph.ctx = 0 /\ graph' = [graph EXCEPT !.ctx = k] /\ Goto(k, "module")
     \/ graph.ctx # 0 /\ UNCHANGED graph /\ \E pc \in Connects(graph) : Goto(k, pc)

HandlerStep(k, from) ==
  click[k] = from /\ UNCHANGED <<page, pump, byVideo, workVars, hasty, toggles>>

(* setup: the node is made in the context that the manager has by now, which*)
(* needs the module; without, the handler throws.                           *)
Usable(k) == graph.ctx = k \/ (graph.ctx # 0 /\ graph.node = graph.ctx)
ModuleLoaded(k) ==
  /\ HandlerStep(k, "module") /\ Usable(k)
  /\ graph' = [graph EXCEPT !.node = graph.ctx] /\ UNCHANGED mics
  /\ \E pc \in Connects(graph') : Goto(k, pc)
ModuleFails(k) == HandlerStep(k, "module") /\ Goto(k, "thrown") /\ UNCHANGED audioVars

MicGranted(k) ==
  /\ HandlerStep(k, "mic") /\ Goto(k, "resume")
  /\ graph' = [graph EXCEPT !.mic = k] /\ mics' = mics \cup {k}
MicDenied(k) == HandlerStep(k, "mic") /\ Goto(k, "resume") /\ UNCHANGED audioVars

(* After resumeIfSuspended.                                                 *)
CreatesWorker(k) ==
  /\ click[k] = "resume" /\ Goto(k, "done")
  /\ page' = [page EXCEPT !.worker = k]
  /\ NewWorker(k)
  /\ UNCHANGED <<audioVars, pump, byVideo, inbox, hasty, toggles>>

-----------------------------------------------------------------------------
(* FramePump.  A callback that requestVideoFrameCallback promised cannot be *)
(* taken back by cancelAnimationFrame.                                      *)
Cancelled(p) == [p EXCEPT !.chains = IF byVideo THEN @ ELSE 0]
StopPump(p) == [Cancelled(p) EXCEPT !.bg = FALSE]
IsPublishing(pg) == pg.publishing /\ pg.worker # 0

Schedule(p, pg) ==
  IF ~IsPublishing(pg) THEN p
  ELSE IF pg.hidden THEN [Cancelled(p) EXCEPT !.bg = TRUE]
  ELSE [StopPump(p) EXCEPT !.chains = @ + 1]

(* pumpFrame: a frame for a credit, when the preview has one, and again.    *)
PumpFrame(p, ready) ==
  IF IsPublishing(page) /\ p.credits > 0 /\ ready
  THEN /\ pump' = Schedule([p EXCEPT !.credits = @ - 1], page)
       /\ worker' = [worker EXCEPT ![page.worker].frames = @ + 1]
  ELSE pump' = Schedule(p, page) /\ UNCHANGED worker

FrameCallback(ready) ==
  /\ ~page.hidden /\ pump.chains > 0
  /\ PumpFrame([pump EXCEPT !.chains = @ - 1], ready)
  /\ UNCHANGED <<page, click, audioVars, byVideo, inbox, hasty, toggles>>
Tick(ready) ==
  /\ pump.bg
  /\ PumpFrame(pump, ready)
  /\ UNCHANGED <<page, click, audioVars, byVideo, inbox, hasty, toggles>>

VisibilityChange ==
  /\ toggles < MaxToggles
  /\ toggles' = toggles + 1
  /\ page' = [page EXCEPT !.hidden = ~@]
  /\ pump' = IF page.publishing THEN Schedule(pump, page') ELSE pump
  /\ UNCHANGED <<click, audioVars, byVideo, workVars, hasty>>

-----------------------------------------------------------------------------
(* stopAll, by the button or by the end of the capture.                     *)
(* Mutant: the graph is closed, the microphone stays on.                    *)
ClosedGraphOnly == graph' = NoGraph /\ UNCHANGED mics
ClosedGraph == graph' = NoGraph /\ mics' = mics \ {graph.mic}

(* Mutant: the credits outlive the worker that they were for.               *)
StoppedPumpKeepsCredits == StopPump(pump)
StoppedPump == [StopPump(pump) EXCEPT !.credits = 0]

StopAll ==
  /\ page.publishing
  /\ page' = [page EXCEPT !.publishing = FALSE, !.worker = 0]
  /\ pump' = StoppedPump
  /\ worker' = [k \in Click |-> IF k = page.worker THEN [NoWorker EXCEPT !.at = "terminated"]
                                ELSE worker[k]]
  /\ inbox' = [k \in Click |-> IF k = page.worker THEN <<>> ELSE inbox[k]]
  /\ ClosedGraph
  /\ hasty' = (hasty \/ \E k \in Click : click[k] \in Waiting)
  /\ UNCHANGED <<click, byVideo, toggles>>

(* handleWorkerMsg.                                                         *)
Receives(k, msg) ==
  /\ inbox[k] # <<>> /\ Head(inbox[k]) = msg
  /\ inbox' = [inbox EXCEPT ![k] = Tail(@)]
  /\ UNCHANGED <<page, click, audioVars, byVideo, hasty, toggles>>
Credit(k) ==
  Receives(k, "credit") /\ pump' = [pump EXCEPT !.credits = @ + 1] /\ UNCHANGED worker
HandshakeComplete(k) ==
  Receives(k, "handshakeComplete") /\ PumpFrame([pump EXCEPT !.credits = Credits], TRUE)
SessionOver(k) ==
  (Receives(k, "close") \/ Receives(k, "wtClosed")) /\ pump' = StopPump(pump) /\ UNCHANGED worker

-----------------------------------------------------------------------------
(* The worker.                                                              *)
Works(k, w, msgs) ==
  /\ worker' = [worker EXCEPT ![k] = w]
  /\ inbox' = [inbox EXCEPT ![k] = @ \o msgs]
  /\ UNCHANGED <<page, click, audioVars, pump, byVideo, hasty, toggles>>

(* doInit: muxer and encoders, then the transport; a failure is a doStop.   *)
EncoderReady(k) ==
  worker[k].at = "init" /\ Works(k, [worker[k] EXCEPT !.at = "dialing", !.encoder = TRUE], <<>>)
Dialed(k) ==
  worker[k].at = "dialing" /\ Works(k, [worker[k] EXCEPT !.at = "up", !.wt = TRUE], <<>>)
InitFails(k) ==
  /\ worker[k].at \in {"init", "dialing"}
  /\ Works(k, [NoWorker EXCEPT !.at = "failed"], <<"wtClosed">>)

HandshakeDone(k) ==
  /\ worker[k].at = "up" /\ worker[k].wt
  /\ Works(k, [worker[k] EXCEPT !.at = "live", !.shook = TRUE, !.backlog = 0],
           <<"handshakeComplete">>)

(* SRT or the transport closes.  Encoders and muxer stay.                   *)
SrtCloses(k) ==
  worker[k].at \in {"up", "live"} /\ Works(k, [worker[k] EXCEPT !.at = "closed"], <<"close">>)
WtCloses(k) == worker[k].wt /\ Works(k, [worker[k] EXCEPT !.wt = FALSE], <<"wtClosed">>)

(* handleFrame gives the credit back, whatever becomes of the frame; what   *)
(* is encoded goes through the muxer, and out when there is a session.      *)
Running(k) == worker[k].at \notin {"none", "terminated"}
Encoded(w) ==
  [w EXCEPT !.frames = @ - 1,
            !.backlog = IF w.at = "live" THEN 0 ELSE IF @ < MaxBacklog THEN @ + 1 ELSE @]
Dropped(w) == [w EXCEPT !.frames = @ - 1]
HasFrame(k) == Running(k) /\ worker[k].frames > 0

(* Mutant: a frame dropped at a full queue gives no credit back.            *)
HandleFrameSilently(k) ==
  /\ HasFrame(k)
  /\ \/ worker[k].encoder /\ Works(k, Encoded(worker[k]), <<"credit">>)
     \/ Works(k, Dropped(worker[k]), <<>>)
HandleFrame(k) ==
  /\ HasFrame(k)
  /\ \/ worker[k].encoder /\ Works(k, Encoded(worker[k]), <<"credit">>)
     \/ Works(k, Dropped(worker[k]), <<"credit">>)

-----------------------------------------------------------------------------
HandlerNext(k) ==
  \/ PublishWithoutAudio(k) \/ PublishWithAudio(k)
  \/ ModuleLoaded(k) \/ ModuleFails(k) \/ MicGranted(k) \/ MicDenied(k) \/ CreatesWorker(k)
MessageNext(k) == Credit(k) \/ HandshakeComplete(k) \/ SessionOver(k)
WorkerNext(k) ==
  EncoderReady(k) \/ Dialed(k) \/ InitFails(k) \/ HandshakeDone(k)
  \/ SrtCloses(k) \/ WtCloses(k) \/ HandleFrame(k)

PageNext ==
  \/ StopAll \/ VisibilityChange
  \/ \E ready \in BOOLEAN : FrameCallback(ready) \/ Tick(ready)
  \/ \E k \in Click : HandlerNext(k) \/ MessageNext(k) \/ WorkerNext(k)

(* Both event loops run; the preview of a tab that is shown has frames, and *)
(* so it has for the timer of a hidden one.                                 *)
PageFairness ==
  /\ WF_pageVars(FrameCallback(TRUE)) /\ WF_pageVars(Tick(TRUE))
  /\ \A k \in Click : WF_pageVars(MessageNext(k)) /\ WF_pageVars(HandleFrame(k))

PageSpec == PageInit /\ [][PageNext]_pageVars /\ PageFairness

-----------------------------------------------------------------------------
PageTypeOK ==
  /\ page \in [publishing : BOOLEAN, hidden : BOOLEAN, worker : {0} \cup Click]
  /\ click \in [Click -> Waiting \cup {"idle", "thrown", "done"}]
  /\ graph \in [ctx : {0} \cup Click, node : {0} \cup Click, mic : {0} \cup Click]
  /\ mics \subseteq Click
  /\ pump \in [credits : Nat, chains : Nat, bg : BOOLEAN]
  /\ worker \in [Click ->
       [at : {"none", "init", "dialing", "up", "live", "closed", "failed", "terminated"},
        encoder : BOOLEAN, wt : BOOLEAN, shook : BOOLEAN, frames : Nat, backlog : 0..MaxBacklog]]

(* Every credit is at the pump, on a frame in its way to the worker, or on  *)
(* its way back, from the end of the handshake on, and there are none       *)
(* before it: the worker never has more than that many frames, whatever the *)
(* visibility of the tab, dropped frames and earlier sessions did           *)
(* (publish.ts:214-225, 259-272, stream-worker.ts:310-342).                 *)
Started(k) == worker[k].shook /\ ~Contains(inbox[k], "handshakeComplete")
OnTheWay(k) == Cardinality({i \in DOMAIN inbox[k] : inbox[k][i] = "credit"})
CreditsAreConserved ==
  page.worker # 0 /\ ~hasty =>
    pump.credits + worker[page.worker].frames + OnTheWay(page.worker)
      = IF Started(page.worker) THEN Credits ELSE 0

(* As long as the session is live, frames keep coming to the worker: the    *)
(* pump survives every change between frame callbacks and the timer of the  *)
(* hidden tab, and runs out of credits only for a moment                    *)
(* (publish.ts:239-260).                                                    *)
FramesFlow ==
  \A k \in Click :
    <>[](page.publishing /\ page.worker = k /\ worker[k].at = "live" /\ worker[k].wt /\ ~hasty)
      => []<><<HandleFrame(k)>>_pageVars

(* Stop ends it: no worker is left with its session, no microphone is on,   *)
(* and while a stream is published its worker is the only one.  Unless Stop *)
(* was clicked while the handler of Publish waited for something            *)
(* (stream.tsx:413-429, publish.ts:171-212).                                *)
StopEndsAll ==
  ~hasty =>
    /\ ~page.publishing => mics = {}
    /\ \A k \in Click : Running(k) => page.publishing /\ page.worker = k

(* Stop ends it, whenever it was clicked.                                   *)
StopIsFinal == ~page.publishing => mics = {} /\ \A k \in Click : ~Running(k)

(* When the session is over and the page knows it, the pump rests: nothing   *)
(* piles up in a muxer that is not polled any more (stream.tsx:460-470,     *)
(* publish.ts:227-257).                                                     *)
StoppedPumpRests ==
  page.worker # 0 /\ worker[page.worker].at = "closed" /\ inbox[page.worker] = <<>>
    => pump.chains = 0 /\ ~pump.bg
=============================================================================
