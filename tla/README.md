# WebSRT in TLA+

WebSRT carries live MPEG-TS streams over SRT between encoders and browsers: a
Rust gateway terminates WebTransport sessions and fans streams out to them, and
WebAssembly modules in the browser speak SRT, demultiplex and multiplex TS. This
directory is the verification development for it: TLA+ modules translated from
the source, TLC configurations that check them on small instances, and TLAPS
proofs for all values of the constants. `PROJECT.json` maps every definition to
the lines it models and lists runs, mutants, hazards, findings and theorems.

Paths below are relative to `src/`; `websrt/x.rs` is `crates/websrt/src/x.rs`.

## 1. The system

| component | source | state | operations |
|---|---|---|---|
| connection limits | `websrt/limits.rs` | per-IP map and global counter, guards | `try_acquire`, `SessionGuard::drop` |
| stream registry | `websrt/stream_registry.rs` | map name → broadcaster | `publish*`, `try_publish*`, `subscribe`, `cleanup`, `shutdown_all` |
| broadcaster | `websrt/broadcaster.rs` | `alive`, sender, ring, shutdown Notify, task | `spawn`, `subscribe`, `try_recv`, `drop_backlog`, `shutdown`, `join` |
| browser session | `websrt/session.rs` | `SessionEntry`, recv_pump task | `create`, `recv_pump`, `route_release_data` |
| session registry, ticker | `websrt/registry.rs` | map id → entry, drain credits | `insert`, `remove`, `tick_all`, `tick_one` |
| SRT initiator | `websrt/srt_sender.rs` | handshake or connection | `tick`, `handle_datagram`, `push_message` |
| gateway | `websrt/gateway.rs` | `SessionTasks`, task handles | `run`, `handle_session`, `register_session_or_drain`, `run_ticker` |
| admission hooks | `websrt/hooks.rs` | none | `decide` |
| ingesters | `websrt/ingest/*.rs` | a socket, a file, a channel, counters of a continuity check | `next_message`, `serve`, `scan` |
| application | `websrt-gateway/src` | run task, GUI `RunState` and configuration file, web server, health page | start, stop, poll, Ctrl-C |
| SRT receiver | `srt-wasm/src/lib.rs` | handshake or connection, release queue | `handle_datagram`, `send_message`, `poll` |
| TS mux and demux | `ts-muxer`, `mpeg2ts-wasm` | continuity counters, partial PSI and PES | `push_*`, `feed`, `poll` |
| player | `web/src/shared/viewer.ts`, `worker.ts` | connection state, timers, generation | connect, disconnect, reconnect, `doInit`, `doStop` |
| publisher | `web/src/stream.tsx`, `shared/publish.ts`, `stream-worker.ts` | audio graph, frame credits, timers | publish, `stopAll`, `start`, `credit`, `stop` |
| rendering, debug pages | `web/src/decode.ts`, `render.ts`, `debug/` | queues, charts | |

How they interact:

- `Gateway::run` spawns one **handler** task for each connection. The handler
  asks the hooks, takes a slot of the connection limits, looks the stream up,
  completes the WebTransport handshake, claims or subscribes the stream in the
  stream registry, creates the session (which spawns its **pump** task), puts it
  into the session registry and registers it for the drain at shutdown.
- One **ticker** task drives the SRT state machine of every session in the
  registry every 2 ms, feeds viewers from their ring, and prunes what has
  finished. Ticker and pump share the initiator mutex, the flag `finished` and a
  `Notify`, whose `notify_one` stores a permit and whose `notify_waiters` does not.
- One **broadcaster** task for each stream reads its ingester into the ring. A
  browser that publishes is such an ingester: the pump and the ticker put what
  SRT releases into a bounded channel.
- What a session holds (slot, publish channel, receiver) is released when the
  last `Arc` of its entry is dropped: by the handler, the registry, the running
  tick or the pump, whichever is last.
- The **application** spawns the run task and the services beside it; all of them,
  and the SRT listener, hear of a stop by one `Notify`, whose `notify_waiters` only
  those hear that wait at that moment.
- In the browser a **page** and its **worker** exchange messages; the worker has the
  transport, the SRT receiver and the (de)muxer. The player element sits on top of the
  viewer, which reconnects with timers; the publish page pumps frames against credits.
- **TS packets** go from a muxer over a lossy uplink to the gateway, where the continuity
  check counts gaps and nothing else looks at them, and over a lossy downlink to a demuxer.

What is hard here: two tasks in one state machine; wake-ups that are not stored;
checks repeated after an await because the first is stale; lists that the accept
loop prunes while the shutdown drains them; tasks aborted at any await;
resources released by whoever is last; a ring overrun by its writer; timers that
outlive what they were set for; parsers that go on after a loss. The list
with lines is `hazards` in `PROJECT.json`; each names the properties that would
catch it or says why none does.

## 2. Modules

| module | what it models |
|---|---|
| `SlotPool` | what the connection limits promise: a slot is granted or refused in one step |
| `ConnectionTracker` | `try_acquire` and `release` access by access, `limit_key`; implements `SlotPool` |
| `StreamClaims` | what the stream names promise: an owner keeps its name until it ends, except against a trusted publisher |
| `StreamRegistry` | the registry under its lock, broadcaster tasks, viewers subscribing; implements `StreamClaims` |
| `Session` | a session: the pump, the ticker, the Notify, the publish channel, abort |
| `Gateway` | accept loop, handlers, ticker, shutdown; its names implement `StreamClaims` too |
| `ViewerFeed` | ring, cursor, lag, priming and drain credits of viewers |
| `TsMuxer` | the muxer as functions of its state: push, suppression, tables, `packetize` |
| `TsDemuxer` | the demuxer as functions: continuity, random access, PES and section assembly |
| `TsPath` | muxer, lossy uplink, continuity check, lossy downlink, demuxer |
| `TsCodecs` | NAL scan and statistics, Exp-Golomb codes, 302M coding |
| `Ingest` | SRT publishers against the listener, the SRT ingesters in their three modes and the broadcaster that reads them; the file ingester; the health page |
| `GatewayApp` | GUI or headless main, run task, web server, SRT listener, configuration file, restarts |
| `Player` | the player element, `createViewer`, its worker and SRT receiver, the network |
| `PublishPage` | the publish page: audio graph, frame pump, worker |
| `*_proofs` | TLAPS proofs about the module of that name; `Programs_proofs` is about `Ingest`, `GatewayApp` and `PublishPage`, whose specifications therefore have names of their own (`Spec`, `AppSpec`, `PageSpec`) |
| `MC_*` | the instance TLC checks |

State and actions correspond to the code as follows.

- **A critical section without an await is one action**, since nothing else can
  be seen inside it. Everything between two awaits, locks or accesses of an
  atomic is an action of its own, so that all interleavings the scheduler can
  produce appear. `ConnectionTracker` splits at the atomic counter because
  `release` and `total` touch it without the mutex.
- **Program counters** (`pump`, `tick`, `handler`, `run`, `task`, `caller`) are the
  positions of the tasks. `Gateway!Awaiting` are the positions of a handler where
  an abort can take effect.
- **Lifetimes are state functions.** `Gateway!HoldsSlot` and `Session!Freed` say
  when the last owner of an entry is gone; there is no separate "release" action
  that the model could forget or repeat.
- **`Notify`** is `permit` (a stored `notify_one`) and `woken` (a `notify_waiters`
  that found the pump in its select). The biased select is two polls, with the
  other tasks in between.
- **Messages** are counted (`Session`) or are a distance to the live edge
  (`ViewerFeed`); their bytes decide nothing. TS is never inspected in the gateway.
- **srt-protocol** is external. `Session!SrtSteps` says what an input can do to a
  connection: complete or refuse a handshake, go on, end, and, having ended,
  return `Close` again on any later call.
- **Packets** of TS are records: PID, continuity counter, the unit and the part of it that
  they carry, flags, and the table they belong to. Lengths are real lengths with a small
  packet, so that stuffing, adaptation fields and sections over several packets occur.
- **JavaScript** runs to completion: a handler up to its next `await` is one action. What
  awaits nothing but settled promises does not stop. Messages between a page and a worker
  are a queue that is dropped when the worker is terminated.
- **Time** is nondeterminism: a timeout may fire whenever its wait has begun. In
  `ViewerFeed` a settled source sends `Rate` messages a tick, so that the credit
  arithmetic means something; credits are counted in `1/Unit` of a message instead of floats.

`ViewerFeed` counts the credits of a tick as if it took 2 ms; a longer tick earns and
receives proportionally more. In `GatewayApp` a save is part of the start it precedes (`start` awaits nothing there), and what is
left in the file is one of three outcomes: the new configuration, what was there before, or a torn file that does not parse, which is
also what a crash inside the write leaves. The run goes on with its configuration in each case; the ghost `kept` remembers the form of
the last run whose save was not refused. In `Ingest` a file is its packets' PIDs and counters, and the check
(`CcChecker`, external) a counter for each PID, whose gaps the health page shows added up. `ConnectionTracker` has hosts and prefixes for
addresses, `ZeroHost` standing for the masked low 64 bits of IPv6.

## 3. Runs

| run | instance | what it shows |
|---|---|---|
| `connection_tracker` | 4 tasks, two IPv4 addresses and a /64 of two hosts, caps 2 and 3 | counters equal the guards alive whenever the mutex is free; implements `SlotPool` (never above a cap, never refused below one) |
| `session` | 1 session that publishes and views, channel of 1, 3 messages | no upstream message vanishes; a dead session is freed; a stop is heard |
| `session_lost_wakeup` (violation) | 1 viewer session | a session whose stream has ended can stay connected |
| `stream_registry` | 1 name, 2 clients, 1 embedder with an endless source, 2 viewers for 1 place | only an embedder orphans a broadcaster; first-wins as refinement; viewers learn of the end; `shutdown_all` stops what is registered |
| `gateway` | 2 connections, 1 name, 1 source | no session slips through a shutdown; first-wins across the handshake; dead sessions, slots and names are released; `run` returns |
| `viewer_feed` | 1 viewer, ring of 6, 3 messages a tick, credits in halves | a viewer starts at the live edge; is let go when the stream ends; works off a backlog that is in the ring, though the EWMA is wrong |
| `ts_path` | muxers with AV1 or no video, Opus and two 302M streams, 4 pushes, 2 losses | a loss damages the unit it hits and no other, but for the finding below; key frames keep their flag; no packet on an unannounced PID; a table that arrives whole twice is in use, if it fits one packet or if what a demuxer may be waiting for ends with it; gaps are the uplink's |
| `ts_codecs` | all payloads of up to 12 bytes out of 3; frames of 5 samples, every depth and one that is none, 2, 8 or (refused) 1 channels | the scan finds the NAL units, the 302M coding loses no bit |
| `gateway_app` | 3 runs, 3 launches, the SRT listener beside the run task, 2 forms, with and without a secret, saves that succeed, are refused or are torn | one run at a time; the end of a run is seen; a restart runs with what was last saved with a run, and with the command line after a torn save |
| `ingest` | 2 publishers with 3 connections for 1 name, in listener, caller and multi-publisher mode; 1424 files of 2 PIDs | no socket is dropped unread; a publisher that comes back is heard; a name is freed; each PID of the file has a gap only where it loops, and none where its counters line up there |
| `player` | 2 latencies, 5 calls, with and without autoReconnect and certificate hash | only dead sessions are replaced; the session has the set latency; the handle tells the truth; the session comes back |
| `publish_page` | 3 clicks on Publish, 2 credits, 3 changes of visibility | credits are conserved over sessions; a stop leaves nothing behind; frames flow as long as the session is live |

Why these bounds suffice for what they ask. The tracker needs four tasks so that
each cap is reached while a reservation is being undone, and an address with two
hosts to tell masking from none. Sessions are independent but for the batch the
ticker prunes, and one session with both roles meets every event either role can.
The registry needs two clients to race and one embedder to replace; each broadcaster
is spawned once, which bounds the run. The gateway needs two connections to race
for one name, and to have one being drained while another is being created; a third
makes no new pair. The ring must be deeper than a tick may drain, so that a lag,
a partial drain and a full one all occur; viewers of one ring do not influence each
other.

A stream needs a unit before a loss, one that is hit and one after it, and a fourth to
flush that one; two losses meet on the two links, in one unit, in two, or in a unit and a table.
Packets have 188 bytes; a unit of 346 fills two of them exactly when it has a PCR, and
leaves room for stuffing when it has none; with 13 or 14 more 302M streams the table just
fits one packet, or does so only while a stream is suppressed. Continuity counters go
round after 4 (`CcModulus`), so that they do so within a run, and a loss of two packets is
still a gap. For the scan 12 bytes are three units of
one byte behind start codes of three bytes, or two behind codes of four with zeros left over, so that
units end at a code of either length as well as at the end. Bytes other than 0 and 1 are alike to it. The
application runs three times so that a run meets its predecessor's services and file, and that an edit can be run with
a refused save before the window is opened again; three launches put a run without a window between
two with one. The web server, which no property of the run distinguishes from the SRT listener, is left out
there. `ingest` has one
publisher that may call twice and a rival that may leave out the name. Its files are all those of 2 to 5
packets of two PIDs, with packets that take no part in the check and resets, and those of 6 packets of
the PIDs alone; they end on a message of 2 or inside one, and on a multiple of the counter, which goes round after 3, or not.
In `player` every
connection makes a new worker, and five calls reach connect, a change, a disconnect and
both again. The page needs two clicks for a session and its successor; it has three.

Bounds in guards: `MaxReleases`, `MaxPushes`, `MaxLost`, `MaxBytes`, `MaxSamples`, `MaxRuns`,
`MaxLaunches`, `MaxLoops`, `MaxCalls`, `MaxClicks`, `MaxToggles`, `MaxBacklog`; everything else is bounded by its domain.
`CHECK_DEADLOCK FALSE` is set where the system comes to
rest: sessions are over, the gateway has returned, every broadcaster is spent, the user has
left. `publish_page` has a `CONSTRAINT`: it does not explore what follows a Stop during a waiting
handler of Publish, which is a finding; every property of the run excludes those states.

**Fairness.** Weak fairness of tasks that can go on (pump, ticker, handlers,
broadcasters, the run function): tokio polls every task that was woken, and a
bounded wait ends. Strong fairness only in `StreamRegistry`, for the calls that compete
for the map's mutex: critical sections are short and callers keep coming, and
parking_lot's mutex is eventually fair. `Gateway` assumes of the sessions and
broadcasters what `Session` (`StopIsHeard`) and `StreamRegistry`
(`ShutdownStopsRegistered`) show, and that `cleanup` runs, which is the ticker's. Peers, sources, users, and
the arrival of connections have no fairness: they may stop at any moment. In `GatewayApp`,
`Ingest`, `Player` and `PublishPage` the event loops, timers and spawned tasks are fair, users, networks
and remote ends are not; the liveness properties say what must hold once those stay put
(a publisher that keeps calling, a network that stays up, a preview that has frames).
`TsPath` and `TsCodecs` have safety properties only.

**Mutants.** Every property of a passing run has a mutant, a definition with the
change a plausible bug would make (no lock, an off-by-one, a missing reset, `notify_waiters`
for `notify_one`, no guard on abort), under which TLC finds it violated.

## 4. Findings

One run keeps a violation in the set. The others are kept as configurations
or properties beside the runs; `tlc -config <file> <module>` shows the counterexample.

1. **A finished viewer session can keep its connection** (`websrt/registry.rs:386`,
   run `session_lost_wakeup`). The ticker ends a session with `notify_waiters`. A
   pump that is handling a datagram then, for instance waiting for the initiator mutex
   the ticker itself holds, does not hear it. The entry leaves the registry, nothing
   wakes the pump again, and connection, slot and claim last until the peer goes.
2. **A viewer that lags can starve** (`websrt/registry.rs:372`, `ViewerFeed_starved.cfg`). After
   `Lagged` the ring is full for this viewer, and `tick_one` stops draining. With one
   message or more in each tick the next `try_recv` says `Lagged` again, for ever.
3. **`shutdown_all` misses replaced broadcasters** (`websrt/stream_registry.rs:203`,
   `StreamRegistry_shutdown.cfg`): what an embedder published over is out of the map, still running.
4. **A pump can outlive `run`** (`websrt/gateway.rs:314`, `Gateway_pump_outlives_run.cfg`): `run` aborts
   a handler in the bounded wait for its late session. The session has been told to stop.
5. **`total()` can exceed the cap** (`websrt/limits.rs:226`, `ConnectionTracker_total.cfg`), for a reader without the mutex.
6. **`send_failures` counts next to nothing** (`websrt/broadcaster.rs:133`), read in the source.
7. **A change of the latency undoes a disconnect** (`viewer.ts:528`, `Player_disconnect.cfg`): it reconnects
   by a timer that nobody clears, also after `destroy`.
8. **`connect()` can hang for ever without autoReconnect** (`player/index.ts:239`), read in the source.
9. **A lost first packet shifts the audio that follows** (`mpeg2ts-wasm/lib.rs:908`,
   `TsPath_headless.cfg`): continuations without a header are kept and put before the next unit.
10. **No counter is reset on resume** (`ts-muxer/lib.rs:308`), against a comment; the code is right.
11. **A Stop right after the start is lost** (`websrt-gateway/main.rs:621`, `GatewayApp!StopStops`), in
   the GUI for good; a Ctrl-C likewise, and the next one does nothing.
12. **A failed setup leaves its services running** (`gui.rs:284`, `GatewayApp!ServicesEnd`).
13. **A saved form replaces the command line** (`gui.rs:242`, `GatewayApp!CommandLineCounts`), the auth
   token included.
14. **A refused publisher takes over the health counters** (`main.rs:562`, `Ingest!HealthShowsTheLive`).
15. **The first dial of the caller mode is not repeated** (`main.rs:608`), read in the source.
16. **A file of fewer than six packets panics the ingester; the tail of any other is never sent**
   (`ingest/file.rs:116`).
17. **A Stop while Publish waits for the microphone is not final** (`stream.tsx:364`,
   `PublishPage!StopIsFinal`): the microphone and a worker stay on.
18. **The frame pump goes on after its stop** (`publish.ts:239`, `PublishPage!StoppedPumpRests`), into a
   muxer that nobody empties.
19. **A table of several packets may never come back** (`mpeg2ts-wasm/lib.rs:553`, `TsPath_tables.cfg`).
   A demuxer that misses the first packet of a table takes the second for a start, and a length out
   of its bytes. With 17 to 32 302M streams and no video that length ends inside the first packet of
   the next table, which is dropped, and the second packet starts the same again.

For 11 to 14, 17 and 18 put the property named into a copy of the run's configuration (12 with
`Service = {"web"}`, 17 and 18 without its `CONSTRAINT`).

Not a finding, but worth knowing: the pump and the ticker route what they took out
of the state machine after releasing its mutex (`websrt/session.rs:214`, `registry.rs:403`), so
two published messages can swap. Nothing in the repository promises an order there.

## 5. Proofs

| module | theorems | strengthening |
|---|---|---|
| `ConnectionTracker_proofs` | `TypeCorrect`, `AccountingHolds`, `CapsAreHeld`, `RefusalsAreJustified`, `ImplementsPool` | the mutex has one holder; the counters equal the tasks at the program points that count; what a task checked is still true while it holds the mutex |
| `StreamRegistry_proofs` | `TypeCorrect`, `OnlyTheTrustedOrphan`, `ViewersAreCapped`, `ViewersGetTheNewStream`, `ImplementsClaims` | what is in the map was published under that name; whoever spawned or found a broadcaster under the lock still holds the lock |
| `Session_proofs` | `TypeCorrect`, `MessagesAreConserved`, `OnlyFinishedSessionsLeave` | a task has messages in hand only between taking and routing them; a session is in the batch only with a tick, and judged dead only when finished |
| `Gateway_proofs` | `TypeCorrect`, `NoSessionIsForgotten`, `ShutdownCatchesAll`, `ImplementsClaims` | what `run` has left behind at each of its steps; a handler at work is on one of two lists; a session on a list has a handler that is done, a late one has its permit |
| `ViewerFeed_proofs` | `CreditsInBounds`, `ViewersStartLive` | the credits cover what a tick drained and may still drain; stale messages are unread ones, and none is left once a viewer is primed |
| `TsPath_proofs` | `TypeCorrect`, `AnnouncedAlways`, `NoGapIsInvented`, `GapsAreTheUplinks`, `FlagsAreRight`, `TablesReturn`, `OneLossIsRepaired`, `AudioIsExact`, `VideoIsContained` | see below |
| `Player_proofs` | `TypeCorrect`, `NoLivingSessionIsReplaced`, `LatencyIsTheOneSet`, `HandleTellsTheTruth` | a message on its way comes from a worker that is there, and says that its session is over only when it is; a worker has the latency the page applied |
| `Programs_proofs` (`Ingest`) | `TypeCorrect`, `SocketsAreHeld`, `NoGapInsideTheFile` | a waiting socket is in the queue once; whoever holds a name is its ingester; for each PID, the check of a message begins with the counter of the last packet before it, of this pass or, before the first, of the pass before, and a PID has a gap from this pass only once its first packet is out |
| `Programs_proofs` (`GatewayApp`) | `AppTypeCorrect`, `RunsDoNotOverlap`, `FileIsTheLastStart` | there is one live run at most, and a window has the channel of it; a report of an end is sent when the run is over; the file is whole just when the last save that was not refused was, and then has its form |
| `Programs_proofs` (`PublishPage`) | `PageTypeCorrect`, `NoCreditIsLost`, `StopLeavesNothing` | as long as nobody stopped a Publish that waits: a handler that waits has nothing yet, a worker that lives is the page's or has been told to stop, credits are with the pump, in a message, or with a frame |

All are proved for any finite sets and any caps, from the named assumptions of the
modules (`*Assumption`): caps are positive, sets of tasks and viewers finite, special values
are no members. Each proof has the same shape: `Init => IInv`, a lemma for each group
of actions that `IInv` is preserved, the temporal step by PTL, and the property as a
consequence. The type invariants of these modules, `CapsHold`, `RefusedOnlyAtCap`, `OnlyFinishedLeave`, `ViewerCapHolds`,
`NewViewersGetTheNewStream` and `SessionsAreOnAList` are proved and therefore not in the runs. The properties alone are not inductive: that a viewer attaches below the cap
to the current stream, for example, needs that nobody can publish between its two
steps, which is the lock invariant. The refinements are proved step by step, under the
invariant: each step of the detailed module is a step of the abstract one or a stutter.

The proofs about `TsPath` hold for any muxers, sizes of packets and tables, and numbers of pushes and
losses. They begin with what one push writes, a lemma for each function of `TsMuxer`: tables that are
whole and stand behind a PAT, then the packets of one PES in order, all of them counting on. Five
invariants follow; the last four use the first, and `DeliveryInv` also uses `FlagInv`.

- `LinkInv`, of muxer, wire and check: on each PID the packets on the wire count from some counter up to
  the muxer's, and the check is as many behind that counter as packets were lost since it last saw one.
  `GapsAreTheUplinks` assumes `MaxLost < CcModulus`, which the code cannot guarantee: a whole round of
  lost packets is invisible to a counter. `NoGapIsInvented` is the half that needs no such assumption.
- `FlagInv`, of the demuxer while no table is lost: a table that has begun continues with the next packet,
  so that a PID is known before its first key frame, and the flag is taken by the unit it came with.
- `CalmInv`, of the demuxer whatever is lost: before part *i* of a table a section that is no start of this
  table is longer than *i - 1* packets, since every section was started at the latest with the packet
  before. It is therefore complete, and dropped, with the last part, if its length is at most that of
  the table and one packet more. The condition of `TablesComeBack` says so, and finding 19 is a stream without it.
- `TypedInv`, of the tables that fit one packet: a stream that is announced and whose PID the demuxer knows is
  in the table it uses, or a table that lists it is still on the wire, ahead of the PES, and a second one as long
  as none was lost. `OneLossIsRepaired` assumes `ResendCount > 0` (the code has 10): a change that is not repeated is one loss away
  from a unit of unknown codec.
- `DeliveryInv`, of the bytes, has four parts. `UnitPart`: what is on the wire behind the tables is the rest of
  one PES, the last pushed on its PID, each packet beginning at the byte where the one before it ended, so that
  what is lost is lost for good. `GoodPart`: a partial PES with a header belongs to a unit whose first packet came, and
  no first packet of a later one; as long as that unit is not spoiled, its buffer has the bytes of the unit from 0 to where
  the next packet begins, and nothing else. If a packet of an audio unit was lost, what can still come is too
  little to reach the declared length, so that its own packets cannot flush it. `ExactPart`: what was delivered is exact or spoiled. `TunedPart`: a
  unit that began when its PID was known is delivered or is the partial PES. *Spoiled* means that a packet of
  the unit was lost, or for audio that an earlier unit of the PID arrived without its head, for video that the next one lost its
  first packet. `AudioIsExact` has no hypothesis. `VideoIsContained` assumes `0 \notin Lens`: the PES of an empty
  video frame leaves nothing in the buffer, and `PesStart` flushes only a buffer that has bytes
  (`mpeg2ts-wasm/lib.rs:908`), so that its event never comes; TLC shows so at once with `Lens = {0, 346}`. The page
  pushes only chunks of an encoder, which have bytes. An audio PES always has some, its control header.

The proofs about `PublishPage` assume, like its run, that no Stop came while Publish waited (`hasty`): finding 17.

Only model-checked:

- everything with `~>` and the fairness behind it (the prover has no ENABLED): `DeadSessionIsFreed`,
  `StopIsHeard`, `ViewersLearnOfTheEnd`, `ShutdownStopsRegistered`, `DeadSessionsAreReleased`, `RunReturns`,
  `ShutdownReleasesAll`, `ViewersAreLetGo`, `BacklogInRingShrinks`, `RunEndIsSeen`, `PublisherComesBack`,
  `NameIsFreed`, `SessionComesBack`, `FramesFlow`;
- what `TsCodecs` computes (`NalUnitsFound`, `PcmRoundTrip`): recursion over the bytes, which needs induction;
- the refutations.

## 6. Not modelled

- Certificates and congestion control (constants), parsing of the command line, static files, logs,
  statistics, the builder of the gateway: no state that decides anything.
- The admission policies: string comparison on one request. That they may refuse is in `Gateway`.
- The meters and the debug snapshot of the demuxer, the debug pages: signal processing and display.
- WebCodecs, WebGL and WebAudio, QUIC, `srt-protocol` and `srt-tokio`, the TS reader of the `mpeg2ts`
  crate: external. The last is in `TsDemuxer!PayloadKind` as the demuxer sees it.
- `SrtReceiver::send_message`; the order and retransmission that SRT promises, which `TsPath` assumes:
  packets are late and dropped, never reordered.
- A page that gives the player no canvas, a URL or a certificate hash that does not parse: `doConnect` returns or throws
  before it has a worker. An `onerror` of the worker after its initialisation (`viewer.ts:395`): `Player!ScriptFails` has it
  only there, since nothing that the worker runs later throws out of a handler.
- A configuration file that somebody else edits, removes or makes unreadable; a TS file with gaps of its own, which the
  check counts again on each pass.
- `call.tsx`, capture and the choice of devices: the parts of `PublishPage` on another page.
- The single-listener mode's stale connection requests, kept by the external listener.
- `EndedStreamsAreForgotten`, `HandshakesAreBounded`, `ExpGolombRead` and `SlicesCounted` are defined in their modules and hold, but are in no run
  (the last two with 6 bytes out of 0, 1, 38, 101 and 154, which are slices and their headers).

## 7. Plan

Done: all modules with their runs, and a theorem for every invariant of a passing run but the two of `TsCodecs`, which are
about recursion over data.

What a next step could add: a model of the meters (bitrate rings, jitter), and of the admission hooks should they keep state.
