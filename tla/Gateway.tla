------------------------------ MODULE Gateway ------------------------------
(***************************************************************************)
(* Gateway::run (crates/websrt/src/gateway.rs): the accept loop, one       *)
(* handler task for each incoming connection, the ticker task, and the     *)
(* shutdown that has to catch all of them.                                 *)
(*                                                                         *)
(* What Rust ties to the lifetime of a value is not a variable here: a     *)
(* handler or session entry that exists holds its connection slot, and a   *)
(* publisher's holds the sending end of its stream.  The session behind an *)
(* entry is the subject of Session, the claims of names of StreamRegistry, *)
(* the slots of ConnectionTracker.                                         *)
(***************************************************************************)
CONSTANTS
  Conn,         \* incoming connections
  Name,         \* stream names
  Source,       \* streams with a source of their own (SRT, file)
  None

ASSUME ConnAssumption ==
  Conn \cap Source = {} /\ None \notin Conn \cup Source

Role == [kind : {"publish", "view"}, name : Name]
ASSUME RoleAssumption == None \notin Role

VARIABLES
  run,        \* the program counter of Gateway::run
  \* SessionTasks, behind a mutex that no task holds across an await
  shuttingDown,
  handles,    \* the sessions registered for the drain
  inFlight,   \* the handler tasks
  \* what run took from it, and what it still has to wait for
  aborting, draining,
  handler,    \* handler[c]: the program counter of handle_session
  role,       \* role[c]: what the query of connection c asks for
  pump,       \* pump[c]: the recv_pump task
  permit,     \* permit[c]: the session's Notify holds a permit
  entries,    \* the session registry
  ticker,     \* the ticker task: its state, what its tick_all holds, and found dead
  owner,      \* owner[n]: whose live broadcaster has name n
  stopped     \* the names whose broadcaster shutdown_all has signalled

taskVars == <<shuttingDown, handles, inFlight>>
runVars == <<run, aborting, draining>>
sessionVars == <<pump, permit, entries>>
streamVars == <<owner, stopped>>
vars == <<runVars, taskVars, handler, role, sessionVars, ticker, streamVars>>

(* The awaits of a handler, where an abort takes effect; and the states in  *)
(* which it owns a connection slot itself.                                  *)
Awaiting == {"incoming", "deciding", "reject", "refuse", "accept", "drain"}
HandlerPC == Awaiting \cup {"idle", "acquire", "precheck", "claim", "create", "insert",
                            "register", "done"}
OwnSlot == {"precheck", "reject", "accept", "claim", "create"}

(* The session entry lives as long as somebody holds it: the handler until  *)
(* it is in the registry, the registry, the running tick, the pump.         *)
EntryLives(c) ==
  handler[c] = "insert" \/ c \in entries \/ c \in ticker.hold \/ pump[c] = "running"
HoldsSlot(c) == handler[c] \in OwnSlot \/ EntryLives(c)
HoldsSender(c) ==
  /\ role[c] # None /\ role[c].kind = "publish"
  /\ handler[c] = "create" \/ EntryLives(c)
Slots == {c \in Conn : HoldsSlot(c)}

-----------------------------------------------------------------------------
Init ==
  /\ run = "accepting" /\ aborting = {} /\ draining = {}
  /\ shuttingDown = FALSE /\ handles = {} /\ inFlight = {}
  /\ handler = [c \in Conn |-> "idle"]
  /\ role = [c \in Conn |-> None]
  /\ pump = [c \in Conn |-> "none"]
  /\ permit = [c \in Conn |-> FALSE]
  /\ entries = {}
  /\ ticker = [pc |-> "idle", hold |-> {}, dead |-> {}]
  /\ owner = [n \in Name |-> None]
  /\ stopped = {}

Goto(c, pc) == handler' = [handler EXCEPT ![c] = pc]

(* Mutant: the accept loop keeps the sessions that are over.                *)
SpawnKeepingFinished(c, r) ==
  /\ run = "accepting" /\ handler[c] = "idle"
  /\ Goto(c, "incoming")
  /\ role' = [role EXCEPT ![c] = r]
  /\ inFlight' = {h \in inFlight : handler[h] # "done"} \cup {c}
  /\ handles' = {h \in handles : pump[h] = "gone"}
  /\ UNCHANGED <<runVars, shuttingDown, sessionVars, ticker, streamVars>>

(* A connection arrives: its handler is spawned, and the lists are pruned.  *)
Spawn(c, r) ==
  /\ run = "accepting" /\ handler[c] = "idle"
  /\ Goto(c, "incoming")
  /\ role' = [role EXCEPT ![c] = r]
  /\ inFlight' = {h \in inFlight : handler[h] # "done"} \cup {c}
  /\ handles' = {h \in handles : pump[h] # "gone"}
  /\ UNCHANGED <<runVars, shuttingDown, sessionVars, ticker, streamVars>>

-----------------------------------------------------------------------------
(* handle_session.  The request may never come, or fail.                    *)
HandlerStep(c, from, to) ==
  /\ handler[c] = from
  /\ \E pc \in to : Goto(c, pc)
  /\ UNCHANGED <<runVars, taskVars, role, sessionVars, ticker, streamVars>>

Incoming(c) == HandlerStep(c, "incoming", {"deciding", "done"})

(* The policy accepts or answers 404, 403 or 429.                           *)
Decide(c) == HandlerStep(c, "deciding", {"acquire", "refuse"})

(* ConnectionTracker::try_acquire, where other sessions may hold the slots; *)
(* without a slot the answer is 429.                                        *)
TryAcquire(c) == HandlerStep(c, "acquire", {"precheck", "refuse"})

(* A viewer needs a live stream, a publisher a name that has none; otherwise*)
(* the answer is 404 or 403.                                                *)
Available(c) == (role[c].kind = "view") <=> (owner[role[c].name] # None)
Precheck(c) == HandlerStep(c, "precheck", IF Available(c) THEN {"accept"} ELSE {"reject"})

(* Mutant: the peer's reset of a 403 or 404 is awaited without a timeout.   *)
AnswerUnbounded(c) == HandlerStep(c, "refuse", {"done"})

(* The answer is out when the peer resets its stream, or handshake_timeout  *)
(* is over.                                                                 *)
Answer(c) == HandlerStep(c, "reject", {"done"}) \/ HandlerStep(c, "refuse", {"done"})

(* The WebTransport handshake: done, failed, timed out, or the connection   *)
(* takes no datagrams of the size SRT needs.                                *)
Accept(c) == HandlerStep(c, "accept", {"claim", "done"})

(* Mutant: the claim trusts the check made before the handshake.            *)
ClaimUnchecked(c) ==
  /\ handler[c] = "claim"
  /\ LET n == role[c].name
     IN IF role[c].kind = "publish"
          THEN /\ owner' = [owner EXCEPT ![n] = c]
               /\ Goto(c, "create")
          ELSE /\ \E pc \in IF owner[n] = None THEN {"done"} ELSE {"create", "done"} : Goto(c, pc)
               /\ UNCHANGED owner
  /\ UNCHANGED <<runVars, taskVars, role, sessionVars, ticker, stopped>>

(* try_publish and subscribe check again, under the lock of the registry;   *)
(* subscribe may also find the stream full.                                 *)
Claim(c) ==
  /\ handler[c] = "claim"
  /\ LET n == role[c].name
     IN IF role[c].kind = "publish"
          THEN /\ owner' = [owner EXCEPT ![n] = IF @ = None THEN c ELSE @]
               /\ Goto(c, IF owner[n] = None THEN "create" ELSE "done")
          ELSE /\ \E pc \in IF owner[n] = None THEN {"done"} ELSE {"create", "done"} : Goto(c, pc)
               /\ UNCHANGED owner
  /\ UNCHANGED <<runVars, taskVars, role, sessionVars, ticker, stopped>>

(* BrowserSession::create spawns the pump, and has no await.                *)
Create(c) ==
  /\ handler[c] = "create"
  /\ pump' = [pump EXCEPT ![c] = "running"]
  /\ Goto(c, "insert")
  /\ UNCHANGED <<runVars, taskVars, role, permit, entries, ticker, streamVars>>

Insert(c) ==
  /\ handler[c] = "insert"
  /\ entries' = entries \cup {c}
  /\ Goto(c, "register")
  /\ UNCHANGED <<runVars, taskVars, role, pump, permit, ticker, streamVars>>

(* register_session_or_drain: in time for the drain, or on its own.         *)
Register(c) ==
  /\ handler[c] = "register"
  /\ IF shuttingDown
       THEN /\ permit' = [permit EXCEPT ![c] = TRUE]
            /\ Goto(c, "drain")
            /\ UNCHANGED handles
       ELSE /\ handles' = handles \cup {c}
            /\ Goto(c, "done")
            /\ UNCHANGED permit
  /\ UNCHANGED <<runVars, shuttingDown, inFlight, role, pump, entries, ticker, streamVars>>

(* The pump exits within 3 s or is aborted; then the entry is removed.      *)
DrainOwn(c) ==
  /\ handler[c] = "drain"
  /\ pump' = [pump EXCEPT ![c] = "gone"]
  /\ entries' = entries \ {c}
  /\ Goto(c, "done")
  /\ UNCHANGED <<runVars, taskVars, role, permit, ticker, streamVars>>

HandlerNext(c) ==
  \/ Decide(c) \/ TryAcquire(c) \/ Precheck(c) \/ Answer(c) \/ Accept(c)
  \/ Claim(c) \/ Create(c) \/ Insert(c) \/ Register(c) \/ DrainOwn(c)

-----------------------------------------------------------------------------
(* A session ends by itself: the peer goes, SRT closes, a datagram cannot   *)
(* be sent; or its pump takes the permit.                                   *)
PumpEnds(c) ==
  /\ pump[c] = "running"
  /\ pump' = [pump EXCEPT ![c] = "gone"]
  /\ UNCHANGED <<runVars, taskVars, handler, role, permit, entries, ticker, streamVars>>

PumpStops(c) == permit[c] /\ PumpEnds(c)

(* run_ticker: tick_all holds the entries of its snapshot ...               *)
TickStart ==
  /\ ticker.pc = "idle" /\ entries # {}
  /\ ticker' = [pc |-> "ticking", hold |-> entries, dead |-> {c \in entries : pump[c] = "gone"}]
  /\ UNCHANGED <<runVars, taskVars, handler, role, sessionVars, streamVars>>

(* Mutant: only the sessions the ticker itself finishes are removed.        *)
TickEndSkipsDead ==
  /\ ticker.hold # {}
  /\ \E finishing \in SUBSET ticker.hold : entries' = entries \ finishing
  /\ ticker' = [pc |-> IF ticker.pc = "ticking" THEN "idle" ELSE "exited", hold |-> {}, dead |-> {}]
  /\ UNCHANGED <<runVars, taskVars, handler, role, pump, permit, streamVars>>

(* ... and removes those it found finished and those it finishes itself.    *)
TickEnd ==
  /\ ticker.hold # {}
  /\ \E finishing \in SUBSET ticker.hold : entries' = entries \ (ticker.dead \cup finishing)
  /\ ticker' = [pc |-> IF ticker.pc = "ticking" THEN "idle" ELSE "exited", hold |-> {}, dead |-> {}]
  /\ UNCHANGED <<runVars, taskVars, handler, role, pump, permit, streamVars>>

(* Mutant: the name of an ended stream is kept for its viewers.             *)
StreamEndsLeavesTombstone(n) ==
  /\ owner[n] # None
  /\ owner[n] \in Conn => ~HoldsSender(owner[n]) \/ n \in stopped
  /\ owner' = [owner EXCEPT ![n] = "ended"]
  /\ UNCHANGED <<runVars, taskVars, handler, role, sessionVars, ticker, stopped>>

(* A stream ends: its publisher's sender is gone, shutdown_all has signalled*)
(* its broadcaster, or its source ends by itself.                           *)
StreamEnds(n) ==
  /\ owner[n] # None
  /\ owner[n] \in Conn => ~HoldsSender(owner[n]) \/ n \in stopped
  /\ owner' = [owner EXCEPT ![n] = None]
  /\ UNCHANGED <<runVars, taskVars, handler, role, sessionVars, ticker, stopped>>

(* An SRT sender or the owner of the gateway publishes, with try_publish_ingester. *)
SourceStarts(n, s) ==
  /\ owner[n] = None /\ s \notin {owner[m] : m \in Name}
  /\ owner' = [owner EXCEPT ![n] = s]
  /\ stopped' = stopped \ {n}
  /\ UNCHANGED <<runVars, taskVars, handler, role, sessionVars, ticker>>

-----------------------------------------------------------------------------
(* The shutdown future completes; the ticker is told to stop.  It may be in *)
(* the middle of tick_all.                                                  *)
Shutdown ==
  /\ run = "accepting"
  /\ run' = "stopTicker"
  /\ ticker' = [ticker EXCEPT !.pc = IF @ = "ticking" THEN "lastTick" ELSE "exited"]
  /\ UNCHANGED <<aborting, draining, taskVars, handler, role, sessionVars, streamVars>>

(* Mutant: the lists are taken, the flag is not set.                        *)
TakeWithoutFlag ==
  /\ run = "stopTicker"
  /\ run' = "abort"
  /\ aborting' = inFlight /\ draining' = handles
  /\ inFlight' = {} /\ handles' = {}
  /\ UNCHANGED <<shuttingDown, handler, role, sessionVars, ticker, streamVars>>

(* The ticker has exited or 2 s are over: close the registration window and *)
(* take both lists, in one critical section.                                *)
Take ==
  /\ run = "stopTicker"
  /\ run' = "abort"
  /\ shuttingDown' = TRUE
  /\ aborting' = inFlight /\ draining' = handles
  /\ inFlight' = {} /\ handles' = {}
  /\ UNCHANGED <<handler, role, sessionVars, ticker, streamVars>>

(* Mutant: run waits for the handlers without aborting them.                *)
AwaitWithoutAbort(c) ==
  /\ run = "abort" /\ c \in aborting
  /\ handler[c] = "done"
  /\ aborting' = aborting \ {c}
  /\ UNCHANGED <<run, draining, taskVars, handler, role, sessionVars, ticker, streamVars>>

(* handler.abort() and handler.await: the handler is over when it gets to   *)
(* its next await, wherever that is.                                        *)
AbortHandler(c) ==
  /\ run = "abort" /\ c \in aborting
  /\ handler[c] \in Awaiting \cup {"done"}
  /\ aborting' = aborting \ {c}
  /\ Goto(c, "done")
  /\ UNCHANGED <<run, draining, taskVars, role, sessionVars, ticker, streamVars>>

(* streams.shutdown_all().                                                  *)
ShutdownStreams ==
  /\ run = "abort" /\ aborting = {}
  /\ run' = "notify"
  /\ stopped' = {n \in Name : owner[n] # None}
  /\ UNCHANGED <<aborting, draining, taskVars, handler, role, sessionVars, ticker, owner>>

(* notify_one for every session of the drain list.                          *)
NotifyAll ==
  /\ run = "notify"
  /\ run' = "drain"
  /\ permit' = [c \in Conn |-> permit[c] \/ c \in draining]
  /\ UNCHANGED <<aborting, draining, taskVars, handler, role, pump, entries, ticker, streamVars>>

(* Each pump exits within 3 s or is aborted.                                *)
DrainSession(c) ==
  /\ run = "drain" /\ c \in draining
  /\ draining' = draining \ {c}
  /\ pump' = [pump EXCEPT ![c] = "gone"]
  /\ UNCHANGED <<run, aborting, taskVars, handler, role, permit, entries, ticker, streamVars>>

(* Mutant: run does not clear the session registry.                         *)
ReturnWithoutClear ==
  /\ run = "drain" /\ draining = {}
  /\ run' = "done"
  /\ UNCHANGED <<aborting, draining, taskVars, handler, role, sessionVars, ticker, streamVars>>

(* The registries are cleaned up and run returns.                           *)
Return ==
  /\ run = "drain" /\ draining = {}
  /\ run' = "done"
  /\ entries' = {}
  /\ UNCHANGED <<aborting, draining, taskVars, handler, role, pump, permit, ticker, streamVars>>

RunNext ==
  \/ Take \/ ShutdownStreams \/ NotifyAll \/ Return
  \/ \E c \in Conn : AbortHandler(c) \/ DrainSession(c)

Next ==
  \/ Shutdown \/ RunNext \/ TickStart \/ TickEnd
  \/ \E c \in Conn :
       \/ \E r \in Role : Spawn(c, r)
       \/ Incoming(c) \/ HandlerNext(c) \/ PumpEnds(c) \/ PumpStops(c)
  \/ \E n \in Name : StreamEnds(n) \/ \E s \in Source : SourceStarts(n, s)

(* The runtime polls every task; a timeout that is running out runs out; a  *)
(* pump with a permit takes it (StopIsHeard of Session); a broadcaster      *)
(* without a sender, or that was told to stop, exits (StreamRegistry).      *)
(* Whether requests come, sessions end or the gateway is ever shut down is  *)
(* up to others.                                                            *)
StreamMustEnd(n) == (owner[n] \in Conn \/ n \in stopped) /\ StreamEnds(n)
Fairness ==
  /\ WF_vars(RunNext) /\ WF_vars(TickStart) /\ WF_vars(TickEnd)
  /\ \A c \in Conn : WF_vars(HandlerNext(c)) /\ WF_vars(PumpStops(c))
  /\ \A n \in Name : WF_vars(StreamMustEnd(n))

Spec == Init /\ [][Next]_vars /\ Fairness

-----------------------------------------------------------------------------
(* Every variable has the type its code counterpart has. *)
TypeOK ==
  /\ run \in {"accepting", "stopTicker", "abort", "notify", "drain", "done"}
  /\ shuttingDown \in BOOLEAN
  /\ handles \subseteq Conn /\ inFlight \subseteq Conn
  /\ aborting \subseteq Conn /\ draining \subseteq Conn
  /\ handler \in [Conn -> HandlerPC]
  /\ role \in [Conn -> Role \cup {None}]
  /\ pump \in [Conn -> {"none", "running", "gone"}]
  /\ permit \in [Conn -> BOOLEAN]
  /\ entries \subseteq Conn
  /\ ticker \in [pc : {"idle", "ticking", "lastTick", "exited"},
                 hold : SUBSET Conn, dead : SUBSET Conn]
  /\ owner \in [Name -> Conn \cup Source \cup {None}]
  /\ stopped \subseteq Name

(* No session slips through the shutdown, however late its handler created  *)
(* it: when run returns, no handler is at work, the registry is empty, and  *)
(* each pump that still runs has been told to stop (gateway.rs:293-353,     *)
(* 604-629).                                                                *)
NothingSlipsThrough ==
  run = "done" =>
    /\ entries = {}
    /\ \A c \in Conn :
         /\ handler[c] \in {"idle", "done"}
         /\ pump[c] = "running" => permit[c]

(* A session is never forgotten: as long as its pump runs and was not told  *)
(* to stop, either its handler is still going to register it or it is on    *)
(* the list that the drain reads (gateway.rs:285-288, 305-312).             *)
SessionsAreOnAList ==
  \A c \in Conn : pump[c] = "running" /\ ~permit[c] =>
    \/ handler[c] \in {"insert", "register"} /\ c \in inFlight \cup aborting
    \/ c \in IF shuttingDown THEN draining ELSE handles

(* First-wins: nobody takes over the name of a live stream, also when the   *)
(* name was free at the check before the handshake (gateway.rs:485-508,     *)
(* 551-585).                                                                *)
Claims == INSTANCE StreamClaims WITH Stream <- Conn \cup Source, Trusted <- {}, Nobody <- None
FirstWins == Claims!Spec

(* A handshake cannot hold its connection slot for ever: the peer may leave *)
(* the response unanswered, the slot becomes free or a session's            *)
(* (gateway.rs:380-383, 470-510).                                           *)
HandshakesAreBounded == \A c \in Conn : handler[c] \in OwnSlot ~> handler[c] \notin OwnSlot

(* A session whose pump is gone gives back its slot and its stream name,    *)
(* whether the ticker, its own handler or the shutdown gets to it.          *)
DeadSessionsAreReleased ==
  \A c \in Conn : pump[c] = "gone" ~> ~HoldsSlot(c) /\ \A n \in Name : owner[n] # c

(* Once asked to shut down, run returns: no handler, session or ticker can  *)
(* hold it up.                                                              *)
RunReturns == run # "accepting" ~> run = "done"

(* After run has returned, everything the sessions held is given back.      *)
ShutdownReleasesAll ==
  run = "done" ~> Slots = {} /\ \A n \in Name : owner[n] \notin Conn

(* gateway.rs:604-608: a session created while the drain list was already   *)
(* taken is torn down by its handler "using the same notify -> bounded      *)
(* wait -> abort sequence the drain path uses", so that no pump outlives    *)
(* run.                                                                     *)
NoPumpOutlivesRun == run = "done" => \A c \in Conn : pump[c] # "running"
=============================================================================
