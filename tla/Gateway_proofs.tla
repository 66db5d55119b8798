--------------------------- MODULE Gateway_proofs ---------------------------
(***************************************************************************)
(* No session slips through the shutdown, and names are first-wins, for    *)
(* any number of connections, names and sources.                           *)
(***************************************************************************)
EXTENDS Gateway, TLAPS

(* A session begins with its handler's create, the handler is done when    *)
(* the session is on a list, and a late session that its handler drains    *)
(* was told to stop.                                                       *)
Unborn == {"idle", "incoming", "deciding", "acquire", "precheck", "reject", "refuse",
           "accept", "claim", "create"}
SessionsOK ==
  \A c \in Conn :
    /\ handler[c] \in Unborn => pump[c] = "none"
    /\ handler[c] = "drain" => permit[c]
    /\ c \in handles \cup draining => handler[c] = "done"
    /\ role[c] = None => handler[c] = "idle"

(* Every handler at work is on the list of the accept loop, or on the one  *)
(* that run took from it.                                                  *)
HandlersListed ==
  \A c \in Conn : handler[c] \notin {"idle", "done"} => c \in inFlight \cup aborting

(* What run has left behind at each of its steps.                          *)
RunOK ==
  /\ run \in {"accepting", "stopTicker"} => ~shuttingDown /\ aborting = {} /\ draining = {}
  /\ run \notin {"accepting", "stopTicker"} => shuttingDown /\ inFlight = {}
  /\ run \in {"notify", "drain", "done"} => aborting = {}
  /\ run = "drain" => \A c \in draining : permit[c]
  /\ run = "done" => draining = {} /\ entries = {}

IInv == TypeOK /\ SessionsOK /\ HandlersListed /\ RunOK /\ SessionsAreOnAList

-----------------------------------------------------------------------------
LEMMA InitEstablishes == Init => IInv
<1> SUFFICES ASSUME Init PROVE IInv
  OBVIOUS
<1>1. TypeOK
  <2>1. permit \in [Conn -> BOOLEAN] /\ shuttingDown \in BOOLEAN
    BY Zenon DEF Init
  <2>2. ticker \in [pc : {"idle", "ticking", "lastTick", "exited"},
                    hold : SUBSET Conn, dead : SUBSET Conn]
    BY DEF Init
  <2>3. QED
    BY <2>1, <2>2 DEF Init, TypeOK, HandlerPC, Awaiting
<1>2. SessionsOK /\ HandlersListed
  BY DEF Init, SessionsOK, HandlersListed, Unborn
<1>3. RunOK /\ SessionsAreOnAList
  BY DEF Init, RunOK, SessionsAreOnAList
<1>4. QED
  BY <1>1, <1>2, <1>3 DEF IInv

(* The accept loop and the steps of a handler up to the claim.              *)
LEMMA EarlyStepsKeep ==
  ASSUME IInv, NEW c \in Conn,
         \/ \E r \in Role : Spawn(c, r)
         \/ Incoming(c) \/ Decide(c) \/ TryAcquire(c) \/ Precheck(c)
         \/ Answer(c) \/ Accept(c) \/ Claim(c)
  PROVE  IInv'
<1> USE ConnAssumption, RoleAssumption
    DEF IInv, TypeOK, SessionsOK, HandlersListed, RunOK, SessionsAreOnAList, HandlerPC, Awaiting,
        Unborn, runVars, taskVars, sessionVars, streamVars, Goto, HandlerStep
<1>1. ASSUME NEW r \in Role, Spawn(c, r) PROVE IInv'
  BY <1>1 DEF Spawn
<1>2. CASE Incoming(c)
  BY <1>2 DEF Incoming
<1>3. CASE Decide(c)
  BY <1>3 DEF Decide
<1>4. CASE TryAcquire(c)
  BY <1>4 DEF TryAcquire
<1>5. CASE Precheck(c)
  BY <1>5 DEF Precheck
<1>6. CASE Answer(c)
  BY <1>6 DEF Answer
<1>7. CASE Accept(c)
  BY <1>7 DEF Accept
<1>8. CASE Claim(c)
  BY <1>8 DEF Claim, Role
<1>9. QED
  BY <1>1, <1>2, <1>3, <1>4, <1>5, <1>6, <1>7, <1>8

(* A handler that comes too late tells its own session to stop, no other.   *)
LEMMA RegisterSetsPermit ==
  ASSUME IInv, NEW c \in Conn, Register(c), shuttingDown
  PROVE  /\ permit'[c]
         /\ \A d \in Conn : permit[d] => permit'[d]
         /\ \A d \in Conn \ {c} : permit'[d] => permit[d]
         /\ permit' \in [Conn -> BOOLEAN]
<1>1. permit \in [Conn -> BOOLEAN] /\ permit' = [permit EXCEPT ![c] = TRUE]
  BY DEF Register, IInv, TypeOK
<1>2. QED
  BY <1>1, Zenon

(* A session is created, inserted, registered or drained by its handler,    *)
(* and its pump ends.                                                       *)
LEMMA SessionStepsKeep ==
  ASSUME IInv, NEW c \in Conn,
         Create(c) \/ Insert(c) \/ Register(c) \/ DrainOwn(c) \/ PumpEnds(c) \/ PumpStops(c)
  PROVE  IInv'
<1> USE ConnAssumption, RoleAssumption
    DEF IInv, TypeOK, SessionsOK, HandlersListed, RunOK, SessionsAreOnAList, HandlerPC, Awaiting,
        Unborn, runVars, taskVars, sessionVars, streamVars, Goto
<1>1. CASE Create(c)
  BY <1>1 DEF Create
<1>2. CASE Insert(c)
  BY <1>2 DEF Insert
<1>3. CASE Register(c)
  <2>1. CASE shuttingDown
    <3>1. /\ permit'[c]
          /\ \A d \in Conn : permit[d] => permit'[d]
          /\ \A d \in Conn \ {c} : permit'[d] => permit[d]
          /\ permit' \in [Conn -> BOOLEAN]
      BY <1>3, <2>1, RegisterSetsPermit
    <3>2. QED
      <4>1. TypeOK' /\ SessionsOK' /\ HandlersListed' /\ RunOK'
        BY <1>3, <2>1, <3>1 DEF Register
      <4>2. SessionsAreOnAList'
        BY <1>3, <2>1, <3>1 DEF Register
      <4>3. QED
        BY <4>1, <4>2
  <2>2. CASE ~shuttingDown
    BY <1>3, <2>2 DEF Register
  <2>3. QED
    BY <2>1, <2>2
<1>4. CASE DrainOwn(c)
  BY <1>4 DEF DrainOwn
<1>5. CASE PumpEnds(c) \/ PumpStops(c)
  BY <1>5 DEF PumpEnds, PumpStops
<1>6. QED
  BY <1>1, <1>2, <1>3, <1>4, <1>5

(* The steps of run, from the shutdown to its return.                       *)
LEMMA RunStepsKeep ==
  ASSUME IInv, Shutdown \/ RunNext
  PROVE  IInv'
<1> USE ConnAssumption, RoleAssumption
    DEF IInv, TypeOK, SessionsOK, HandlersListed, RunOK, SessionsAreOnAList, HandlerPC, Awaiting,
        Unborn, runVars, taskVars, sessionVars, streamVars, Goto
<1>1. CASE Shutdown
  BY <1>1 DEF Shutdown
<1>2. CASE Take
  BY <1>2 DEF Take
<1>3. ASSUME NEW c \in Conn, AbortHandler(c) PROVE IInv'
  BY <1>3 DEF AbortHandler
<1>4. CASE ShutdownStreams
  BY <1>4 DEF ShutdownStreams
<1>5. CASE NotifyAll
  <2>1. /\ \A c \in Conn : permit'[c] <=> permit[c] \/ c \in draining
        /\ permit' \in [Conn -> BOOLEAN]
    BY <1>5, Zenon DEF NotifyAll
  <2>2. QED
    <3>1. TypeOK' /\ SessionsOK' /\ HandlersListed'
      BY <1>5, <2>1 DEF NotifyAll
    <3>2. RunOK' /\ SessionsAreOnAList'
      BY <1>5, <2>1 DEF NotifyAll
    <3>3. QED
      BY <3>1, <3>2
<1>6. ASSUME NEW c \in Conn, DrainSession(c) PROVE IInv'
  <2>1. draining' \subseteq draining /\ draining \subseteq draining' \cup {c}
    BY <1>6 DEF DrainSession
  <2>2. TypeOK' /\ SessionsOK' /\ HandlersListed'
    BY <1>6 DEF DrainSession
  <2>3. RunOK'
    BY <1>6, <2>1 DEF DrainSession
  <2>4. SessionsAreOnAList'
    BY <1>6, <2>1 DEF DrainSession
  <2>5. QED
    BY <2>2, <2>3, <2>4
<1>7. CASE Return
  BY <1>7 DEF Return
<1>8. QED
  BY <1>1, <1>2, <1>3, <1>4, <1>5, <1>6, <1>7 DEF RunNext

(* The ticker and the streams.                                              *)
LEMMA OtherStepsKeep ==
  ASSUME IInv,
         \/ TickStart \/ TickEnd \/ UNCHANGED vars
         \/ \E n \in Name : StreamEnds(n) \/ \E s \in Source : SourceStarts(n, s)
  PROVE  IInv'
<1> USE ConnAssumption, RoleAssumption
    DEF IInv, TypeOK, SessionsOK, HandlersListed, RunOK, SessionsAreOnAList, HandlerPC, Awaiting,
        Unborn, runVars, taskVars, sessionVars, streamVars
<1>1. CASE TickStart
  BY <1>1 DEF TickStart
<1>2. CASE TickEnd
  BY <1>2 DEF TickEnd
<1>3. ASSUME NEW n \in Name, StreamEnds(n) PROVE IInv'
  BY <1>3 DEF StreamEnds
<1>4. ASSUME NEW n \in Name, NEW s \in Source, SourceStarts(n, s) PROVE IInv'
  BY <1>4 DEF SourceStarts
<1>5. CASE UNCHANGED vars
  BY <1>5 DEF vars
<1>6. QED
  BY <1>1, <1>2, <1>3, <1>4, <1>5

(* IInv is an inductive invariant of the gateway (gateway.rs:229-629).      *)
THEOREM Inductive == Spec => []IInv
<1>1. IInv /\ [Next]_vars => IInv'
  <2>1. ASSUME IInv, NEW c \in Conn, HandlerNext(c) PROVE IInv'
    BY <2>1, EarlyStepsKeep, SessionStepsKeep DEF HandlerNext
  <2>2. QED
    BY <2>1, EarlyStepsKeep, SessionStepsKeep, RunStepsKeep, OtherStepsKeep DEF Next
<1>2. QED
  BY <1>1, InitEstablishes, PTL DEF Spec

(* Every variable keeps its type (gateway.rs:229-629).                      *)
THEOREM TypeCorrect == Spec => []TypeOK
BY Inductive, PTL DEF IInv

(* A session whose pump runs and was not told to stop is on a list that the *)
(* shutdown reads, or still in the hands of a handler that is going to put  *)
(* it there (gateway.rs:285-288, 305-312, 604-629).                         *)
THEOREM NoSessionIsForgotten == Spec => []SessionsAreOnAList
BY Inductive, PTL DEF IInv

(* When run returns, no handler is at work, no session is registered, and   *)
(* the pumps that still run have been told to stop (gateway.rs:293-353).    *)
THEOREM ShutdownCatchesAll == Spec => []NothingSlipsThrough
<1>1. IInv => NothingSlipsThrough
  BY DEF IInv, NothingSlipsThrough, SessionsAreOnAList, RunOK, HandlersListed, TypeOK
<1>2. QED
  BY <1>1, Inductive, PTL

-----------------------------------------------------------------------------
LEMMA StepImplements == IInv /\ [Next]_vars => [Claims!Next]_owner
<1> SUFFICES ASSUME IInv, [Next]_vars, owner' # owner PROVE Claims!Next
  OBVIOUS
<1> USE ConnAssumption DEF IInv, TypeOK
<1>1. ASSUME NEW c \in Conn, Claim(c) PROVE Claims!Next
  BY <1>1 DEF Claim, SessionsOK, Role, Claims!Next, Claims!Claim
<1>2. ASSUME NEW n \in Name, StreamEnds(n) PROVE Claims!Next
  BY <1>2 DEF StreamEnds, Claims!Next, Claims!End
<1>3. ASSUME NEW n \in Name, NEW s \in Source, SourceStarts(n, s) PROVE Claims!Next
  BY <1>3 DEF SourceStarts, Claims!Next, Claims!Claim
<1>4. ASSUME NEW c \in Conn, HandlerNext(c) PROVE Claims!Next
  BY <1>1, <1>4 DEF HandlerNext, HandlerStep, Decide, TryAcquire, Precheck, Answer, Accept,
     Create, Insert, Register, DrainOwn, streamVars
<1>5. Shutdown \/ RunNext \/ TickStart \/ TickEnd \/ UNCHANGED vars => FALSE
  BY DEF Shutdown, RunNext, Take, AbortHandler, ShutdownStreams, NotifyAll, DrainSession, Return,
     TickStart, TickEnd, vars, streamVars
<1>6. ASSUME NEW c \in Conn PROVE ~(\E r \in Role : Spawn(c, r)) /\ ~Incoming(c) /\ ~PumpEnds(c) /\ ~PumpStops(c)
  BY DEF Spawn, Incoming, HandlerStep, PumpEnds, PumpStops, streamVars
<1>7. QED
  BY <1>2, <1>3, <1>4, <1>5, <1>6 DEF Next

(* First-wins: however many connections and sources race for the names, and *)
(* whatever their handlers found before the handshake, a live stream keeps  *)
(* its name until it ends (gateway.rs:485-508, 551-585).                    *)
THEOREM ImplementsClaims == Spec => FirstWins
<1>1. Init => Claims!Init
  BY DEF Init, Claims!Init
<1>2. QED
  BY <1>1, StepImplements, Inductive, PTL DEF Spec, FirstWins, Claims!Spec
=============================================================================
