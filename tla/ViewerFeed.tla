----------------------------- MODULE ViewerFeed -----------------------------
(***************************************************************************)
(* How the messages of one stream get to its viewers                       *)
(* (crates/websrt/src/broadcaster.rs, tick_one in registry.rs).            *)
(*                                                                         *)
(* The broadcaster task writes into a ring; each viewer has a cursor, and  *)
(* one that falls behind by more than the ring loses the oldest messages.  *)
(* The ticker feeds every connected viewer from its cursor, as far as the  *)
(* viewer's credits go, while the broadcaster keeps writing.  A message is *)
(* not more than its place relative to the cursor.                         *)
(***************************************************************************)
EXTENDS Naturals

CONSTANTS
  Viewer,
  Capacity,     \* depth of the ring
  MaxPerTick,   \* MAX_MSGS_PER_TICK
  Unit,         \* credits are counted in 1/Unit of a message
  Rate,         \* messages of a steady source in a tick: what the EWMA settles at
  DefaultRate,  \* RATE_DEFAULT_CAP, the messages a tick of DRAIN_DEFAULT_RATE
  Overhead,     \* credits for DRAIN_OVERHEAD_RATE in a tick
  Estimates     \* what the EWMA may be before it settles, in messages a tick

ASSUME NumbersAssumption ==
  /\ {Capacity, MaxPerTick, Unit, Rate, DefaultRate, Overhead} \subseteq Nat \ {0}
  /\ Estimates \subseteq Nat
ASSUME RateFits == Rate < MaxPerTick /\ Rate < Capacity

VARIABLES
  source,    \* "live", "steady" (the rate has settled), "dying" (alive is false), "ended"
  rx,        \* rx[v]: "none", "open", "gone"
  srt,       \* srt[v]: "handshaking", "connected", "finished"
  primed,    \* viewer_primed
  behind,    \* behind[v]: unread messages still in the ring
  overrun,   \* overrun[v]: unread messages have been overwritten
  stale,     \* how many of the unread were sent before v was connected
  recent,    \* messages sent since the last tick of v, up to Rate
  credits,   \* drain_credits
  tick,      \* the program counter of tick_one(v)
  rate,      \* the ewma_rate that tick_all passed to it
  budget,    \* what to_drain has left
  drained    \* messages drained in this tick

feedVars == <<behind, overrun, stale>>
tickVars == <<credits, tick, rate, budget, drained>>
vars == <<source, rx, srt, primed, feedVars, recent, tickVars>>

Lesser(a, b) == IF a <= b THEN a ELSE b
Less1(n) == IF n = 0 THEN 0 ELSE n - 1

Init ==
  /\ source = "live"
  /\ rx = [v \in Viewer |-> "none"]
  /\ srt = [v \in Viewer |-> "handshaking"]
  /\ primed = [v \in Viewer |-> FALSE]
  /\ behind = [v \in Viewer |-> 0]
  /\ overrun = [v \in Viewer |-> FALSE]
  /\ stale = [v \in Viewer |-> 0]
  /\ recent = [v \in Viewer |-> 0]
  /\ credits = [v \in Viewer |-> 0]
  /\ tick = [v \in Viewer |-> "idle"]
  /\ rate = [v \in Viewer |-> 0]
  /\ budget = [v \in Viewer |-> 0]
  /\ drained = [v \in Viewer |-> 0]

-----------------------------------------------------------------------------
(* A message is written: it is unread for everybody who has a receiver, and *)
(* overwrites the oldest one of those who are a whole ring behind.          *)
Send ==
  /\ source \in {"live", "steady"}
  /\ source = "steady" =>
       \A v \in Viewer : rx[v] = "open" /\ srt[v] = "connected" => recent[v] < Rate
  /\ behind' = [v \in Viewer |->
       IF rx[v] = "open" THEN Lesser(behind[v] + 1, Capacity) ELSE behind[v]]
  /\ overrun' = [v \in Viewer |-> overrun[v] \/ (rx[v] = "open" /\ behind[v] = Capacity)]
  /\ stale' = [v \in Viewer |-> IF rx[v] = "open" /\ behind[v] = Capacity
                               THEN Less1(stale[v]) ELSE stale[v]]
  /\ recent' = [v \in Viewer |-> Lesser(recent[v] + 1, Rate)]
  /\ UNCHANGED <<source, rx, srt, primed, tickVars>>

(* From here on the source makes Rate messages a tick, and the EWMA of the  *)
(* rate sampler says so.                                                    *)
Settle ==
  /\ source = "live"
  /\ source' = "steady"
  /\ recent' = [v \in Viewer |-> 0]
  /\ UNCHANGED <<rx, srt, primed, feedVars, tickVars>>

(* The source ends: the task clears alive, and then closes the channel.      *)
End ==
  /\ source # "ended"
  /\ source' = IF source = "dying" THEN "ended" ELSE "dying"
  /\ UNCHANGED <<rx, srt, primed, feedVars, recent, tickVars>>

(* subscribe: the cursor is at the live edge.                               *)
Subscribe(v) ==
  /\ rx[v] = "none" /\ source \in {"live", "steady"}
  /\ rx' = [rx EXCEPT ![v] = "open"]
  /\ UNCHANGED <<source, srt, primed, feedVars, recent, tickVars>>

(* The SRT handshake of the session is complete.                            *)
Connect(v) ==
  /\ rx[v] = "open" /\ srt[v] = "handshaking"
  /\ srt' = [srt EXCEPT ![v] = "connected"]
  /\ stale' = [stale EXCEPT ![v] = behind[v]]
  /\ UNCHANGED <<source, rx, primed, behind, overrun, recent, tickVars>>

(* The session is over, and its entry with the receiver is dropped.         *)
Leave(v) ==
  /\ rx[v] = "open" /\ tick[v] = "idle"
  /\ rx' = [rx EXCEPT ![v] = "gone"]
  /\ UNCHANGED <<source, srt, primed, feedVars, recent, tickVars>>

-----------------------------------------------------------------------------
(* The rate that the registry reports, which is 0 for a stream that is not   *)
(* alive.                                                                   *)
EwmaRates ==
  CASE source = "live" -> Estimates [] source = "steady" -> {Rate} [] OTHER -> {0}

(* tick_one, when the session is connected.  The first such tick drops the  *)
(* backlog.                                                                 *)
TickStart(v) ==
  /\ tick[v] = "idle" /\ rx[v] = "open" /\ srt[v] = "connected"
  /\ tick' = [tick EXCEPT ![v] = IF primed[v] THEN "budget" ELSE "prime"]
  /\ primed' = [primed EXCEPT ![v] = TRUE]
  /\ recent' = [recent EXCEPT ![v] = 0]
  /\ rate' \in {[rate EXCEPT ![v] = r] : r \in EwmaRates}
  /\ UNCHANGED <<source, rx, srt, feedVars, credits, budget, drained>>

(* ViewerRx::try_recv: Lagged once after an overrun, else the oldest unread *)
(* message, else Empty or Closed.                                           *)
Lagged(v) == overrun[v]
Message(v) == ~overrun[v] /\ behind[v] > 0
NothingLeft(v) == ~overrun[v] /\ behind[v] = 0
Advance(v) ==
  /\ overrun' = [overrun EXCEPT ![v] = FALSE]
  /\ behind' = [behind EXCEPT ![v] = IF overrun[v] THEN @ ELSE @ - 1]
  /\ stale' = [stale EXCEPT ![v] = IF overrun[v] THEN @ ELSE Less1(@)]

(* Mutant: a lagged viewer ends the priming.                                *)
PrimeStopsAtLag(v) ==
  /\ tick[v] = "prime"
  /\ IF Message(v) \/ Lagged(v) THEN Advance(v) ELSE UNCHANGED feedVars
  /\ tick' = [tick EXCEPT ![v] = IF Message(v) THEN "prime" ELSE "budget"]
  /\ UNCHANGED <<source, rx, srt, primed, recent, credits, rate, budget, drained>>

(* drop_backlog: everything there is, also what is written meanwhile.       *)
Prime(v) ==
  /\ tick[v] = "prime"
  /\ IF NothingLeft(v) THEN UNCHANGED feedVars ELSE Advance(v)
  /\ tick' = [tick EXCEPT ![v] = IF NothingLeft(v) THEN "budget" ELSE "prime"]
  /\ UNCHANGED <<source, rx, srt, primed, recent, credits, rate, budget, drained>>

(* The credits one tick earns: the rate r of the stream and the overhead.  A *)
(* rate that is not known counts as DRAIN_DEFAULT_RATE.                     *)
(* Mutant: the overhead is forgotten.                                       *)
EarnedAtRate(r) == (IF r > 0 THEN r ELSE DefaultRate) * Unit

(* Mutant: no default rate.                                                 *)
EarnedOfEwma(r) == IF r > 0 THEN r * Unit + Overhead ELSE 0

Earned(r) == (IF r > 0 THEN r ELSE DefaultRate) * Unit + Overhead

(* Mutant: the budget is rounded up.                                        *)
WholeRoundedUp(c) == (c + Unit - 1) \div Unit
Whole(c) == c \div Unit

Budget(v) ==
  /\ tick[v] = "budget"
  /\ credits' = [credits EXCEPT ![v] = Lesser(@ + Earned(rate[v]), MaxPerTick * Unit)]
  /\ budget' = [budget EXCEPT ![v] = Whole(credits'[v])]
  /\ drained' = [drained EXCEPT ![v] = 0]
  /\ rate' = [rate EXCEPT ![v] = 0]
  /\ tick' = [tick EXCEPT ![v] = "drain"]
  /\ UNCHANGED <<source, rx, srt, primed, feedVars, recent>>

(* The drain: a message goes to push_message; a lag is counted and ends the *)
(* drain, as does an empty ring; a closed channel ends the session.         *)
DrainMessage(v) ==
  /\ tick[v] = "drain" /\ budget[v] > 0 /\ Message(v)
  /\ Advance(v)
  /\ budget' = [budget EXCEPT ![v] = @ - 1]
  /\ drained' = [drained EXCEPT ![v] = @ + 1]
  /\ UNCHANGED <<source, rx, srt, primed, recent, credits, tick, rate>>

DrainLagged(v) ==
  /\ tick[v] = "drain" /\ budget[v] > 0 /\ Lagged(v)
  /\ Advance(v)
  /\ budget' = [budget EXCEPT ![v] = 0]
  /\ UNCHANGED <<source, rx, srt, primed, recent, credits, tick, rate, drained>>

DrainEmpty(v) ==
  /\ tick[v] = "drain" /\ budget[v] > 0 /\ NothingLeft(v)
  /\ srt' = [srt EXCEPT ![v] = IF source = "ended" THEN "finished" ELSE @]
  /\ budget' = [budget EXCEPT ![v] = 0]
  /\ UNCHANGED <<source, rx, primed, feedVars, recent, credits, tick, rate, drained>>

(* The credits of what was drained are debited.                             *)
Debit(v) ==
  /\ tick[v] = "drain" /\ budget[v] = 0
  /\ credits' = [credits EXCEPT ![v] = @ - drained[v] * Unit]
  /\ tick' = [tick EXCEPT ![v] = "idle"]
  /\ UNCHANGED <<source, rx, srt, primed, feedVars, recent, rate, budget, drained>>

TickNext(v) ==
  \/ TickStart(v) \/ Prime(v) \/ Budget(v)
  \/ DrainMessage(v) \/ DrainLagged(v) \/ DrainEmpty(v) \/ Debit(v)

Next ==
  \/ Send \/ Settle \/ End
  \/ \E v \in Viewer : Subscribe(v) \/ Connect(v) \/ Leave(v) \/ TickNext(v)

(* The ticker comes by every 2 ms.  The source and the sessions promise     *)
(* nothing.                                                                 *)
Fairness == \A v \in Viewer : WF_vars(TickNext(v))

Spec == Init /\ [][Next]_vars /\ Fairness

-----------------------------------------------------------------------------
(* Every variable has the type its code counterpart has; in particular the  *)
(* credits are never negative, and never worth more than one full tick.     *)
TypeOK ==
  /\ source \in {"live", "steady", "dying", "ended"}
  /\ rx \in [Viewer -> {"none", "open", "gone"}]
  /\ srt \in [Viewer -> {"handshaking", "connected", "finished"}]
  /\ primed \in [Viewer -> BOOLEAN]
  /\ behind \in [Viewer -> 0..Capacity]
  /\ overrun \in [Viewer -> BOOLEAN]
  /\ stale \in [Viewer -> 0..Capacity]
  /\ recent \in [Viewer -> 0..Rate]
  /\ credits \in [Viewer -> 0..MaxPerTick * Unit]
  /\ tick \in [Viewer -> {"idle", "prime", "budget", "drain"}]
  /\ rate \in [Viewer -> Estimates \cup {0, Rate}]
  /\ budget \in [Viewer -> 0..MaxPerTick]
  /\ drained \in [Viewer -> 0..MaxPerTick]

(* A viewer starts from the live edge: no message that was sent before its  *)
(* handshake was complete is ever pushed to it, however far it had fallen   *)
(* behind by then (broadcaster.rs:266-279, registry.rs:328-333).            *)
StartsAtTheLiveEdge == \A v \in Viewer : tick[v] = "drain" => stale[v] = 0

(* Every connected viewer of a stream that has ended gets what is left in   *)
(* the ring and is then let go; the credits that takes keep coming although *)
(* a stream that has ended has no rate (registry.rs:334-395,                *)
(* broadcaster.rs:62-66).                                                   *)
ViewersAreLetGo ==
  \A v \in Viewer :
    (source = "ended" /\ rx[v] = "open" /\ srt[v] = "connected") ~>
      (srt[v] = "finished" \/ rx[v] = "gone")

(* What the overhead is for (registry.rs:46-49): behind a steady source, a   *)
(* viewer whose backlog still fits the ring works it off, although the EWMA *)
(* has lagged.                                                              *)
BacklogInRingShrinks ==
  \A v \in Viewer :
    (/\ source = "steady" /\ rx[v] = "open" /\ srt[v] = "connected"
     /\ ~overrun[v] /\ behind[v] + 2 * Rate <= Capacity) ~>
      (behind[v] = 0 \/ rx[v] = "gone" \/ source # "steady")

(* "a ring backlog shrinks instead of persisting" (registry.rs:46-49), for   *)
(* any backlog.  It does not: a viewer whose ring is full is told that it   *)
(* has lagged, which ends the drain, and before the next tick the source    *)
(* has overrun it again.                                                    *)
BacklogShrinks ==
  \A v \in Viewer :
    (source = "steady" /\ rx[v] = "open" /\ srt[v] = "connected") ~>
      (behind[v] = 0 \/ rx[v] = "gone" \/ source # "steady")
=============================================================================
