------------------------- MODULE ViewerFeed_proofs -------------------------
(***************************************************************************)
(* The drain credits stay within their bounds, and a viewer starts at the  *)
(* live edge, for any ring, any rates and any number of viewers.           *)
(***************************************************************************)
EXTENDS ViewerFeed, TLAPS

(* The credits cover what a tick has drained and may still drain.           *)
CreditsCover ==
  \A v \in Viewer :
    tick[v] = "drain" => (drained[v] + budget[v]) * Unit <= credits[v]

(* A tick is primed before it drains; once it is, nothing is left of what   *)
(* was sent before the handshake.                                           *)
PrimedOK ==
  \A v \in Viewer :
    /\ tick[v] # "idle" => primed[v]
    /\ primed[v] => srt[v] # "handshaking"
    /\ primed[v] /\ tick[v] # "prime" => stale[v] = 0

(* Stale messages are unread ones, and an overrun ring is a full one.       *)
RingOK ==
  \A v \in Viewer :
    /\ stale[v] <= behind[v]
    /\ overrun[v] => behind[v] = Capacity

IInv == TypeOK /\ CreditsCover /\ PrimedOK /\ RingOK

-----------------------------------------------------------------------------
LEMMA Numbers ==
  /\ Capacity \in Nat /\ Capacity > 0 /\ MaxPerTick \in Nat /\ MaxPerTick > 0
  /\ Unit \in Nat /\ Unit > 0 /\ Rate \in Nat /\ Rate > 0
  /\ DefaultRate \in Nat /\ DefaultRate > 0 /\ Overhead \in Nat /\ Overhead > 0
  /\ Estimates \cup {0, Rate} \subseteq Nat
<1>1. {Capacity, MaxPerTick, Unit, Rate, DefaultRate, Overhead} \subseteq Nat \ {0}
  BY NumbersAssumption
<1>2. \A n \in {Capacity, MaxPerTick, Unit, Rate, DefaultRate, Overhead} : n \in Nat /\ n > 0
  BY <1>1
<1>3. Estimates \cup {0, Rate} \subseteq Nat
  <2>1. Estimates \subseteq Nat /\ Rate \in Nat /\ 0 \in Nat
    BY <1>2, NumbersAssumption
  <2>2. QED
    BY <2>1
<1>4. QED
  BY <1>2, <1>3

(* Multiples of a unit: they are natural, ordered as their factors, and    *)
(* distribute over sums.                                                   *)
LEMMA ProductType == ASSUME NEW a \in Nat, NEW u \in Nat PROVE a * u \in Nat
OBVIOUS

LEMMA ProductOrder == ASSUME NEW a \in Nat, NEW b \in Nat, NEW u \in Nat, a <= b PROVE a * u <= b * u
OBVIOUS

LEMMA ProductCancel ==
  ASSUME NEW a \in Nat, NEW b \in Nat, NEW u \in Nat, u > 0, a * u <= b * u PROVE a <= b
OBVIOUS

LEMMA Quotient ==
  ASSUME NEW c \in Nat, NEW u \in Nat, u > 0
  PROVE  c \div u \in Nat /\ (c \div u) * u <= c
OBVIOUS

(* What Whole makes of credits is worth no more than they are, and no more  *)
(* than a full tick.                                                        *)
LEMMA WholeBound ==
  ASSUME NEW c \in Nat, c <= MaxPerTick * Unit
  PROVE  Whole(c) \in Nat /\ Whole(c) <= MaxPerTick /\ Whole(c) * Unit <= c
<1>1. Whole(c) \in Nat /\ Whole(c) * Unit <= c
  BY Numbers, Quotient DEF Whole
<1>2. Whole(c) * Unit \in Nat /\ MaxPerTick * Unit \in Nat
  BY <1>1, Numbers, ProductType
<1>3. Whole(c) * Unit <= MaxPerTick * Unit
  BY <1>1, <1>2
<1>4. QED
  BY <1>1, <1>3, Numbers, ProductCancel

LEMMA EarnedType == ASSUME NEW r \in Nat PROVE Earned(r) \in Nat
<1>1. r * Unit \in Nat /\ DefaultRate * Unit \in Nat
  BY Numbers, ProductType
<1>2. QED
  BY <1>1, Numbers DEF Earned

-----------------------------------------------------------------------------
LEMMA InitEstablishes == Init => IInv
<1> SUFFICES ASSUME Init PROVE IInv
  OBVIOUS
<1>1. overrun \in [Viewer -> BOOLEAN] /\ primed \in [Viewer -> BOOLEAN]
  BY Zenon DEF Init
<1>2. 0 \in 0..MaxPerTick * Unit
  BY Numbers, ProductType
<1>3. TypeOK
  BY <1>1, <1>2, Numbers DEF Init, TypeOK
<1>4. CreditsCover /\ PrimedOK /\ RingOK
  BY <1>1, Numbers DEF Init, CreditsCover, PrimedOK, RingOK
<1>5. QED
  BY <1>3, <1>4 DEF IInv

(* The broadcaster and the coming and going of viewers.                     *)
LEMMA SendKeeps == ASSUME IInv, Send PROVE IInv'
<1> USE Numbers DEF IInv, TypeOK
<1>1. overrun' \in [Viewer -> BOOLEAN]
      /\ \A v \in Viewer : overrun'[v] <=> overrun[v] \/ (rx[v] = "open" /\ behind[v] = Capacity)
  BY Zenon DEF Send
<1>2. /\ behind' \in [Viewer -> 0..Capacity] /\ stale' \in [Viewer -> 0..Capacity]
      /\ recent' \in [Viewer -> 0..Rate]
  <2>1. \A v \in Viewer :
          /\ behind[v] \in 0..Capacity /\ stale[v] \in 0..Capacity /\ recent[v] \in 0..Rate
    OBVIOUS
  <2>2. \A n \in 0..Capacity : Lesser(n + 1, Capacity) \in 0..Capacity /\ Less1(n) \in 0..Capacity
    BY DEF Lesser, Less1
  <2>3. \A n \in 0..Rate : Lesser(n + 1, Rate) \in 0..Rate
    BY DEF Lesser
  <2>4. QED
    BY <2>1, <2>2, <2>3 DEF Send
<1>3. TypeOK'
  BY <1>1, <1>2 DEF Send, tickVars
<1>4. CreditsCover'
  BY DEF Send, tickVars, CreditsCover
<1>5. PrimedOK'
  BY DEF Send, tickVars, PrimedOK, Less1
<1>6. RingOK'
  BY <1>1 DEF Send, RingOK, Lesser, Less1
<1>7. QED
  BY <1>3, <1>4, <1>5, <1>6

LEMMA EnvironmentKeeps ==
  ASSUME IInv, NEW v \in Viewer, Settle \/ End \/ Subscribe(v) \/ Connect(v) \/ Leave(v)
  PROVE  IInv'
<1> USE Numbers
    DEF IInv, TypeOK, CreditsCover, PrimedOK, RingOK, feedVars, tickVars
<1>1. CASE Settle
  BY <1>1 DEF Settle
<1>2. CASE End
  BY <1>2 DEF End
<1>3. CASE Subscribe(v)
  BY <1>3 DEF Subscribe
<1>4. CASE Connect(v)
  BY <1>4 DEF Connect
<1>5. CASE Leave(v)
  BY <1>5 DEF Leave
<1>6. QED
  BY <1>1, <1>2, <1>3, <1>4, <1>5

(* try_recv on a ring that is not empty.                                    *)
LEMMA AdvanceKeeps ==
  ASSUME IInv, NEW v \in Viewer, Advance(v), ~NothingLeft(v)
  PROVE  /\ behind' \in [Viewer -> 0..Capacity] /\ stale' \in [Viewer -> 0..Capacity]
         /\ overrun' \in [Viewer -> BOOLEAN]
         /\ RingOK'
         /\ \A u \in Viewer : stale[u] = 0 => stale'[u] = 0
<1> USE Numbers DEF IInv, TypeOK
<1>1. /\ overrun' \in [Viewer -> BOOLEAN] /\ ~overrun'[v]
      /\ \A u \in Viewer \ {v} : overrun'[u] => overrun[u]
  <2>1. overrun \in [Viewer -> BOOLEAN] /\ overrun' = [overrun EXCEPT ![v] = FALSE]
    BY DEF Advance
  <2>2. QED
    BY <2>1, Zenon
<1>2. /\ behind' = [behind EXCEPT ![v] = IF overrun[v] THEN @ ELSE @ - 1]
      /\ stale' = [stale EXCEPT ![v] = IF overrun[v] THEN @ ELSE Less1(@)]
      /\ overrun[v] \/ behind[v] > 0
  BY DEF Advance, NothingLeft
<1>3. /\ behind' \in [Viewer -> 0..Capacity] /\ stale' \in [Viewer -> 0..Capacity]
      /\ \A u \in Viewer : stale[u] = 0 => stale'[u] = 0
  <2>1. CASE overrun[v]
    BY <1>2, <2>1
  <2>2. CASE ~overrun[v]
    <3>1. behind[v] - 1 \in 0..Capacity /\ Less1(stale[v]) \in 0..Capacity
          /\ (stale[v] = 0 => Less1(stale[v]) = 0)
      BY <1>2, <2>2 DEF Less1
    <3>2. behind' = [behind EXCEPT ![v] = behind[v] - 1]
          /\ stale' = [stale EXCEPT ![v] = Less1(stale[v])]
      BY <1>2, <2>2
    <3>3. QED
      BY <3>1, <3>2
  <2>3. QED
    BY <2>1, <2>2
<1>4. RingOK'
  BY <1>1, <1>2 DEF RingOK, Less1
<1>5. QED
  BY <1>1, <1>3, <1>4

(* The steps of a tick.                                                     *)
LEMMA TickKeeps == ASSUME IInv, NEW v \in Viewer, TickNext(v) PROVE IInv'
<1> USE Numbers DEF IInv, TypeOK
<1>1. CASE TickStart(v)
  <2>1. primed' \in [Viewer -> BOOLEAN] /\ primed'[v]
        /\ \A u \in Viewer \ {v} : primed'[u] <=> primed[u]
    <3>1. primed \in [Viewer -> BOOLEAN] /\ primed' = [primed EXCEPT ![v] = TRUE]
      BY <1>1 DEF TickStart
    <3>2. QED
      BY <3>1, Zenon
  <2>2. TypeOK'
    <3>1. EwmaRates \subseteq Estimates \cup {0, Rate}
      BY DEF EwmaRates
    <3>2. rate' \in [Viewer -> Estimates \cup {0, Rate}]
      BY <1>1, <3>1 DEF TickStart
    <3>3. QED
      BY <1>1, <2>1, <3>2 DEF TickStart, feedVars
  <2>3. CreditsCover' /\ RingOK'
    BY <1>1 DEF TickStart, CreditsCover, RingOK, feedVars
  <2>4. PrimedOK'
    BY <1>1, <2>1 DEF TickStart, PrimedOK, feedVars
  <2>5. QED
    BY <2>2, <2>3, <2>4
<1>2. CASE Prime(v)
  <2>1. CASE NothingLeft(v)
    BY <1>2, <2>1 DEF Prime, NothingLeft, feedVars, CreditsCover, PrimedOK, RingOK
  <2>2. CASE ~NothingLeft(v)
    <3>1. Advance(v)
      BY <1>2, <2>2 DEF Prime
    <3>2. QED
      BY <1>2, <2>2, <3>1, AdvanceKeeps DEF Prime, CreditsCover, PrimedOK
  <2>3. QED
    BY <2>1, <2>2
<1>3. CASE Budget(v)
  <2> DEFINE c == Lesser(credits[v] + Earned(rate[v]), MaxPerTick * Unit)
  <2>1. c \in Nat /\ c <= MaxPerTick * Unit
    <3>1. rate[v] \in Nat /\ credits[v] \in Nat /\ MaxPerTick * Unit \in Nat
      BY ProductType
    <3>2. Earned(rate[v]) \in Nat
      BY <3>1, EarnedType
    <3>3. QED
      BY <3>1, <3>2 DEF Lesser
  <2>2. /\ credits' = [credits EXCEPT ![v] = c] /\ budget' = [budget EXCEPT ![v] = Whole(c)]
        /\ drained' = [drained EXCEPT ![v] = 0]
    BY <1>3 DEF Budget
  <2>3. Whole(c) \in Nat /\ Whole(c) <= MaxPerTick /\ Whole(c) * Unit <= c
    BY <2>1, WholeBound
  <2> HIDE DEF c
  <2>4. TypeOK'
    BY <1>3, <2>1, <2>2, <2>3 DEF Budget, feedVars
  <2>5. CreditsCover'
    BY <1>3, <2>1, <2>2, <2>3 DEF Budget, CreditsCover
  <2>6. PrimedOK' /\ RingOK'
    BY <1>3 DEF Budget, PrimedOK, RingOK, feedVars
  <2>7. QED
    BY <2>4, <2>5, <2>6
<1>4. CASE DrainMessage(v)
  <2>1. Advance(v) /\ ~NothingLeft(v)
    BY <1>4 DEF DrainMessage, Message, NothingLeft
  <2>2. /\ behind' \in [Viewer -> 0..Capacity] /\ stale' \in [Viewer -> 0..Capacity]
        /\ overrun' \in [Viewer -> BOOLEAN] /\ RingOK'
        /\ \A u \in Viewer : stale[u] = 0 => stale'[u] = 0
    BY <2>1, AdvanceKeeps
  <2>3. drained'[v] + budget'[v] = drained[v] + budget[v]
    BY <1>4 DEF DrainMessage
  <2>4. drained[v] + 1 <= MaxPerTick
    <3>1. /\ drained[v] \in Nat /\ budget[v] \in Nat /\ budget[v] > 0
          /\ credits[v] \in Nat /\ credits[v] <= MaxPerTick * Unit
          /\ (drained[v] + budget[v]) * Unit <= credits[v]
      BY <1>4 DEF DrainMessage, CreditsCover
    <3>2. drained[v] + budget[v] \in Nat
      BY <3>1
    <3>3. (drained[v] + budget[v]) * Unit \in Nat /\ MaxPerTick * Unit \in Nat
      BY <3>2, ProductType
    <3>4. (drained[v] + budget[v]) * Unit <= MaxPerTick * Unit
      BY <3>1, <3>3
    <3>5. drained[v] + budget[v] <= MaxPerTick
      BY <3>2, <3>4, ProductCancel
    <3>6. QED
      BY <3>1, <3>5
  <2>5. TypeOK'
    <3>1. budget[v] - 1 \in 0..MaxPerTick /\ drained[v] + 1 \in 0..MaxPerTick
      BY <1>4, <2>4 DEF DrainMessage
    <3>2. budget' \in [Viewer -> 0..MaxPerTick] /\ drained' \in [Viewer -> 0..MaxPerTick]
      BY <1>4, <3>1 DEF DrainMessage
    <3>3. QED
      BY <1>4, <2>2, <3>2 DEF DrainMessage
  <2>6. CreditsCover'
    BY <1>4, <2>3 DEF DrainMessage, CreditsCover
  <2>7. PrimedOK'
    BY <1>4, <2>2 DEF DrainMessage, PrimedOK
  <2>8. QED
    BY <2>2, <2>5, <2>6, <2>7
<1>5. CASE DrainLagged(v) \/ DrainEmpty(v)
  <2>1. /\ behind' \in [Viewer -> 0..Capacity] /\ stale' \in [Viewer -> 0..Capacity]
        /\ overrun' \in [Viewer -> BOOLEAN] /\ RingOK'
        /\ \A u \in Viewer : stale[u] = 0 => stale'[u] = 0
    <3>1. CASE DrainLagged(v)
      BY <3>1, AdvanceKeeps DEF DrainLagged, Lagged, NothingLeft
    <3>2. CASE DrainEmpty(v)
      BY <3>2 DEF DrainEmpty, feedVars, RingOK
    <3>3. QED
      BY <1>5, <3>1, <3>2
  <2>2. /\ budget' = [budget EXCEPT ![v] = 0]
        /\ UNCHANGED <<source, rx, primed, recent, credits, tick, rate, drained>>
        /\ srt' \in [Viewer -> {"handshaking", "connected", "finished"}]
        /\ \A u \in Viewer : srt[u] # "handshaking" => srt'[u] # "handshaking"
    BY <1>5 DEF DrainLagged, DrainEmpty
  <2>3. TypeOK'
    BY <2>1, <2>2
  <2>4. CreditsCover'
    <3> SUFFICES ASSUME NEW u \in Viewer, tick[u] = "drain"
                 PROVE  (drained[u] + budget'[u]) * Unit <= credits[u]
      BY <2>2 DEF CreditsCover
    <3>1. /\ drained[u] \in Nat /\ budget[u] \in Nat /\ budget'[u] \in Nat
          /\ budget'[u] <= budget[u] /\ credits[u] \in Nat
          /\ (drained[u] + budget[u]) * Unit <= credits[u]
      BY <2>2 DEF CreditsCover
    <3>2. /\ drained[u] + budget[u] \in Nat /\ drained[u] + budget'[u] \in Nat
          /\ drained[u] + budget'[u] <= drained[u] + budget[u]
      BY <3>1
    <3>3. (drained[u] + budget'[u]) * Unit <= (drained[u] + budget[u]) * Unit
      BY <3>2, ProductOrder
    <3>4. (drained[u] + budget'[u]) * Unit \in Nat /\ (drained[u] + budget[u]) * Unit \in Nat
      BY <3>2, ProductType
    <3>5. QED
      BY <3>1, <3>3, <3>4
  <2>5. PrimedOK'
    BY <2>1, <2>2 DEF PrimedOK
  <2>6. QED
    BY <2>1, <2>3, <2>4, <2>5
<1>6. CASE Debit(v)
  <2>1. credits[v] - drained[v] * Unit \in 0..MaxPerTick * Unit
    <3>1. /\ drained[v] \in Nat /\ budget[v] = 0 /\ credits[v] \in 0..MaxPerTick * Unit
          /\ (drained[v] + budget[v]) * Unit <= credits[v]
      BY <1>6 DEF Debit, CreditsCover
    <3>2. drained[v] + budget[v] = drained[v]
      BY <3>1
    <3>3. drained[v] * Unit \in Nat /\ MaxPerTick * Unit \in Nat
      BY <3>1, ProductType
    <3>4. QED
      BY <3>1, <3>2, <3>3
  <2>2. TypeOK'
    BY <1>6, <2>1 DEF Debit, feedVars
  <2>3. CreditsCover' /\ PrimedOK' /\ RingOK'
    BY <1>6 DEF Debit, CreditsCover, PrimedOK, RingOK, feedVars
  <2>4. QED
    BY <2>2, <2>3
<1>7. QED
  BY <1>1, <1>2, <1>3, <1>4, <1>5, <1>6 DEF TickNext

(* IInv is an inductive invariant of the feed (registry.rs:314-397).        *)
THEOREM Inductive == Spec => []IInv
<1>1. IInv /\ UNCHANGED vars => IInv'
  BY DEF IInv, TypeOK, CreditsCover, PrimedOK, RingOK, vars, feedVars, tickVars
<1>2. IInv /\ [Next]_vars => IInv'
  <2>1. CASE Viewer = {} /\ (Settle \/ End)
    BY ZenonT(40), <2>1 DEF Settle, End, IInv, TypeOK, CreditsCover, PrimedOK, RingOK, feedVars, tickVars
  <2>2. QED
    BY <1>1, <2>1, SendKeeps, EnvironmentKeeps, TickKeeps DEF Next
<1>3. QED
  BY <1>2, InitEstablishes, PTL DEF Spec

(* The arithmetic of the drain credits is sound for any rates and caps:     *)
(* they are never negative, never worth more than a full tick, and a tick   *)
(* never drains more than MAX_MSGS_PER_TICK (registry.rs:334-395).          *)
THEOREM CreditsInBounds == Spec => []TypeOK
BY Inductive, PTL DEF IInv

(* No message from before a viewer's handshake is pushed to it, for any     *)
(* depth of the ring and however often it was overrun meanwhile             *)
(* (broadcaster.rs:266-279, registry.rs:328-333).                           *)
THEOREM ViewersStartLive == Spec => []StartsAtTheLiveEdge
<1>1. IInv => StartsAtTheLiveEdge
  BY DEF IInv, PrimedOK, StartsAtTheLiveEdge
<1>2. QED
  BY <1>1, Inductive, PTL
=============================================================================
