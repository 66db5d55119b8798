---------------------- MODULE ConnectionTracker_proofs ----------------------
(***************************************************************************)
(* The counters of the connection tracker agree with the guards alive, the *)
(* caps hold, and the tracker implements SlotPool, for any number of tasks *)
(* and any caps.                                                           *)
(***************************************************************************)
EXTENDS ConnectionTracker, FiniteSetTheorems, TLAPS

(* The tasks the global counter counts: those with a reservation. *)
Counted == {c \in Conn : pc[c] \in {"undo", "insert", "held", "subtract"}}

(* Only one task is inside the mutex. *)
Exclusion ==
  \A c, d \in Conn : pc[c] \in Critical /\ pc[d] \in Critical => c = d

AddrKnown == \A c \in Conn : pc[c] # "idle" => addr[c] \in Addr

Counters ==
  /\ total = Cardinality(Counted)
  /\ \A k \in Addr : perIp[k] = Cardinality(GuardsIn(k))

(* What the task inside the mutex has already checked. *)
Checked ==
  /\ MaxPerIp # NoLimit =>
       /\ \A k \in Addr : perIp[k] <= MaxPerIp
       /\ \A c \in Conn : pc[c] \in {"reserve", "insert"} =>
            perIp[LimitKey(addr[c])] < MaxPerIp
  /\ MaxSessions # NoLimit =>
       /\ (\A c \in Conn : pc[c] # "undo") => total <= MaxSessions
       /\ \A c \in Conn : pc[c] = "undo" => total = MaxSessions + 1
  /\ MaxSessions = NoLimit => \A c \in Conn : pc[c] # "undo"

IInv == TypeOK /\ Exclusion /\ AddrKnown /\ Counters /\ Checked

-----------------------------------------------------------------------------
(* A set that gains or loses one element. *)
LEMMA GainOne ==
  ASSUME NEW S, NEW T, NEW c, IsFiniteSet(S), c \notin S, T = S \cup {c}
  PROVE  Cardinality(T) = Cardinality(S) + 1
BY FS_AddElement

LEMMA LoseOne ==
  ASSUME NEW S, NEW T, NEW c, IsFiniteSet(S), c \in S, T = S \ {c}
  PROVE  Cardinality(T) = Cardinality(S) - 1
BY FS_RemoveElement

(* The sets of tasks the counters count are finite. *)
LEMMA TaskSetsFinite ==
  /\ IsFiniteSet(Counted) /\ Cardinality(Counted) \in Nat
  /\ IsFiniteSet(Guards) /\ Cardinality(Guards) \in Nat
  /\ \A k : IsFiniteSet(GuardsIn(k)) /\ Cardinality(GuardsIn(k)) \in Nat
<1>1. Counted \subseteq Conn /\ Guards \subseteq Conn
  BY DEF Counted, Guards
<1>2. \A k : GuardsIn(k) \subseteq Conn
  BY DEF GuardsIn, Guards
<1>3. \A T \in SUBSET Conn : IsFiniteSet(T) /\ Cardinality(T) \in Nat
  BY FS_Subset, FS_CardinalityType, ConnIsFinite
<1>4. QED
  BY <1>1, <1>2, <1>3

(* The key of an address is itself an address, so it indexes per_ip. *)
LEMMA LimitKeyType == \A a \in Addr : LimitKey(a) \in Addr
BY AddrAssumption DEF LimitKey, Addr

-----------------------------------------------------------------------------
LEMMA InitEstablishes == Init => IInv
<1> SUFFICES ASSUME Init PROVE IInv
  OBVIOUS
<1>1. TypeOK /\ Exclusion /\ AddrKnown
  BY DEF Init, TypeOK, PCs, Exclusion, Critical, AddrKnown
<1>2. Counted = {} /\ \A k : GuardsIn(k) = {}
  BY DEF Init, Counted, GuardsIn, Guards
<1>3. Counters
  BY <1>2, FS_EmptySet DEF Counters, Init
<1>4. Checked
  BY LimitsAssumption, LimitKeyType DEF Init, Checked
<1>5. QED
  BY <1>1, <1>3, <1>4 DEF IInv

(* The invariant survives each of the seven steps. *)
LEMMA CheckPerIpKeeps ==
  ASSUME IInv, NEW c \in Conn, NEW a \in Addr, CheckPerIp(c, a)
  PROVE  IInv'
<1> USE DEF IInv, CheckPerIp
<1>1. TypeOK'
  BY DEF TypeOK, PCs, Critical
<1>2. Exclusion' /\ AddrKnown'
  BY DEF Exclusion, AddrKnown, TypeOK, MutexFree
<1>3. Counted' = Counted /\ \A k : GuardsIn(k)' = GuardsIn(k)
  BY DEF Counted, GuardsIn, Guards, TypeOK
<1>4. Counters'
  BY <1>3 DEF Counters
<1>5. Checked'
  <2>1. pc[c] = "idle" /\ pc'[c] \in {"reserve", "rejected"}
        /\ \A d \in Conn \ {c} : pc'[d] = pc[d] /\ addr'[d] = addr[d]
    BY DEF TypeOK
  <2>2. pc'[c] = "reserve" => HasRoom(perIp[LimitKey(a)], MaxPerIp) /\ addr'[c] = a
    BY DEF TypeOK
  <2>3. QED
    BY <2>1, <2>2 DEF Checked, HasRoom
<1>6. QED
  BY <1>1, <1>2, <1>4, <1>5

LEMMA ReserveKeeps ==
  ASSUME IInv, NEW c \in Conn, Reserve(c)
  PROVE  IInv'
<1> USE DEF IInv, Reserve
<1>1. TypeOK'
  BY DEF TypeOK, PCs, Critical
<1>2. Exclusion' /\ AddrKnown'
  BY DEF Exclusion, AddrKnown, TypeOK, Critical
<1>3. Counted' = Counted \cup {c} /\ c \notin Counted
  BY DEF Counted, TypeOK
<1>4. \A k : GuardsIn(k)' = GuardsIn(k)
  BY DEF GuardsIn, Guards, TypeOK
<1>5. Counters'
  <2>1. Cardinality(Counted') = Cardinality(Counted) + 1
    BY <1>3, GainOne, TaskSetsFinite
  <2>2. QED
    BY <2>1, <1>4 DEF Counters
<1>6. Checked'
  <2>1. \A d \in Conn : pc[d] # "undo"
    BY DEF Exclusion, Critical
  <2>2. /\ pc'[c] = IF Over(total + 1, MaxSessions) THEN "undo" ELSE "insert"
        /\ \A d \in Conn \ {c} : pc'[d] = pc[d]
    BY DEF TypeOK
  <2>3. MaxSessions # NoLimit => total <= MaxSessions
    BY <2>1 DEF Checked
  <2>4. MaxSessions # NoLimit =>
          /\ (\A d \in Conn : pc'[d] # "undo") => total' <= MaxSessions
          /\ \A d \in Conn : pc'[d] = "undo" => total' = MaxSessions + 1
    BY <2>1, <2>2, <2>3, LimitsAssumption DEF Over, TypeOK
  <2>5. MaxSessions = NoLimit => \A d \in Conn : pc'[d] # "undo"
    BY <2>1, <2>2 DEF Over
  <2>6. MaxPerIp # NoLimit =>
          /\ \A k \in Addr : perIp'[k] <= MaxPerIp
          /\ \A d \in Conn : pc'[d] \in {"reserve", "insert"} =>
               perIp'[LimitKey(addr'[d])] < MaxPerIp
    BY <2>2 DEF Checked
  <2>7. QED
    BY <2>4, <2>5, <2>6 DEF Checked
<1>7. QED
  BY <1>1, <1>2, <1>5, <1>6

LEMMA UndoKeeps ==
  ASSUME IInv, NEW c \in Conn, Undo(c)
  PROVE  IInv'
<1> USE DEF IInv, Undo
<1>1. Counted' = Counted \ {c} /\ c \in Counted
  BY DEF Counted, TypeOK
<1>2. \A k : GuardsIn(k)' = GuardsIn(k)
  BY DEF GuardsIn, Guards, TypeOK
<1>3. Counters'
  <2>1. Cardinality(Counted') = Cardinality(Counted) - 1
    BY <1>1, LoseOne, TaskSetsFinite
  <2>2. QED
    BY <2>1, <1>2 DEF Counters
<1>4. TypeOK'
  <2>1. total' \in Nat
    <3>1. IsFiniteSet(Counted')
      BY <1>1, TaskSetsFinite, FS_RemoveElement
    <3>2. QED
      BY <3>1, <1>3, FS_CardinalityType DEF Counters
  <2>2. QED
    BY <2>1 DEF TypeOK, PCs, Critical
<1>5. Exclusion' /\ AddrKnown'
  BY DEF Exclusion, AddrKnown, TypeOK, Critical
<1>6. Checked'
  <2>1. \A d \in Conn \ {c} : pc[d] \notin Critical
    BY DEF Exclusion, Critical
  <2>2. pc'[c] = "rejected" /\ \A d \in Conn \ {c} : pc'[d] = pc[d]
    BY DEF TypeOK
  <2>3. \A d \in Conn : pc'[d] \notin Critical
    BY <2>1, <2>2 DEF Critical
  <2>4. MaxSessions # NoLimit => total' <= MaxSessions
    BY LimitsAssumption DEF Checked, TypeOK
  <2>5. QED
    BY <2>3, <2>4 DEF Checked, Critical
<1>7. QED
  BY <1>3, <1>4, <1>5, <1>6

LEMMA InsertKeeps ==
  ASSUME IInv, NEW c \in Conn, Insert(c)
  PROVE  IInv'
<1> USE DEF IInv, Insert
<1> DEFINE key == LimitKey(addr[c])
<1>0. key \in Addr
  BY LimitKeyType DEF AddrKnown
<1>1. TypeOK'
  BY <1>0 DEF TypeOK, PCs, Critical
<1>2. Exclusion' /\ AddrKnown'
  BY DEF Exclusion, AddrKnown, TypeOK, Critical
<1>3. Counted' = Counted
  BY DEF Counted, TypeOK
<1>4. GuardsIn(key)' = GuardsIn(key) \cup {c} /\ c \notin GuardsIn(key)
  BY DEF GuardsIn, Guards, TypeOK
<1>5. \A k \in Addr \ {key} : GuardsIn(k)' = GuardsIn(k)
  BY DEF GuardsIn, Guards, TypeOK
<1>6. Counters'
  <2>1. Cardinality(GuardsIn(key)') = Cardinality(GuardsIn(key)) + 1
    BY <1>4, GainOne, TaskSetsFinite
  <2>2. perIp'[key] = perIp[key] + 1 /\ \A k \in Addr \ {key} : perIp'[k] = perIp[k]
    BY <1>0 DEF TypeOK
  <2>3. \A k \in Addr : perIp'[k] = Cardinality(GuardsIn(k)')
    BY <2>1, <2>2, <1>0, <1>5 DEF Counters
  <2>4. QED
    BY <2>3, <1>3 DEF Counters
<1>7. Checked'
  <2>1. pc'[c] = "held" /\ \A d \in Conn \ {c} : pc'[d] = pc[d]
    BY DEF TypeOK
  <2>2. \A d \in Conn : pc'[d] \notin Critical
    BY <2>1 DEF Exclusion, Critical
  <2>3. MaxPerIp # NoLimit => \A k \in Addr : perIp'[k] <= MaxPerIp
    BY <1>0, LimitsAssumption DEF Checked, TypeOK
  <2>4. MaxSessions # NoLimit => total <= MaxSessions
    BY DEF Checked, Exclusion, Critical
  <2>5. QED
    BY <2>2, <2>3, <2>4 DEF Checked, Critical
<1>8. QED
  BY <1>1, <1>2, <1>6, <1>7

LEMMA DropGuardKeeps ==
  ASSUME IInv, NEW c \in Conn, DropGuard(c)
  PROVE  IInv'
<1> USE DEF IInv, DropGuard
<1> DEFINE key == LimitKey(addr[c])
<1>0. key \in Addr
  BY LimitKeyType DEF AddrKnown
<1>1. GuardsIn(key)' = GuardsIn(key) \ {c} /\ c \in GuardsIn(key)
  BY DEF GuardsIn, Guards, TypeOK
<1>2. \A k \in Addr \ {key} : GuardsIn(k)' = GuardsIn(k)
  BY DEF GuardsIn, Guards, TypeOK
<1>3. Counted' = Counted
  BY DEF Counted, TypeOK
<1>4. perIp[key] > 0
  BY <1>0, <1>1, TaskSetsFinite, FS_EmptySet DEF Counters
<1>5. TypeOK'
  BY <1>0, <1>4 DEF TypeOK, PCs, Critical, Saturated
<1>6. Exclusion' /\ AddrKnown'
  BY DEF Exclusion, AddrKnown, TypeOK, Critical, MutexFree
<1>7. perIp'[key] = perIp[key] - 1 /\ \A k \in Addr \ {key} : perIp'[k] = perIp[k]
  BY <1>0, <1>4 DEF TypeOK, Saturated
<1>8. Counters'
  <2>1. Cardinality(GuardsIn(key)') = Cardinality(GuardsIn(key)) - 1
    BY <1>1, LoseOne, TaskSetsFinite
  <2>2. \A k \in Addr : perIp'[k] = Cardinality(GuardsIn(k)')
    BY <2>1, <1>0, <1>2, <1>7 DEF Counters
  <2>3. QED
    BY <2>2, <1>3 DEF Counters
<1>9. Checked'
  <2>1. \A d \in Conn : pc'[d] \notin {"reserve", "undo", "insert"}
    BY DEF TypeOK, MutexFree, Critical
  <2>2. MaxPerIp # NoLimit => \A k \in Addr : perIp'[k] <= MaxPerIp
    BY <1>0, <1>7, LimitsAssumption DEF Checked, TypeOK
  <2>3. MaxSessions # NoLimit => total <= MaxSessions
    BY DEF Checked, MutexFree, Critical
  <2>4. QED
    BY <2>1, <2>2, <2>3 DEF Checked
<1>10. QED
  BY <1>5, <1>6, <1>8, <1>9

LEMMA SubtractKeeps ==
  ASSUME IInv, NEW c \in Conn, Subtract(c)
  PROVE  IInv'
<1> USE DEF IInv, Subtract
<1>1. Counted' = Counted \ {c} /\ c \in Counted
  BY DEF Counted, TypeOK
<1>2. \A k : GuardsIn(k)' = GuardsIn(k)
  BY DEF GuardsIn, Guards, TypeOK
<1>3. total > 0
  BY <1>1, TaskSetsFinite, FS_EmptySet DEF Counters
<1>4. total' = total - 1
  BY <1>3 DEF Saturated
<1>5. TypeOK'
  BY <1>3, <1>4 DEF TypeOK, PCs, Critical
<1>6. Exclusion' /\ AddrKnown'
  BY DEF Exclusion, AddrKnown, TypeOK, Critical
<1>7. Counters'
  <2>1. Cardinality(Counted') = Cardinality(Counted) - 1
    BY <1>1, LoseOne, TaskSetsFinite
  <2>2. QED
    BY <2>1, <1>2, <1>4 DEF Counters
<1>8. Checked'
  <2>1. \A d \in Conn : pc'[d] \notin Critical /\ pc[d] # "undo"
    BY DEF Exclusion, Critical, TypeOK
  <2>2. MaxSessions # NoLimit => total' <= MaxSessions
    BY <2>1, <1>4, LimitsAssumption DEF Checked, TypeOK
  <2>3. QED
    BY <2>1, <2>2 DEF Checked, Critical
<1>9. QED
  BY <1>5, <1>6, <1>7, <1>8

LEMMA Answer429Keeps ==
  ASSUME IInv, NEW c \in Conn, Answer429(c)
  PROVE  IInv'
<1> USE DEF IInv, Answer429
<1>1. TypeOK' /\ Exclusion' /\ AddrKnown'
  BY DEF TypeOK, PCs, Critical, Exclusion, AddrKnown
<1>2. Counted' = Counted /\ \A k : GuardsIn(k)' = GuardsIn(k)
  BY DEF Counted, GuardsIn, Guards, TypeOK
<1>3. Counters'
  BY <1>2 DEF Counters
<1>4. pc'[c] = "idle" /\ \A d \in Conn \ {c} : pc'[d] = pc[d] /\ addr'[d] = addr[d]
  BY DEF TypeOK
<1>5. Checked'
  BY <1>4 DEF Checked
<1>6. QED
  BY <1>1, <1>3, <1>5

LEMMA StepKeeps == IInv /\ [Next]_vars => IInv'
<1> SUFFICES ASSUME IInv, [Next]_vars PROVE IInv'
  OBVIOUS
<1>1. CASE UNCHANGED vars
  BY <1>1 DEF vars, IInv, TypeOK, Exclusion, AddrKnown, Counters, Checked,
              Counted, GuardsIn, Guards
<1>2. CASE Next
  BY <1>2, CheckPerIpKeeps, ReserveKeeps, UndoKeeps, InsertKeeps,
     DropGuardKeeps, SubtractKeeps, Answer429Keeps DEF Next
<1>3. QED
  BY <1>1, <1>2

(* The strengthened invariant holds in every reachable state. *)
THEOREM Inductive == Spec => []IInv
BY InitEstablishes, StepKeeps, PTL DEF Spec

-----------------------------------------------------------------------------
(* perIp, total and the tasks' phases keep their types. *)
THEOREM TypeCorrect == Spec => []TypeOK
BY Inductive, PTL DEF IInv

(* Slots neither leak nor are released twice: with the mutex free the      *)
(* counters equal the number of guards alive (limits.rs:215-257).          *)
THEOREM AccountingHolds == Spec => []Accounting
<1>1. IInv => Accounting
  <2> SUFFICES ASSUME IInv, MutexFree PROVE Counted = Guards
    BY DEF IInv, Counters, Accounting
  <2>1. QED
    BY DEF MutexFree, Critical, Counted, Guards
<1>2. QED
  BY <1>1, Inductive, PTL

(* A smaller set of tasks is not more numerous. *)
LEMMA FewerTasks ==
  ASSUME NEW S, NEW T, IsFiniteSet(S), T \subseteq S
  PROVE  Cardinality(T) \in Nat /\ Cardinality(T) <= Cardinality(S)
BY FS_Subset, FS_CardinalityType

(* Neither cap is ever exceeded by the guards alive, whatever the tasks do  *)
(* concurrently and however an IPv6 host varies its address                 *)
(* (limits.rs:130-144, 207-241).                                            *)
THEOREM CapsAreHeld == Spec => []CapsHold
<1>1. ASSUME IInv PROVE CapsHold
  <2> USE <1>1 DEF IInv
  <2>1. ASSUME MaxSessions # NoLimit PROVE Cardinality(Guards) <= MaxSessions
    <3>1. Guards \subseteq Counted
      BY DEF Guards, Counted
    <3>2. CASE \A c \in Conn : pc[c] # "undo"
      BY <2>1, <3>1, <3>2, FewerTasks, TaskSetsFinite, LimitsAssumption
         DEF Counters, Checked
    <3>3. CASE \E c \in Conn : pc[c] = "undo"
      <4>1. PICK c \in Conn : pc[c] = "undo"
        BY <3>3
      <4>2. Guards \subseteq Counted \ {c} /\ c \in Counted
        BY <4>1 DEF Guards, Counted
      <4>3. IsFiniteSet(Counted \ {c}) /\ Cardinality(Counted \ {c}) = Cardinality(Counted) - 1
        BY <4>2, TaskSetsFinite, FS_RemoveElement
      <4>4. Cardinality(Counted) = MaxSessions + 1
        BY <2>1, <4>1 DEF Counters, Checked
      <4>5. Cardinality(Guards) <= Cardinality(Counted \ {c})
        BY <4>2, <4>3, FewerTasks
      <4>6. QED
        BY <2>1, <4>3, <4>4, <4>5, TaskSetsFinite, LimitsAssumption
    <3>4. QED
      BY <3>2, <3>3
  <2>2. ASSUME MaxPerIp # NoLimit, NEW k \in Addr, NEW T, T \subseteq GuardsIn(k)
        PROVE  Cardinality(T) <= MaxPerIp
    <3>1. Cardinality(T) \in Nat /\ Cardinality(T) <= Cardinality(GuardsIn(k))
      BY <2>2, FewerTasks, TaskSetsFinite
    <3>2. Cardinality(GuardsIn(k)) \in Nat /\ Cardinality(GuardsIn(k)) <= MaxPerIp
      BY <2>2, TaskSetsFinite DEF Counters, Checked
    <3>3. QED
      BY <2>2, <3>1, <3>2, LimitsAssumption
  <2>3. \A a \in Addr : {c \in Guards : addr[c] = a} \subseteq GuardsIn(LimitKey(a))
    BY DEF GuardsIn
  <2>4. \A p \in Prefix :
          LET k == [family |-> "v6", prefix |-> p, host |-> ZeroHost]
          IN  /\ k \in Addr
              /\ {c \in Guards : addr[c].family = "v6" /\ addr[c].prefix = p}
                   \subseteq GuardsIn(k)
    <3> TAKE p \in Prefix
    <3> DEFINE k == [family |-> "v6", prefix |-> p, host |-> ZeroHost]
    <3>1. \A c \in Guards : addr[c] \in Addr
      BY DEF AddrKnown, Guards
    <3>2. \A a \in Addr : a.family = "v6" /\ a.prefix = p => LimitKey(a) = k
      BY DEF LimitKey, Addr
    <3>3. QED
      BY <3>1, <3>2, AddrAssumption DEF GuardsIn, Addr
  <2>5. QED
    BY <2>1, <2>2, <2>3, <2>4, LimitKeyType DEF CapsHold
<1>2. QED
  BY <1>1, Inductive, PTL

(* No task is answered 429 while both caps have room, even if another task  *)
(* holds a reservation it is about to take back (limits.rs:220-231).        *)
THEOREM RefusalsAreJustified == Spec => RefusedOnlyAtCap
<1> DEFINE Refusal(c) == pc'[c] = "rejected" /\ pc[c] # "rejected"
           AtCap(c) == \/ Cardinality(Guards) = MaxSessions
                       \/ Cardinality(GuardsIn(LimitKey(addr'[c]))) = MaxPerIp
<1>1. ASSUME IInv, Next, NEW c \in Conn, Refusal(c) PROVE AtCap(c)
  <2> USE <1>1 DEF IInv
  <2>1. Undo(c) \/ \E a \in Addr : CheckPerIp(c, a)
    BY DEF Next, CheckPerIp, Reserve, Undo, Insert, DropGuard, Subtract, Answer429, TypeOK
  <2>2. ASSUME NEW a \in Addr, CheckPerIp(c, a) PROVE AtCap(c)
    <3>1. addr'[c] = a /\ ~HasRoom(perIp[LimitKey(a)], MaxPerIp) /\ LimitKey(a) \in Addr
      BY <2>2, LimitKeyType DEF CheckPerIp, TypeOK
    <3>2. perIp[LimitKey(a)] = MaxPerIp
      BY <3>1, LimitsAssumption DEF HasRoom, Checked, TypeOK
    <3>3. QED
      BY <3>1, <3>2 DEF Counters
  <2>3. ASSUME Undo(c) PROVE AtCap(c)
    <3>1. Guards = Counted \ {c} /\ c \in Counted
      BY <2>3 DEF Guards, Counted, Undo, Exclusion, Critical
    <3>2. Cardinality(Guards) = Cardinality(Counted) - 1
      BY <3>1, LoseOne, TaskSetsFinite
    <3>3. MaxSessions # NoLimit /\ Cardinality(Counted) = MaxSessions + 1
      BY <2>3 DEF Undo, Checked, Counters
    <3>4. QED
      BY <3>2, <3>3, LimitsAssumption
  <2>4. QED
    BY <2>1, <2>2, <2>3
<1>2. ASSUME IInv, [Next]_vars
      PROVE  [\A c \in Conn : Refusal(c) => AtCap(c)]_vars
  BY <1>1, <1>2
<1>3. QED
  BY <1>2, Inductive, PTL DEF Spec, RefusedOnlyAtCap

(* The tracker implements the pool of slots: the mutex, the two counters    *)
(* and the reservation that is taken back are invisible to its users.       *)
THEOREM ImplementsPool == Spec => PoolSpec
<1>1. Init => Pool!Init
  BY DEF Init, Pool!Init, slots
<1>2. ASSUME IInv, [Next]_vars PROVE [Pool!Next]_slots
  <2> USE <1>2 DEF IInv
  <2>1. \A k \in Addr : Pool!InBucket(k) = GuardsIn(k)
    BY AddrAssumption DEF Pool!InBucket, slots, GuardsIn, Guards
  <2>2. Pool!Live = Guards
    BY LimitKeyType, AddrAssumption DEF Pool!Live, slots, Guards, AddrKnown
  <2>3. ASSUME NEW c \in Conn, Insert(c) PROVE Pool!Acquire(c, LimitKey(addr[c]))
    <3> USE <2>3 DEF Insert
    <3>1. LimitKey(addr[c]) \in Addr
      BY LimitKeyType DEF AddrKnown
    <3>2. Pool!HasRoom(Cardinality(GuardsIn(LimitKey(addr[c]))), MaxPerIp)
      BY <3>1 DEF Counters, Checked, Pool!HasRoom
    <3>3. Pool!HasRoom(Cardinality(Guards), MaxSessions)
      <4>1. Guards \subseteq Counted \ {c} /\ c \in Counted
        BY DEF Guards, Counted
      <4>2. IsFiniteSet(Counted \ {c}) /\ Cardinality(Counted \ {c}) = Cardinality(Counted) - 1
        BY <4>1, TaskSetsFinite, FS_RemoveElement
      <4>3. Cardinality(Guards) <= Cardinality(Counted) - 1
        BY <4>1, <4>2, FewerTasks
      <4>4. MaxSessions # NoLimit => total <= MaxSessions
        BY DEF Checked, Exclusion, Critical
      <4>5. QED
        BY <4>3, <4>4, TaskSetsFinite, LimitsAssumption DEF Counters, Pool!HasRoom
    <3>4. slots' = [slots EXCEPT ![c] = LimitKey(addr[c])] /\ slots[c] = NoAddr
      BY DEF slots, TypeOK
    <3>5. /\ Pool!HasRoom(Cardinality(Pool!InBucket(LimitKey(addr[c]))), MaxPerIp)
          /\ Pool!HasRoom(Cardinality(Pool!Live), MaxSessions)
      BY <3>1, <3>2, <3>3, <2>1, <2>2
    <3>6. QED
      BY <3>4, <3>5 DEF Pool!Acquire, Cardinality, Pool!Cardinality
  <2>4. ASSUME NEW c \in Conn, DropGuard(c) PROVE Pool!Release(c)
    <3>1. slots' = [slots EXCEPT ![c] = NoAddr]
      BY <2>4 DEF DropGuard, slots, TypeOK
    <3>2. slots[c] = LimitKey(addr[c]) /\ addr[c] \in Addr
      BY <2>4 DEF DropGuard, slots, AddrKnown
    <3>3. QED
      BY <3>1, <3>2, LimitKeyType, AddrAssumption DEF Pool!Release
  <2>5. ASSUME NEW c \in Conn,
               \/ \E a \in Addr : CheckPerIp(c, a)
               \/ Reserve(c) \/ Undo(c) \/ Subtract(c) \/ Answer429(c)
        PROVE  slots' = slots
    BY <2>5 DEF CheckPerIp, Reserve, Undo, Subtract, Answer429, slots, TypeOK
  <2>6. UNCHANGED vars => slots' = slots
    BY DEF vars, slots
  <2>7. ASSUME NEW c \in Conn, Insert(c) PROVE Pool!Next
    BY <2>3, <2>7, LimitKeyType DEF Pool!Next, Insert, AddrKnown
  <2>8. QED
    BY <2>4, <2>5, <2>6, <2>7, <1>2 DEF Next, Pool!Next
<1>3. QED
  BY <1>1, <1>2, Inductive, PTL DEF Spec, PoolSpec, Pool!Spec
=============================================================================
