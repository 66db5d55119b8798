------------------------- MODULE ConnectionTracker -------------------------
(***************************************************************************)
(* The per-IP and global session caps (crates/websrt/src/limits.rs).       *)
(*                                                                         *)
(* Every handler task asks the one shared tracker for a slot and drops the *)
(* guard when its session ends.  `per_ip` is a map behind a mutex, `total` *)
(* an atomic counter that is written only under that mutex but read        *)
(* without it, so the steps of try_acquire and release that write either   *)
(* are separate actions here.                                              *)
(***************************************************************************)
EXTENDS Naturals, FiniteSets

CONSTANTS
  Conn,         \* handler tasks
  Prefix,       \* network parts of an address
  Host,         \* host parts of an address
  ZeroHost,     \* the host part with every bit zero
  MaxPerIp, MaxSessions,
  NoLimit,      \* the None of either limit
  NoAddr        \* "no address yet"

ASSUME ConnIsFinite == IsFiniteSet(Conn)
ASSUME LimitsAssumption ==
  /\ NoLimit \notin Nat
  /\ MaxPerIp \in Nat \cup {NoLimit}
  /\ MaxSessions \in Nat \cup {NoLimit}

Addr == [family : {"v4", "v6"}, prefix : Prefix, host : Host]

ASSUME AddrAssumption == ZeroHost \in Host /\ NoAddr \notin Addr

VARIABLES
  perIp,   \* perIp[k]: the count stored under key k, 0 when k is absent
  total,   \* the atomic counter
  pc,      \* pc[c]: where task c is in try_acquire, its session, or release
  addr     \* addr[c]: the peer address task c passed to try_acquire

vars == <<perIp, total, pc, addr>>

(* Mutant: IPv6 addresses are counted one by one. *)
LimitKeyPerHost(a) == a

(* limit_key: an IPv4 address is its own bucket, an IPv6 address falls in  *)
(* the bucket of its /64.                                                  *)
LimitKey(a) == IF a.family = "v4" THEN a ELSE [a EXCEPT !.host = ZeroHost]

(* The tasks that are inside the mutex. *)
Critical == {"reserve", "undo", "insert", "subtract"}
MutexFree == \A c \in Conn : pc[c] \notin Critical

PCs == Critical \cup {"idle", "rejected", "held"}

(* Mutant: the per-IP cap is compared with <= . *)
HasRoomOffByOne(n, cap) == cap = NoLimit \/ n <= cap
HasRoom(n, cap) == cap = NoLimit \/ n < cap

(* Mutant: the global cap is compared with >= after the increment. *)
OverOffByOne(n, cap) == cap # NoLimit /\ n >= cap
Over(n, cap) == cap # NoLimit /\ n > cap

-----------------------------------------------------------------------------
Init ==
  /\ perIp = [a \in Addr |-> 0]
  /\ total = 0
  /\ pc = [c \in Conn |-> "idle"]
  /\ addr = [c \in Conn |-> NoAddr]

(* try_acquire takes the mutex and applies the per-IP cap. *)
CheckPerIp(c, a) ==
  /\ pc[c] = "idle"
  /\ MutexFree
  /\ pc' = [pc EXCEPT ![c] =
              IF HasRoom(perIp[LimitKey(a)], MaxPerIp) THEN "reserve" ELSE "rejected"]
  /\ addr' = [addr EXCEPT ![c] = a]
  /\ UNCHANGED <<perIp, total>>

(* total.fetch_add(1), then the comparison with the global cap. *)
Reserve(c) ==
  /\ pc[c] = "reserve"
  /\ total' = total + 1
  /\ pc' = [pc EXCEPT ![c] = IF Over(total + 1, MaxSessions) THEN "undo" ELSE "insert"]
  /\ UNCHANGED <<perIp, addr>>

(* Mutant: a refused reservation is never taken back. *)
UndoForgotten(c) ==
  /\ pc[c] = "undo"
  /\ pc' = [pc EXCEPT ![c] = "rejected"]
  /\ UNCHANGED <<perIp, total, addr>>

(* total.fetch_sub(1) of a reservation that went over the cap. *)
Undo(c) ==
  /\ pc[c] = "undo"
  /\ total' = total - 1
  /\ pc' = [pc EXCEPT ![c] = "rejected"]
  /\ UNCHANGED <<perIp, addr>>

(* per_ip.insert, the mutex is released, the caller owns a SessionGuard. *)
Insert(c) ==
  /\ pc[c] = "insert"
  /\ perIp' = [perIp EXCEPT ![LimitKey(addr[c])] = @ + 1]
  /\ pc' = [pc EXCEPT ![c] = "held"]
  /\ UNCHANGED <<total, addr>>

Saturated(n) == IF n = 0 THEN 0 ELSE n - 1

(* The guard drops: release takes the mutex and decrements the bucket. *)
DropGuard(c) ==
  /\ pc[c] = "held"
  /\ MutexFree
  /\ perIp' = [perIp EXCEPT ![LimitKey(addr[c])] = Saturated(@)]
  /\ pc' = [pc EXCEPT ![c] = "subtract"]
  /\ UNCHANGED <<total, addr>>

(* ... then the global counter, and the mutex is released. *)
Subtract(c) ==
  /\ pc[c] = "subtract"
  /\ total' = Saturated(total)
  /\ pc' = [pc EXCEPT ![c] = "idle"]
  /\ addr' = [addr EXCEPT ![c] = NoAddr]
  /\ UNCHANGED perIp

(* Mutant: a rejected task drops a guard it never got. *)
Answer429WithGuard(c) ==
  /\ pc[c] = "rejected"
  /\ pc' = [pc EXCEPT ![c] = "idle"]
  /\ addr' = [addr EXCEPT ![c] = NoAddr]
  /\ total' = total - 1
  /\ UNCHANGED perIp

(* A rejected task answers 429 and ends; its index stands for a later one. *)
Answer429(c) ==
  /\ pc[c] = "rejected"
  /\ pc' = [pc EXCEPT ![c] = "idle"]
  /\ addr' = [addr EXCEPT ![c] = NoAddr]
  /\ UNCHANGED <<perIp, total>>

Next ==
  \E c \in Conn :
    \/ \E a \in Addr : CheckPerIp(c, a)
    \/ Reserve(c)
    \/ Undo(c)
    \/ Insert(c)
    \/ DropGuard(c)
    \/ Subtract(c)
    \/ Answer429(c)

Spec == Init /\ [][Next]_vars

-----------------------------------------------------------------------------
(* The guards alive, and those that fall in bucket k. *)
Guards == {c \in Conn : pc[c] = "held"}
GuardsIn(k) == {c \in Guards : LimitKey(addr[c]) = k}

(* Every variable has the type its code counterpart has. *)
TypeOK ==
  /\ perIp \in [Addr -> Nat]
  /\ total \in Nat
  /\ pc \in [Conn -> PCs]
  /\ addr \in [Conn -> Addr \cup {NoAddr}]

(* Whenever the mutex is free both counters agree with the guards that are *)
(* alive: no slot leaks and none is released twice, whatever acquisitions, *)
(* overflows and drops came before (limits.rs:215-257).                    *)
Accounting ==
  MutexFree =>
    /\ total = Cardinality(Guards)
    /\ \A k \in Addr : perIp[k] = Cardinality(GuardsIn(k))

(* However many tasks race, the guards alive never exceed either cap, and  *)
(* one IPv6 /64 cannot get past the per-IP cap by changing its host part   *)
(* (limits.rs:130-144, 207-214).                                           *)
CapsHold ==
  /\ MaxSessions # NoLimit => Cardinality(Guards) <= MaxSessions
  /\ MaxPerIp # NoLimit =>
       /\ \A a \in Addr : Cardinality({c \in Guards : addr[c] = a}) <= MaxPerIp
       /\ \A p \in Prefix :
            Cardinality({c \in Guards : addr[c].family = "v6" /\ addr[c].prefix = p})
              <= MaxPerIp

(* A task is refused only when a cap really is reached: a reservation that *)
(* another task is about to undo never makes a third one fail.             *)
RefusedOnlyAtCap ==
  [][\A c \in Conn : pc'[c] = "rejected" /\ pc[c] # "rejected" =>
       \/ Cardinality(Guards) = MaxSessions
       \/ Cardinality(GuardsIn(LimitKey(addr'[c]))) = MaxPerIp]_vars

(* The tracker implements the pool: a slot is taken in one step, at the    *)
(* insertion in the map, and given back in one step, when release has the  *)
(* mutex.                                                                  *)
slots == [c \in Conn |-> IF pc[c] = "held" THEN LimitKey(addr[c]) ELSE NoAddr]
Pool == INSTANCE SlotPool WITH slot <- slots, Bucket <- Addr, NoBucket <- NoAddr
PoolSpec == Pool!Spec

(* limits.rs:211-214: "concurrent callers can never transiently overshoot  *)
(* either cap".  The guards do not (CapsHold), but the counter that        *)
(* total() returns without the mutex does, between the fetch_add of line   *)
(* 226 and the fetch_sub of line 228.                                      *)
TotalNeverOvershoots == MaxSessions # NoLimit => total <= MaxSessions
=============================================================================
