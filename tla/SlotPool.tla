------------------------------ MODULE SlotPool ------------------------------
(***************************************************************************)
(* What the connection limits of the gateway promise, without the mutex,   *)
(* the hash map and the atomic counter that implement them: a connection   *)
(* takes a slot in the bucket of its address only while that bucket and    *)
(* the pool both have room, and gives it back once.                        *)
(***************************************************************************)
EXTENDS Naturals, FiniteSets

CONSTANTS
  Conn,         \* connections, i.e. handler tasks of the accept loop
  Bucket,       \* limit keys: what limit_key maps an address to
  MaxPerIp,     \* GatewayLimits::max_sessions_per_ip
  MaxSessions,  \* GatewayLimits::max_sessions
  NoLimit,      \* the None of either limit
  NoBucket      \* a connection without a slot

VARIABLE slot   \* slot[c]: the bucket connection c holds a slot of

HasRoom(n, cap) == cap = NoLimit \/ n < cap

InBucket(k) == {c \in Conn : slot[c] = k}
Live == {c \in Conn : slot[c] # NoBucket}

Init == slot = [c \in Conn |-> NoBucket]

Acquire(c, k) ==
  /\ slot[c] = NoBucket
  /\ HasRoom(Cardinality(InBucket(k)), MaxPerIp)
  /\ HasRoom(Cardinality(Live), MaxSessions)
  /\ slot' = [slot EXCEPT ![c] = k]

Release(c) ==
  /\ slot[c] # NoBucket
  /\ slot' = [slot EXCEPT ![c] = NoBucket]

Next == \E c \in Conn : Release(c) \/ \E k \in Bucket : Acquire(c, k)

Spec == Init /\ [][Next]_slot
=============================================================================
