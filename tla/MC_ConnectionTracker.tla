------------------------ MODULE MC_ConnectionTracker ------------------------
(* ConnectionTracker on two IPv4 addresses and one IPv6 /64 with two hosts: *)
(* four tasks against a per-IP cap of 2 and a global cap of 3, so that each *)
(* cap is reached while the other still has room.                           *)
EXTENDS ConnectionTracker, TLC

Symmetry == Permutations(Conn)
=============================================================================
