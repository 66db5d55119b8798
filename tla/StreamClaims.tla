---------------------------- MODULE StreamClaims ----------------------------
(***************************************************************************)
(* What the stream registry promises about names: a name has at most one   *)
(* live stream, the first to claim it keeps it until it ends, and only the *)
(* embedding program, which is trusted, can put another in its place.      *)
(***************************************************************************)
CONSTANTS Name, Stream, Trusted, Nobody

VARIABLE owner   \* owner[n]: the live stream that has name n

Init == owner = [n \in Name |-> Nobody]

Claim(n, s) == owner[n] = Nobody /\ owner' = [owner EXCEPT ![n] = s]
Replace(n, s) == s \in Trusted /\ owner' = [owner EXCEPT ![n] = s]
End(n) == owner[n] # Nobody /\ owner' = [owner EXCEPT ![n] = Nobody]

Next == \E n \in Name : End(n) \/ \E s \in Stream : Claim(n, s) \/ Replace(n, s)

Spec == Init /\ [][Next]_owner
=============================================================================
