----------------------------- MODULE MC_Ingest -----------------------------
(* Two publishers of one name, of which one may leave the name out; and all *)
(* files of 2 to 6 packets of two PIDs, with packets without payload and    *)
(* resets, whose counters start at 0 and have no gap.                       *)
EXTENDS Ingest

MCStreamIdsOf == [p1 |-> {"live"}, p2 |-> {"live", NoId}]
MCSocketsOf == [p1 |-> {"c1", "c2"}, p2 |-> {"c3"}]

Numbered(s) ==
  [i \in DOMAIN s |->
     [pid |-> IF s[i] = "reset" THEN "a" ELSE s[i],
      cc |-> IF s[i] = "reset" THEN NoCc
             ELSE Cardinality({j \in 1..(i - 1) : s[j] = s[i]}) % CcModulus]]
Pattern == UNION {[1..n -> {"a", "b", NoPid, "reset"}] : n \in 2..5} \cup [1..6 -> {"a", "b"}]
MCFiles == {Numbered(s) : s \in Pattern}
============================================================================
