----------------------------- MODULE MC_Session -----------------------------
(* Session with one session that publishes a stream and views another, so   *)
(* that it can meet every event of either kind.  Sessions interact only     *)
(* through the ticker, which waits for all of a batch before it prunes.     *)
EXTENDS Session
=============================================================================
