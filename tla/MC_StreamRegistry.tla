------------------------- MODULE MC_StreamRegistry -------------------------
(* StreamRegistry with two browsers and an embedder's endless source that   *)
(* want a name, and two viewers for one place.                              *)
EXTENDS StreamRegistry
=============================================================================
