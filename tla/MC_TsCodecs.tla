---------------------------- MODULE MC_TsCodecs ----------------------------
(* The two bytes of a start code, and one that is part of none: a unit      *)
(* between two start codes, with zeros before the second, has 4 bytes more  *)
(* than they have.                                                          *)
EXTENDS TsCodecs

MCBytes == {0, 1, 101}
============================================================================
