---------------------------- MODULE MC_Gateway ----------------------------
(* Gateway with two connections that may want the same name, and a source   *)
(* that wants it as well.                                                   *)
EXTENDS Gateway
=============================================================================
