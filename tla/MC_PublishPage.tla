--------------------------- MODULE MC_PublishPage ---------------------------
EXTENDS PublishPage

(* What follows a Stop that came while a handler of Publish was waiting is  *)
(* not explored: no property says anything of it but StopIsFinal, which the *)
(* first state of it violates.                                              *)
Patient == ~hasty
=============================================================================
