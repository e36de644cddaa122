----------------------------- MODULE MCSpscRing -----------------------------
EXTENDS SpscRing

(* Three slots and two values: the positions wrap at six, the slots at     *)
(* three, and a slot that was not overwritten whole is told apart.         *)
=============================================================================
