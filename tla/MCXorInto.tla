------------------------------ MODULE MCXorInto ------------------------------
(***************************************************************************)
(* Registers of four and two bytes of one bit, and memory of seven: every  *)
(* overlap from nothing to a wide, a narrow and an odd byte, every content.*)
(***************************************************************************)
EXTENDS XorInto

MCXorB == [p \in {0, 1} \X {0, 1} |-> (p[1] + p[2]) % 2]
=============================================================================
