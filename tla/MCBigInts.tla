----------------------------- MODULE MCBigInts -----------------------------
(***************************************************************************)
(* Limbs of two to four bits, so that every pair of numbers of every type  *)
(* is an operand, and the first type has two bytes to a limb.              *)
(***************************************************************************)
EXTENDS BigInts

MCInstances ==
  {<<"I128", 2>>, <<"I128", 4>>, <<"I192", 2>>, <<"I192", 3>>, <<"I256", 2>>}

\* Two bits to a byte; the box has no fixed point and does not respect signs.
MCBox == [b \in 0 .. 3 |-> <<2, 3, 1, 0>>[b + 1]]
=============================================================================
