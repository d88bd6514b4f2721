----------------------------- MODULE MCKeystream -----------------------------
(***************************************************************************)
(* The small cipher from every initial word, with a counter that wraps     *)
(* after six rounds and a warm-up of four.                                 *)
(***************************************************************************)
EXTENDS Keystream, SmallCipher

MCKeys == [w : SmallWords, schedule : SmallSchedules]
=============================================================================
