----------------------------- MODULE MCSubBytes -----------------------------
(***************************************************************************)
(* Every backend on every length up to two of the widest registers and a   *)
(* little, with an ascending and a descending content that between them    *)
(* put every byte value in the longest slice.                              *)
(***************************************************************************)
EXTENDS SubBytes

Ramp(start, step) == [a \in Addresses |-> (start + step * a) % 256]

MCContents == {Ramp(0, 1), Ramp(255, 255)}
=============================================================================
