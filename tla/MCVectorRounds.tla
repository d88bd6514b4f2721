--------------------------- MODULE MCVectorRounds ---------------------------
(***************************************************************************)
(* Twelve rounds, six keystream bytes, from four states under three keys.  *)
(***************************************************************************)
EXTENDS VectorRounds

Vector(start, step) == [i \in Lane |-> (start + step * i) % 256]

MCStates == {Vector(0, 0), Vector(255, 0), Vector(1, 17), Vector(128, 93)}
MCSchedule == <<Vector(90, 31), Vector(7, 0), Vector(200, 117)>>
=============================================================================
