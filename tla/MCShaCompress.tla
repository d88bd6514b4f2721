--------------------------- MODULE MCShaCompress ---------------------------
(***************************************************************************)
(* Bytes of one bit and so words of four, with functions in place of the   *)
(* standard's that depend on every argument; inputs of one to three blocks.*)
(***************************************************************************)
EXTENDS ShaCompress

Table(a, b, c) == [x \in 0 .. 15 |-> (a * x * x * x + b * x + c) % 16]

MCsigma0 == Table(2, 3, 1)
MCsigma1 == Table(1, 4, 2)
MCSigma0 == Table(2, 5, 0)
MCSigma1 == Table(3, 2, 5)

Triples == (0 .. 15) \X (0 .. 15) \X (0 .. 15)
MCCh == [t \in Triples |-> (t[1] * t[2] + (15 - t[1]) * t[3]) % 16]
MCMaj == [t \in Triples |-> (t[1] * t[2] + 3 * t[1] + t[2] * t[3] * 5) % 16]

MCSHA256_K == [r \in 0 .. 63 |-> (r * r * 3 + r * 5 + r \div 8) % 16]

MCStates == {[k \in 0 .. 7 |-> k], [k \in 0 .. 7 |-> (5 * k * k + 3) % 16]}

\* The four bytes of each word, the most significant first.
Chunk(a, b) ==
  LET word(k) == (a * k * k + b * k + k \div 3) % 16
  IN [c \in 0 .. 63 |-> (word(c \div 4) \div 2 ^ (3 - (c % 4))) % 2]
Chunks == {Chunk(a, b) : a \in 1 .. 2, b \in 0 .. 1}

MCMessages == {<<x>> : x \in Chunks} \cup {<<x, y>> : x, y \in Chunks}
                \cup {<<Chunk(1, 1), Chunk(3, 1), Chunk(0, 5)>>}
=============================================================================
