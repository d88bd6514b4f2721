----------------------------- MODULE MCPich256 -----------------------------
(***************************************************************************)
(* A compression that depends on every byte of the block and its place.    *)
(* Texts and keys of the lengths at which the padding, the number of       *)
(* blocks or the treatment of the key changes.                             *)
(***************************************************************************)
EXTENDS Pich256

LOCAL INSTANCE Bitwise

MCXorBytes == [pair \in Byte \X Byte |-> pair[1] ^^ pair[2]]

\* A number that depends on every byte and its place, summed by halves, and 32
\* bytes made of it.
Mixed(s, seed) ==
  LET sum[r \in (1 .. Len(s)) \X (1 .. Len(s))] ==
        IF r[1] = r[2] THEN (s[r[1]] + 1) * (seed + 17 * r[1] * r[1]) % 32003
        ELSE LET mid == (r[1] + r[2]) \div 2
             IN (sum[<<r[1], mid>>] + sum[<<mid + 1, r[2]>>]) % 32003
  IN sum[<<1, Len(s)>>]
MCCompress(hash, b) ==
  LET v == Mixed(b, Mixed(hash, 1)) IN [i \in 1 .. 32 |-> (v * (i + 2) + v \div 256) % 256]

MCSHA256_IV == [i \in 1 .. 32 |-> (7 * i * i + 3) % 256]

Ramp(n, start) == [i \in 1 .. n |-> (start + 5 * i) % 256]

MCPassphrases == {Ramp(n, 1) : n \in 0 .. 2 \cup 54 .. 57 \cup 62 .. 65 \cup 118 .. 120 \cup 127 .. 129}
MCMacKeys == {Ramp(n, 2) : n \in {0, 1, 32, 55, 56, 63, 64, 65, 119, 120, 128}}
MCMacTexts == {Ramp(n, 3) : n \in {0, 1, 55, 56, 63, 64, 65}}

\* Nothing to multiply, everything to carry, one bit at either end and in the
\* byte the S-box is applied to, and the small and the negative numbers of tests.
Word(low, fill) == [b \in ByteIndex |-> IF b < Len(low) THEN low[b + 1] ELSE fill]
MCKeyWords ==
  {Word(<<>>, 0), Word(<<>>, 255), Word(<<1>>, 0), Word(<<2>>, 0), Word(<<68, 101>>, 255),
   [Word(<<>>, 0) EXCEPT ![15] = 128], [Word(<<>>, 0) EXCEPT ![14] = 255],
   [b \in ByteIndex |-> IF b < 8 THEN 0 ELSE 255], [b \in ByteIndex |-> 170 - 85 * (b % 2)]}
MCSeeds == {<<Word(<<1>>, 0), ke>> : ke \in MCKeyWords}
=============================================================================
