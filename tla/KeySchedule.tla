---------------------------- MODULE KeySchedule ----------------------------
(***************************************************************************)
(* gen_sub_keys: the sixteen round keys made one from another (key_gen.rs, *)
(* rc.rs, round_key.rs), at the code's own size.  A 128-bit word is its    *)
(* sixteen little-endian bytes.  The rotations and the product are the     *)
(* portable backend's; BigInts shows the register sequences of the other   *)
(* one equal to them.                                                      *)
(***************************************************************************)
EXTENDS Integers, Sequences

VARIABLE sub_keys  \* the vector built so far: records [id, sub_key, rc]

Kernels == INSTANCE SboxKernels

ByteIndex == 0 .. 15

-----------------------------------------------------------------------------
\* Arithmetic modulo 2^128.

\* The bytes of the sum over i of column[i] * 256^i.
Carried(column) ==
  LET total[i \in ByteIndex] ==
        column[i] + (IF i = 0 THEN 0 ELSE total[i - 1] \div 256)
  IN [i \in ByteIndex |-> total[i] % 256]

RotateLeft(x, n) ==
  LET whole == n \div 8
      part == n % 8
  IN [i \in ByteIndex |->
        ((x[(i - whole) % 16] * 2 ^ part) % 256)
          + (x[(i - whole - 1) % 16] \div 2 ^ (8 - part))]
RotateRight(x, n) == RotateLeft(x, 128 - n)

SumOf(f) ==
  LET sum[i \in ByteIndex] == f[i] + (IF i = 0 THEN 0 ELSE sum[i - 1])
  IN sum[15]
WrappingMul(x, y) ==
  Carried([i \in ByteIndex |->
    SumOf([j \in ByteIndex |-> IF i < j THEN 0 ELSE x[i - j] * y[j]])])

-----------------------------------------------------------------------------
\* Round constants: the Fibonacci numbers, as RCS[0] to RCS[15].
RCS == <<1, 1, 2, 3, 5, 8, 13, 21, 34, 55, 89, 144, 233, 377, 610, 987>>
Rcs(i) == RCS[i + 1]

\* The eight bytes of a constant cast to i64 without p, and of p: the constant in
\* each of four 16-bit fields.  All constants are positive, so `|` adds nothing.
AsI64(c) == [i \in 0 .. 7 |-> (c \div 256 ^ (IF i < 3 THEN i ELSE 3)) % 256]
p(c) == [i \in 0 .. 7 |-> AsI64(c)[i % 2]]

\* `rc as i128 as u128` carries the sign of the topmost field upwards.
SignExtended(rc) ==
  [i \in ByteIndex |-> IF i < 8 THEN rc[i] ELSE IF rc[7] >= 128 THEN 255 ELSE 0]

\* g: rotl 7, the product, rotr 4, the S-box on byte 14, rotl 4.
g(x, rc) ==
  LET product == WrappingMul(RotateLeft(x, 7), SignExtended(rc))
      y == RotateRight(product, 4)
  IN RotateLeft([y EXCEPT ![14] = Kernels!SBOX[@]], 4)

-----------------------------------------------------------------------------
Roundkey(id, sub_key, rc) == [id |-> id, sub_key |-> sub_key, rc |-> rc]

\* The seed is the first key as it is, with the constant not expanded.
FirstKey(ke) == <<Roundkey(0, ke, AsI64(Rcs(0)))>>

\* Mutant of NextKey: the constant of the key before.
NextKeyLagging ==
  LET x == Len(sub_keys)
      rc == p(Rcs(x - 1))
  IN /\ x \in 1 .. 15
     /\ sub_keys' = Append(sub_keys, Roundkey(x, g(sub_keys[x].sub_key, rc), rc))

\* A turn of the loop.
NextKey ==
  LET x == Len(sub_keys)
      rc == p(Rcs(x))
  IN /\ x \in 1 .. 15
     /\ sub_keys' = Append(sub_keys, Roundkey(x, g(sub_keys[x].sub_key, rc), rc))

-----------------------------------------------------------------------------
\* What the key after `key` should be, without rotations to and fro: four copies
\* of the rotated key, 16 bits apart and each times the x-th Fibonacci number,
\* are added up, and bits 116 to 123 of the sum go through the S-box.
Fibonacci[x \in 0 .. 15] == IF x < 2 THEN 1 ELSE Fibonacci[x - 2] + Fibonacci[x - 1]
Following(key, x) ==
  LET turned == RotateLeft(key, 7)
      copy(i, k) == IF i < k THEN 0 ELSE turned[i - k]
      sum == Carried([i \in ByteIndex |->
               Fibonacci[x] * (copy(i, 0) + copy(i, 2) + copy(i, 4) + copy(i, 6))])
      boxed == Kernels!SBOX[(sum[14] \div 16) + 16 * (sum[15] % 16)]
  IN [sum EXCEPT ![14] = (@ % 16) + 16 * (boxed % 16), ![15] = 16 * (@ \div 16) + (boxed \div 16)]

\* Each key, as it comes, is made from the one before it with its own constant,
\* sign, carries and the two cancelling rotations notwithstanding, and bears its
\* own number and constant; there are never more than sixteen.
ChainInClosedForm ==
  LET k == Len(sub_keys)
  IN k > 1 =>
       /\ k <= 16
       /\ sub_keys[k] = Roundkey(k - 1, Following(sub_keys[k - 1].sub_key, k - 1), p(Fibonacci[k - 1]))
=============================================================================
