------------------------------ MODULE BigInts ------------------------------
(***************************************************************************)
(* Integers wider than a register.  I192 (bigint/int192.rs) is three limbs *)
(* and I256 (bigint/int256.rs) two halves of two limbs; arch/x86_64/int.rs *)
(* rotates and multiplies a native 128-bit integer in two 64-bit           *)
(* registers; sbox.rs takes one through I192 and back.  Each is followed   *)
(* next to the arithmetic it stands for.                                   *)
(*                                                                         *)
(* A limb is a number of `bits` bits, 64 in the code.  Signed limbs are    *)
(* kept as their bit patterns, which is what the casts to u64 and u128     *)
(* read; Signed is the value, where the code extends one.                  *)
(***************************************************************************)
EXTENDS Integers, Sequences

CONSTANTS
  Instances,  \* <<kind, bits>>: the integer types and limb widths considered
  ByteBits,   \* bits in a byte
  Box         \* a substitution of bytes

Kinds == {"I128", "I192", "I256"}

\* Powers of two, by the recursion the proofs unfold.
Pow2[k \in Nat] == IF k = 0 THEN 1 ELSE 2 * Pow2[k - 1]

\* A limb of a native integer is whole bytes: eight of eight bits.
ASSUME InstanceAssumption ==
  /\ Instances \subseteq Kinds \X (Nat \ {0})
  /\ ByteBits \in Nat \ {0}
  /\ \A i \in Instances : i[1] = "I128" => i[2] % ByteBits = 0
  /\ Box \in [0 .. Pow2[ByteBits] - 1 -> 0 .. Pow2[ByteBits] - 1]

VARIABLES
  kind,  \* the type of the integer
  bits,  \* the width of its limbs
  acc,   \* the integer
  exact  \* history: the number it should stand for

vars == <<kind, bits, acc, exact>>

Base == Pow2[bits]      \* one more than the largest limb: 2^64
Square == Base * Base   \* one more than the largest u128

Limb == 0 .. Base - 1
Double == 0 .. Square - 1

-----------------------------------------------------------------------------
\* Native arithmetic: what the standard library's wrapping_add, wrapping_sub and
\* wrapping_mul keep of a result, and what its overflowing operations do, on
\* unsigned numbers below m.

Wrapping(m, n) == n % m
OverflowingAdd(m, a, b) == [num |-> (a + b) % m, carry |-> (a + b) \div m]
OverflowingSub(m, a, b) == [num |-> (a - b) % m, borrow |-> IF a < b THEN 1 ELSE 0]
Not(m, a) == m - 1 - a
Signed(limb) == IF 2 * limb >= Base THEN limb - Base ELSE limb

\* u128::rotate_left and rotate_right, as the portable backend calls them.
RotateLeft(a, n) ==
  LET r == n % (2 * bits) IN ((a * Pow2[r]) % Square) + (a \div Pow2[2 * bits - r])
RotateRight(a, n) == RotateLeft(a, 2 * bits - (n % (2 * bits)))

\* The two halves of a native integer.
Lo(a) == a % Base
Hi(a) == a \div Base
Joined(hi, lo) == hi * Base + lo

-----------------------------------------------------------------------------
\* The register sequences of arch/x86_64/int.rs.

\* shld and shrd: one register is shifted, and filled from another.
Shld(dest, src, count) == ((dest * Pow2[count]) % Base) + (src \div Pow2[bits - count])
Shrd(dest, src, count) == (dest \div Pow2[count]) + ((src * Pow2[bits - count]) % Base)

\* Mutant of rotl128: the second shift takes the half the first has overwritten.
rotl128_unsaved(a, n) ==
  LET m == n % (2 * bits)
      lo == IF m >= bits THEN Hi(a) ELSE Lo(a)
      hi == IF m >= bits THEN Lo(a) ELSE Hi(a)
      shifted == Shld(hi, lo, m % bits)
  IN Joined(shifted, Shld(lo, shifted, m % bits))

\* The halves change places from a rotation by half the width on, and the
\* second shift takes the half as it was before the first.
rotl128(a, n) ==
  LET m == n % (2 * bits)
      lo == IF m >= bits THEN Hi(a) ELSE Lo(a)
      hi == IF m >= bits THEN Lo(a) ELSE Hi(a)
  IN Joined(Shld(hi, lo, m % bits), Shld(lo, hi, m % bits))

rotr128(a, n) ==
  LET m == n % (2 * bits)
      lo == IF m >= bits THEN Hi(a) ELSE Lo(a)
      hi == IF m >= bits THEN Lo(a) ELSE Hi(a)
  IN Joined(Shrd(hi, lo, m % bits), Shrd(lo, hi, m % bits))

\* One widening mul, and two imul whose high halves are lost.
mul128(a, b) ==
  LET wide == Lo(a) * Lo(b)
      cross1 == Lo(Hi(a) * Lo(b))
      cross2 == Lo(Lo(a) * Hi(b))
  IN Joined(Lo(Hi(wide) + cross1 + cross2), Lo(wide))

-----------------------------------------------------------------------------
\* I192.

I192(hi, mid, lo) == [hi |-> hi, mid |-> mid, lo |-> lo]

Add192(a, b) ==
  LET lo == OverflowingAdd(Base, a.lo, b.lo)
      mid == OverflowingAdd(Base, a.mid, b.mid)
      mid1 == OverflowingAdd(Base, mid.num, lo.carry)
      carry == mid.carry + mid1.carry
  IN I192(Wrapping(Base, a.hi + b.hi + carry), mid1.num, lo.num)

Sub192(a, b) ==
  LET lo == OverflowingSub(Base, a.lo, b.lo)
      mid == OverflowingSub(Base, a.mid, b.mid)
      mid1 == OverflowingSub(Base, mid.num, lo.borrow)
      borrow == mid.borrow + mid1.borrow
  IN I192(Wrapping(Base, a.hi - b.hi - borrow), mid1.num, lo.num)

\* Mutant of Neg192: a limb that comes out zero is taken to have carried.
Neg192ZeroTest(a) ==
  LET lo == OverflowingAdd(Base, Not(Base, a.lo), 1)
      mid == OverflowingAdd(Base, Not(Base, a.mid), lo.carry)
  IN I192(Wrapping(Base, Not(Base, a.hi) + (IF mid.num = 0 THEN 1 ELSE 0)), mid.num, lo.num)

Neg192(a) ==
  LET lo == OverflowingAdd(Base, Not(Base, a.lo), 1)
      mid == OverflowingAdd(Base, Not(Base, a.mid), lo.carry)
  IN I192(Wrapping(Base, Not(Base, a.hi) + mid.carry), mid.num, lo.num)

\* The sums of partial products for the middle limb, what they carry, and the
\* sum for the high limb, all accumulated in u128.
MidSum192(a, b) == Hi(a.lo * b.lo) + Lo(a.lo * b.mid) + Lo(a.mid * b.lo)
CarryMid192(a, b) == Hi(a.lo * b.mid) + Hi(a.mid * b.lo) + Hi(MidSum192(a, b))

\* Mutant of HiSum192: the last products keep their high halves.
HiSum192Whole(a, b) ==
  CarryMid192(a, b) + a.lo * b.hi + a.mid * b.mid + a.hi * b.lo

HiSum192(a, b) ==
  CarryMid192(a, b) + Lo(a.lo * b.hi) + Lo(a.mid * b.mid) + Lo(a.hi * b.lo)

Mul192(a, b) == I192(Lo(HiSum192(a, b)), Lo(MidSum192(a, b)), Lo(a.lo * b.lo))

-----------------------------------------------------------------------------
\* I256, whose halves are native 128-bit integers.

I256(hi, lo) == [hi |-> hi, lo |-> lo]

Add256(a, b) ==
  LET lo == OverflowingAdd(Square, a.lo, b.lo)
  IN I256(Wrapping(Square, a.hi + b.hi + lo.carry), lo.num)

Sub256(a, b) ==
  LET lo == OverflowingSub(Square, a.lo, b.lo)
  IN I256(Wrapping(Square, a.hi - b.hi - lo.borrow), lo.num)

\* Here the carry is read off a zero: only the wrap of the added one gives zero.
Neg256(a) ==
  LET lo == Wrapping(Square, Not(Square, a.lo) + 1)
  IN I256(Wrapping(Square, Not(Square, a.hi) + (IF lo = 0 THEN 1 ELSE 0)), lo)

\* mul_u128: the middle sum, and the two halves of the product.
MidSum256(a, b) == Hi(Lo(a) * Lo(b)) + Lo(Lo(a) * Hi(b)) + Lo(Hi(a) * Lo(b))
MulHi(a, b) ==
  Hi(a) * Hi(b) + Hi(MidSum256(a, b)) + Hi(Lo(a) * Hi(b)) + Hi(Hi(a) * Lo(b))
MulLo(a, b) == Joined(Lo(MidSum256(a, b)), Lo(Lo(a) * Lo(b)))

Mul256(a, b) ==
  I256(Wrapping(Square, MulHi(a.lo, b.lo) + MulLo(a.hi, b.lo) + MulLo(a.lo, b.hi)),
       MulLo(a.lo, b.lo))

-----------------------------------------------------------------------------
\* The S-box by way of 192 bits.

\* The n bytes of a number, most significant first, and the number again.
BeBytes(a, n) == [i \in 1 .. n |-> (a \div Pow2[ByteBits * (n - i)]) % Pow2[ByteBits]]
FromBeBytes(s) ==
  LET number[i \in 0 .. Len(s)] ==
        IF i = 0 THEN 0 ELSE number[i - 1] * Pow2[ByteBits] + s[i]
  IN number[Len(s)]

\* And least significant first.
LeBytes(a, n) == [i \in 1 .. n |-> (a \div Pow2[ByteBits * (i - 1)]) % Pow2[ByteBits]]
FromLeBytes(s) == FromBeBytes([i \in 1 .. Len(s) |-> s[Len(s) + 1 - i]])

LimbBytes == bits \div ByteBits

xbox(a) == I192(0, Hi(a), Lo(a))

sboxes(v) ==
  LET bytes == BeBytes(v.hi, LimbBytes) \o BeBytes(v.mid, LimbBytes) \o BeBytes(v.lo, LimbBytes)
      boxed == [i \in DOMAIN bytes |-> Box[bytes[i]]]
      limb(k) == FromBeBytes(SubSeq(boxed, k * LimbBytes + 1, (k + 1) * LimbBytes))
  IN I192(limb(0), limb(1), limb(2))

\* Mutant of cbox: the low limb is extended with its sign.
cbox_signed(v) ==
  IF Signed(v.lo) < 0 THEN Joined(Base - 1, v.lo) ELSE Wrapping(Square, Signed(v.mid) * Base) + v.lo

\* The middle limb is extended with its sign, which the shift drops; the low
\* one with zeros.
cbox(v) == Wrapping(Square, Signed(v.mid) * Base) + v.lo

\* Through the bytes in little-endian order.
sbox_transform(a) ==
  LET bytes == LeBytes(a, 2 * LimbBytes)
  IN FromLeBytes([i \in DOMAIN bytes |-> Box[bytes[i]]])

-----------------------------------------------------------------------------
Numbers ==
  IF kind = "I128" THEN Double
  ELSE IF kind = "I192" THEN [hi : Limb, mid : Limb, lo : Limb]
  ELSE [hi : Double, lo : Double]

Modulus ==
  IF kind = "I128" THEN Square
  ELSE IF kind = "I192" THEN Square * Base ELSE Square * Square

\* The number below Modulus that an integer's bits spell.
Value(a) ==
  IF kind = "I128" THEN a
  ELSE IF kind = "I192" THEN (a.hi * Base + a.mid) * Base + a.lo ELSE a.hi * Square + a.lo

Init ==
  /\ \E i \in Instances : kind = i[1] /\ bits = i[2]
  /\ acc \in Numbers
  /\ exact = Value(acc)

Becomes(a, n) == acc' = a /\ exact' = n % Modulus /\ UNCHANGED <<kind, bits>>

\* The operators of the limb types.
Add == kind # "I128" /\ \E b \in Numbers :
         Becomes(IF kind = "I192" THEN Add192(acc, b) ELSE Add256(acc, b), exact + Value(b))
Sub == kind # "I128" /\ \E b \in Numbers :
         Becomes(IF kind = "I192" THEN Sub192(acc, b) ELSE Sub256(acc, b), exact - Value(b))
Neg == kind # "I128" /\ Becomes(IF kind = "I192" THEN Neg192(acc) ELSE Neg256(acc), -exact)
Mul == kind # "I128" /\ \E b \in Numbers :
         Becomes(IF kind = "I192" THEN Mul192(acc, b) ELSE Mul256(acc, b), exact * Value(b))

\* The primitives on a native integer, next to the portable backend's.
Multiply == kind = "I128" /\ \E b \in Numbers : Becomes(mul128(acc, b), exact * b)
TurnLeft == kind = "I128" /\ \E n \in 0 .. 4 * bits : Becomes(rotl128(acc, n), RotateLeft(exact, n))
TurnRight == kind = "I128" /\ \E n \in 0 .. 4 * bits : Becomes(rotr128(acc, n), RotateRight(exact, n))

\* cbox(sboxes(xbox(input))), next to sbox_transform.
Detour == kind = "I128" /\ Becomes(cbox(sboxes(xbox(acc))), sbox_transform(exact))

Next == Add \/ Sub \/ Neg \/ Mul \/ Multiply \/ TurnLeft \/ TurnRight \/ Detour

Spec == Init /\ [][Next]_vars

-----------------------------------------------------------------------------
\* Rotations by any count (0, half the width, the whole width and more), the
\* truncated product and the substitution by way of 192 bits give what the
\* native operations give, after any number of them: the registers swap,
\* shift and lose exactly the bits they should, and no sign gets in.
HalvesAreNative == kind = "I128" => acc = exact

\* Sums, differences, negations and products of I192 and I256 are those of the
\* integers modulo their width, on well-formed limbs: no carry or borrow is lost
\* or made up between limbs, between halves, or by a limb that happens to be
\* zero, the least number's negation included.
LimbsAreModular == kind # "I128" => acc \in Numbers /\ Value(acc) = exact

\* The accumulators of partial products never leave u128 ("we accumulate in
\* u128 to guarantee no overflow during intermediate sums"), whatever the
\* operands: a build that checks for overflow does not panic in a product.
IntermediatesFit ==
  /\ kind = "I192" =>
       \A b \in Numbers :
         {MidSum192(acc, b), CarryMid192(acc, b), HiSum192(acc, b)} \subseteq Double
  /\ kind = "I256" =>
       \A a \in {acc.hi, acc.lo}, b \in Double :
         {MidSum256(a, b), MulHi(a, b)} \subseteq Double
=============================================================================
