--------------------------- MODULE BigInts_proof ---------------------------
(***************************************************************************)
(* The limb arithmetic of I192 and I256 is arithmetic modulo their width,  *)
(* its accumulators fit, and the register sequences and the 192-bit detour *)
(* are the native operations, for limbs of any number of bits.  The        *)
(* identities between polynomials in the base that this comes to are       *)
(* lemmas over plain integers; the operators are then taken apart into     *)
(* quotients and remainders those lemmas speak of.  A rotation is four     *)
(* digits between powers of two; the detour is a run of bytes.             *)
(***************************************************************************)
EXTENDS BigInts, NumberFacts, SequenceTheorems, TLAPS

-----------------------------------------------------------------------------
\* Identities over the integers.

\* The remainder is the only one, for negative numbers too.
LEMMA IntModUnique ==
  ASSUME NEW n \in Nat \ {0}, NEW q \in Int, NEW r \in 0 .. n - 1
  PROVE  (n * q + r) % n = r
  BY Z3

\* Division with remainder of any integer.
LEMMA IntDivMod ==
  ASSUME NEW a \in Int, NEW n \in Nat \ {0}
  PROVE  /\ (a % n) \in 0 .. n - 1
         /\ (a \div n) \in Int
         /\ a = n * (a \div n) + (a % n)
  BY Z3

\* Three digits added, with the carries the limbs pass on.
LEMMA Carries3 ==
  ASSUME NEW B \in Int, NEW a2 \in Int, NEW a1 \in Int, NEW a0 \in Int,
         NEW b2 \in Int, NEW b1 \in Int, NEW b0 \in Int,
         NEW c0 \in Int, NEW s0 \in Int, NEW c1 \in Int, NEW s1 \in Int,
         NEW c2 \in Int, NEW s2 \in Int, NEW q \in Int, NEW s3 \in Int,
         a0 + b0 = B * c0 + s0, a1 + b1 = B * c1 + s1, s1 + c0 = B * c2 + s2,
         a2 + b2 + (c1 + c2) = B * q + s3
  PROVE  ((a2 * B + a1) * B + a0) + ((b2 * B + b1) * B + b0)
           = ((B * B) * B) * q + ((s3 * B + s2) * B + s0)
  BY Z3

\* Three digits subtracted, with the borrows.
LEMMA Borrows3 ==
  ASSUME NEW B \in Int, NEW a2 \in Int, NEW a1 \in Int, NEW a0 \in Int,
         NEW b2 \in Int, NEW b1 \in Int, NEW b0 \in Int,
         NEW c0 \in Int, NEW s0 \in Int, NEW c1 \in Int, NEW s1 \in Int,
         NEW c2 \in Int, NEW s2 \in Int, NEW q \in Int, NEW s3 \in Int,
         a0 - b0 = s0 - B * c0, a1 - b1 = s1 - B * c1, s1 - c0 = s2 - B * c2,
         a2 - b2 - (c1 + c2) = B * q + s3
  PROVE  ((a2 * B + a1) * B + a0) - ((b2 * B + b1) * B + b0)
           = ((B * B) * B) * q + ((s3 * B + s2) * B + s0)
  BY Z3

\* Three digits complemented, plus one.
LEMMA Complement3 ==
  ASSUME NEW B \in Int, NEW a2 \in Int, NEW a1 \in Int, NEW a0 \in Int,
         NEW c0 \in Int, NEW s0 \in Int, NEW c1 \in Int, NEW s1 \in Int,
         NEW q \in Int, NEW s2 \in Int,
         (B - 1 - a0) + 1 = B * c0 + s0, (B - 1 - a1) + c0 = B * c1 + s1,
         (B - 1 - a2) + c1 = B * q + s2
  PROVE  -((a2 * B + a1) * B + a0) = ((B * B) * B) * (q - 1) + ((s2 * B + s1) * B + s0)
  BY Z3

\* Three digits multiplied.
LEMMA Product3 ==
  ASSUME NEW B \in Int, NEW a2 \in Int, NEW a1 \in Int, NEW a0 \in Int,
         NEW b2 \in Int, NEW b1 \in Int, NEW b0 \in Int
  PROVE  ((a2 * B + a1) * B + a0) * ((b2 * B + b1) * B + b0)
           = a0 * b0 + B * (a0 * b1 + a1 * b0) + (B * B) * (a0 * b2 + a1 * b1 + a2 * b0)
               + ((B * B) * B) * (a1 * b2 + a2 * b1 + B * (a2 * b2))
  BY Z3

\* The columns of a product summed the way Mul192 sums them: h and l are the
\* halves of the partial products, hm and lm those of the middle sum.
LEMMA Columns3 ==
  ASSUME NEW B \in Int, NEW rest \in Int,
         NEW h00 \in Int, NEW l00 \in Int, NEW h01 \in Int, NEW l01 \in Int,
         NEW h10 \in Int, NEW l10 \in Int, NEW h02 \in Int, NEW l02 \in Int,
         NEW h11 \in Int, NEW l11 \in Int, NEW h20 \in Int, NEW l20 \in Int,
         NEW hm \in Int, NEW lm \in Int, NEW hh \in Int, NEW lh \in Int,
         h00 + l01 + l10 = B * hm + lm,
         (h01 + h10 + hm) + l02 + l11 + l20 = B * hh + lh
  PROVE  (B * h00 + l00) + B * ((B * h01 + l01) + (B * h10 + l10))
             + (B * B) * ((B * h02 + l02) + (B * h11 + l11) + (B * h20 + l20))
             + ((B * B) * B) * rest
           = ((B * B) * B) * (hh + h02 + h11 + h20 + rest) + ((lh * B + lm) * B + l00)
  BY Z3

\* Two digits multiplied, summed the way mul_u128 sums them.
LEMMA Columns2 ==
  ASSUME NEW B \in Int, NEW a1 \in Int, NEW a0 \in Int, NEW b1 \in Int, NEW b0 \in Int,
         NEW h00 \in Int, NEW l00 \in Int, NEW h01 \in Int, NEW l01 \in Int,
         NEW h10 \in Int, NEW l10 \in Int, NEW hm \in Int, NEW lm \in Int,
         a0 * b0 = B * h00 + l00, a0 * b1 = B * h01 + l01, a1 * b0 = B * h10 + l10,
         h00 + l01 + l10 = B * hm + lm
  PROVE  (B * a1 + a0) * (B * b1 + b0)
           = (B * B) * (a1 * b1 + hm + h01 + h10) + (lm * B + l00)
<1>1. (B * a1 + a0) * (B * b1 + b0)
        = (B * B) * (a1 * b1) + B * (a0 * b1) + B * (a1 * b0) + a0 * b0
  BY Z3
<1> DEFINE p == a1 * b1
<1>2. p \in Int
  OBVIOUS
<1> HIDE DEF p
<1>3. (B * B) * p + B * (B * h01 + l01) + B * (B * h10 + l10) + (B * h00 + l00)
        = (B * B) * (p + hm + h01 + h10) + (lm * B + l00)
  BY <1>2, Z3
<1> QED BY <1>1, <1>3 DEF p

-----------------------------------------------------------------------------
\* Powers of two.

\* The recursion defines a function, and a product of powers adds the exponents.
LEMMA PowersOfTwo ==
  /\ Pow2 \in [Nat -> Nat \ {0}]
  /\ Pow2[0] = 1
  /\ \A k \in Nat : Pow2[k + 1] = 2 * Pow2[k]
<1> DEFINE Body(g) == [k \in Nat |-> IF k = 0 THEN 1 ELSE 2 * g[k - 1]]
<1> DEFINE T == Nat \ {0}
<1> DEFINE step == [p \in Nat \X T |-> 2 * p[2]]
<1>1. step \in [Nat \X T -> T] /\ 1 \in T
  OBVIOUS
<1>2. \A k \in Nat, v \in T : step[<<k, v>>] = 2 * v
  OBVIOUS
<1> HIDE DEF step, T
<1>3. PICK f \in [Nat -> T] : f[0] = 1 /\ Unfolds(f, step)
  BY <1>1, RecursionExists
<1> USE DEF T
<1>4. f = Body(f)
  <2>1. ASSUME NEW k \in Nat PROVE f[k] = IF k = 0 THEN 1 ELSE 2 * f[k - 1]
    <3>1. CASE k # 0
      <4>1. k - 1 \in Nat /\ (k - 1) + 1 = k
        BY <3>1
      <4>2. f[(k - 1) + 1] = 2 * f[k - 1]
        BY <1>2, <1>3, <4>1 DEF Unfolds
      <4> QED BY <3>1, <4>1, <4>2
    <3> QED BY <1>3, <3>1
  <2> QED BY <2>1
<1>5. Pow2 = CHOOSE g : g = Body(g)
  BY DEF Pow2
<1>6. Pow2 = Body(Pow2)
  BY <1>4, <1>5
<1>7. Pow2[0] = 1 /\ \A k \in Nat : Pow2[k + 1] = 2 * Pow2[k]
  <2>1. Body(Pow2)[0] = 1
    OBVIOUS
  <2>2. ASSUME NEW k \in Nat PROVE Body(Pow2)[k + 1] = 2 * Pow2[k]
    <3>1. k + 1 \in Nat /\ k + 1 # 0 /\ (k + 1) - 1 = k
      OBVIOUS
    <3> QED BY <3>1
  <2> QED BY <1>6, <2>1, <2>2
<1> DEFINE S == {k \in Nat : Pow2[k] \in T}
<1>8. S = Nat
  <2>1. 0 \in S
    BY <1>7
  <2>2. ASSUME NEW k \in S PROVE k + 1 \in S
    <3>1. k \in Nat /\ Pow2[k] \in T /\ Pow2[k + 1] = 2 * Pow2[k]
      BY <1>7
    <3> QED BY <3>1
  <2>3. S \in SUBSET Nat
    OBVIOUS
  <2> HIDE DEF S
  <2> QED BY <2>1, <2>2, <2>3, Induction
<1>9. Pow2 \in [Nat -> T]
  <2>1. \A k \in Nat : Pow2[k] \in T
    BY <1>8
  <2>2. Pow2 = [k \in Nat |-> Pow2[k]]
    BY <1>6
  <2> QED BY <2>1, <2>2
<1> QED BY <1>7, <1>9

\* The law of exponents.
LEMMA Exponents ==
  ASSUME NEW j \in Nat, NEW k \in Nat
  PROVE  Pow2[j + k] = Pow2[j] * Pow2[k]
<1> DEFINE S == {i \in Nat : Pow2[j + i] = Pow2[j] * Pow2[i]}
<1>0. \A i \in Nat : Pow2[i] \in Nat
  BY PowersOfTwo
<1>1. 0 \in S
  <2>1. j + 0 = j /\ Pow2[0] = 1 /\ Pow2[j] \in Nat
    BY <1>0, PowersOfTwo
  <2> QED BY <2>1
<1>2. ASSUME NEW i \in S PROVE i + 1 \in S
  <2>1. i \in Nat /\ j + (i + 1) = (j + i) + 1 /\ j + i \in Nat /\ Pow2[j + i] = Pow2[j] * Pow2[i]
    OBVIOUS
  <2>2. Pow2[j + (i + 1)] = 2 * Pow2[j + i] /\ Pow2[i + 1] = 2 * Pow2[i]
    BY <2>1, PowersOfTwo
  <2>3. \A x, y \in Nat : 2 * (x * y) = x * (2 * y)
    BY Z3
  <2>4. 2 * (Pow2[j] * Pow2[i]) = Pow2[j] * (2 * Pow2[i])
    BY <1>0, <2>1, <2>3
  <2> QED BY <2>1, <2>2, <2>4
<1>3. S \in SUBSET Nat
  OBVIOUS
<1> HIDE DEF S
<1>4. S = Nat
  BY <1>1, <1>2, <1>3, Induction
<1> QED BY <1>4 DEF S

\* All but the first are more than one.
LEMMA PowerAboveOne ==
  ASSUME NEW k \in Nat \ {0}
  PROVE  Pow2[k] \in Nat /\ Pow2[k] > 1
<1>1. k - 1 \in Nat /\ (k - 1) + 1 = k
  OBVIOUS
<1>2. Pow2[k] = 2 * Pow2[k - 1] /\ Pow2[k - 1] \in Nat \ {0}
  BY <1>1, PowersOfTwo
<1> QED BY <1>2

-----------------------------------------------------------------------------
\* Limbs and the native operations on them.

\* One of the instances considered is under way.
Sized == <<kind, bits>> \in Instances

Num192 == [hi : Limb, mid : Limb, lo : Limb]
Num256 == [hi : Double, lo : Double]
Value192(a) == (a.hi * Base + a.mid) * Base + a.lo
Value256(a) == a.hi * Square + a.lo

\* The base is a number, and more than one.
LEMMA BaseType ==
  ASSUME Sized
  PROVE  /\ kind \in Kinds
         /\ Base \in Nat \ {0} /\ Base > 1
         /\ Square \in Nat \ {0} /\ Square > 1 /\ Square = Base * Base
         /\ Square * Base \in Nat \ {0} /\ Square * Square \in Nat \ {0}
<1>1. kind \in Kinds /\ Base \in Nat /\ Base > 1
  BY InstanceAssumption, PowerAboveOne DEF Sized, Base
<1> DEFINE B == Base
<1>2. B \in Nat /\ B > 1
  BY <1>1
<1> HIDE DEF B
<1>3. \A x, y \in Nat : x > 1 /\ y > 1 => x * y \in Nat /\ x * y > 1
  BY Z3
<1>4. B * B \in Nat /\ B * B > 1
  BY <1>2, <1>3
<1>5. /\ (B * B) * B \in Nat /\ (B * B) * B > 1
      /\ (B * B) * (B * B) \in Nat /\ (B * B) * (B * B) > 1
  BY <1>2, <1>3, <1>4
<1>6. Square = B * B
  BY DEF Square, B
<1>7. /\ Square \in Nat \ {0} /\ Square > 1
      /\ Square * Base \in Nat \ {0} /\ Square * Square \in Nat \ {0}
  BY <1>4, <1>5, <1>6 DEF B
<1> QED BY <1>1, <1>6, <1>7 DEF B

\* Wrapping keeps the remainder.
LEMMA WrapParts ==
  ASSUME NEW n \in Nat \ {0}, NEW x \in Int
  PROVE  \E q, s \in Int : x % n = s /\ s \in 0 .. n - 1 /\ x = n * q + s
<1>1. x % n \in 0 .. n - 1 /\ x \div n \in Int /\ x = n * (x \div n) + (x % n)
  BY IntDivMod
<1>2. x % n \in Int
  BY <1>1
<1> QED BY <1>1, <1>2

\* Overflowing addition splits the sum into a carry and a limb.
LEMMA AddParts ==
  ASSUME NEW n \in Nat \ {0}, NEW a \in Int, NEW b \in Int
  PROVE  \E c, s \in Int : /\ OverflowingAdd(n, a, b) = [num |-> s, carry |-> c]
                           /\ s \in 0 .. n - 1
                           /\ a + b = n * c + s
<1> DEFINE c == (a + b) \div n
<1> DEFINE s == (a + b) % n
<1>1. a + b \in Int
  OBVIOUS
<1>2. s \in 0 .. n - 1 /\ c \in Int /\ a + b = n * c + s
  BY <1>1, IntDivMod
<1>3. s \in Int
  BY <1>2
<1>4. OverflowingAdd(n, a, b) = [num |-> s, carry |-> c]
  BY DEF OverflowingAdd
<1> QED BY <1>2, <1>3, <1>4

\* Overflowing subtraction of numbers below n splits the difference into a
\* borrow and a limb.
LEMMA SubParts ==
  ASSUME NEW n \in Nat \ {0}, NEW a \in 0 .. n - 1, NEW b \in 0 .. n - 1
  PROVE  \E c, s \in Int : /\ OverflowingSub(n, a, b) = [num |-> s, borrow |-> c]
                           /\ s \in 0 .. n - 1 /\ c \in 0 .. 1
                           /\ a - b = s - n * c
<1>1. CASE a < b
  <2> DEFINE s == a - b + n
  <2>1. s \in 0 .. n - 1 /\ s \in Int /\ a - b = n * (-1) + s /\ a - b = s - n * 1
    BY <1>1
  <2>2. (n * (-1) + s) % n = s
    BY <2>1, IntModUnique
  <2>3. OverflowingSub(n, a, b) = [num |-> s, borrow |-> 1]
    BY <1>1, <2>1, <2>2 DEF OverflowingSub
  <2> QED BY <2>1, <2>3
<1>2. CASE ~(a < b)
  <2> DEFINE s == a - b
  <2>1. s \in 0 .. n - 1 /\ s \in Int /\ a - b = n * 0 + s /\ a - b = s - n * 0
    BY <1>2
  <2>2. (n * 0 + s) % n = s
    BY <2>1, IntModUnique
  <2>3. OverflowingSub(n, a, b) = [num |-> s, borrow |-> 0]
    BY <1>2, <2>1, <2>2 DEF OverflowingSub
  <2> QED BY <2>1, <2>3
<1> QED BY <1>1, <1>2

\* What an operation has to give to agree with the integers: a result that
\* differs from the exact number by a multiple of the modulus.
LEMMA Agrees ==
  ASSUME NEW n \in Nat \ {0}, NEW x \in Int, NEW v \in 0 .. n - 1,
         \E q \in Int : x = n * q + v
  PROVE  x % n = v
  BY IntModUnique

\* Limbs spell a number below the width.
LEMMA ValueBounds ==
  ASSUME Sized
  PROVE  /\ \A a \in Num192 : Value192(a) \in 0 .. (Square * Base) - 1
         /\ \A a \in Num256 : Value256(a) \in 0 .. (Square * Square) - 1
<1>1. \A n \in Nat \ {0}, B \in Nat \ {0} : \A x \in 0 .. n - 1, y \in 0 .. B - 1 :
        x * B + y \in 0 .. (n * B) - 1
  <2> SUFFICES ASSUME NEW n \in Nat \ {0}, NEW B \in Nat \ {0},
                      NEW x \in 0 .. n - 1, NEW y \in 0 .. B - 1
               PROVE  x * B + y \in 0 .. (n * B) - 1
    OBVIOUS
  <2>1. PICK z \in Nat : n = x + 1 + z
    <3>1. n - 1 - x \in Nat /\ n = x + 1 + (n - 1 - x)
      OBVIOUS
    <3> QED BY <3>1
  <2>2. n * B = x * B + B + z * B /\ z * B \in Nat /\ x * B \in Nat
    BY <2>1, Z3
  <2> QED BY <2>2
<1>2. ASSUME NEW a \in Num192 PROVE Value192(a) \in 0 .. (Square * Base) - 1
  <2>1. /\ Base \in Nat \ {0} /\ Base * Base \in Nat \ {0} /\ Square = Base * Base
        /\ a.hi \in 0 .. Base - 1 /\ a.mid \in 0 .. Base - 1 /\ a.lo \in 0 .. Base - 1
    BY BaseType DEF Num192, Limb
  <2>2. a.hi * Base + a.mid \in 0 .. (Base * Base) - 1
    BY <1>1, <2>1
  <2>3. (a.hi * Base + a.mid) * Base + a.lo \in 0 .. ((Base * Base) * Base) - 1
    BY <1>1, <2>1, <2>2
  <2> QED BY <2>1, <2>3 DEF Value192
<1>3. ASSUME NEW a \in Num256 PROVE Value256(a) \in 0 .. (Square * Square) - 1
  <2>1. /\ Square \in Nat \ {0}
        /\ a.hi \in 0 .. Square - 1 /\ a.lo \in 0 .. Square - 1
    BY BaseType DEF Num256, Double
  <2> QED BY <1>1, <2>1 DEF Value256
<1> QED BY <1>2, <1>3

-----------------------------------------------------------------------------
\* The operators of I192.

\* An I192 is three limbs, and three limbs are an I192.
LEMMA Limbs192 ==
  ASSUME Sized
  PROVE  /\ \A x2, x1, x0 \in 0 .. Base - 1 :
              /\ I192(x2, x1, x0) \in Num192
              /\ Value192(I192(x2, x1, x0)) = (x2 * Base + x1) * Base + x0
         /\ \A a \in Num192 : \E x2, x1, x0 \in 0 .. Base - 1 : a = I192(x2, x1, x0)
  BY DEF I192, Num192, Limb, Value192

\* No carry is lost or made up between the limbs of a sum.
LEMMA Add192Modular ==
  ASSUME Sized, NEW a \in Num192, NEW b \in Num192
  PROVE  /\ Add192(a, b) \in Num192
         /\ \E q \in Int :
              Value192(a) + Value192(b) = (Square * Base) * q + Value192(Add192(a, b))
<1> DEFINE B == Base
<1>1. B \in Nat \ {0} /\ B \in Int /\ Square * Base = (B * B) * B
  BY BaseType
<1>2. PICK a2, a1, a0 \in 0 .. B - 1 : a = I192(a2, a1, a0)
  BY Limbs192
<1>3. PICK b2, b1, b0 \in 0 .. B - 1 : b = I192(b2, b1, b0)
  BY Limbs192
<1>4. /\ Value192(a) = (a2 * B + a1) * B + a0 /\ Value192(b) = (b2 * B + b1) * B + b0
      /\ a2 \in Int /\ a1 \in Int /\ a0 \in Int /\ b2 \in Int /\ b1 \in Int /\ b0 \in Int
  BY <1>1, <1>2, <1>3, Limbs192
<1> HIDE DEF B
<1>5. PICK c0, s0 \in Int : /\ OverflowingAdd(B, a0, b0) = [num |-> s0, carry |-> c0]
                            /\ s0 \in 0 .. B - 1 /\ a0 + b0 = B * c0 + s0
  BY <1>1, <1>4, AddParts
<1>6. PICK c1, s1 \in Int : /\ OverflowingAdd(B, a1, b1) = [num |-> s1, carry |-> c1]
                            /\ s1 \in 0 .. B - 1 /\ a1 + b1 = B * c1 + s1
  BY <1>1, <1>4, AddParts
<1>7. PICK c2, s2 \in Int : /\ OverflowingAdd(B, s1, c0) = [num |-> s2, carry |-> c2]
                            /\ s2 \in 0 .. B - 1 /\ s1 + c0 = B * c2 + s2
  BY <1>1, AddParts
<1>8. PICK q, s3 \in Int : /\ (a2 + b2 + (c1 + c2)) % B = s3
                           /\ s3 \in 0 .. B - 1 /\ a2 + b2 + (c1 + c2) = B * q + s3
  <2> DEFINE x == a2 + b2 + (c1 + c2)
  <2>1. x \in Int
    BY <1>4
  <2> HIDE DEF x
  <2>2. \E q, s \in Int : x % B = s /\ s \in 0 .. B - 1 /\ x = B * q + s
    BY <1>1, <2>1, WrapParts
  <2> QED BY <2>2 DEF x
<1>9. Add192(a, b) = I192(s3, s2, s0)
  BY <1>2, <1>3, <1>5, <1>6, <1>7, <1>8 DEF Add192, Wrapping, I192, B
<1>10. /\ Add192(a, b) \in Num192
       /\ Value192(Add192(a, b)) = (s3 * B + s2) * B + s0
  BY <1>5, <1>7, <1>8, <1>9, Limbs192 DEF B
<1>11. ((a2 * B + a1) * B + a0) + ((b2 * B + b1) * B + b0)
         = ((B * B) * B) * q + ((s3 * B + s2) * B + s0)
  BY <1>1, <1>4, <1>5, <1>6, <1>7, <1>8, Carries3
<1> QED BY <1>1, <1>4, <1>10, <1>11

\* Nor a borrow between those of a difference.
LEMMA Sub192Modular ==
  ASSUME Sized, NEW a \in Num192, NEW b \in Num192
  PROVE  /\ Sub192(a, b) \in Num192
         /\ \E q \in Int :
              Value192(a) - Value192(b) = (Square * Base) * q + Value192(Sub192(a, b))
<1> DEFINE B == Base
<1>1. B \in Nat \ {0} /\ B \in Int /\ Square * Base = (B * B) * B
  BY BaseType
<1>2. PICK a2, a1, a0 \in 0 .. B - 1 : a = I192(a2, a1, a0)
  BY Limbs192
<1>3. PICK b2, b1, b0 \in 0 .. B - 1 : b = I192(b2, b1, b0)
  BY Limbs192
<1>4. /\ Value192(a) = (a2 * B + a1) * B + a0 /\ Value192(b) = (b2 * B + b1) * B + b0
      /\ a2 \in Int /\ a1 \in Int /\ a0 \in Int /\ b2 \in Int /\ b1 \in Int /\ b0 \in Int
  BY <1>1, <1>2, <1>3, Limbs192
<1> HIDE DEF B
<1>5. PICK c0, s0 \in Int : /\ OverflowingSub(B, a0, b0) = [num |-> s0, borrow |-> c0]
                            /\ s0 \in 0 .. B - 1 /\ c0 \in 0 .. 1 /\ a0 - b0 = s0 - B * c0
  BY <1>1, SubParts
<1>6. PICK c1, s1 \in Int : /\ OverflowingSub(B, a1, b1) = [num |-> s1, borrow |-> c1]
                            /\ s1 \in 0 .. B - 1 /\ c1 \in 0 .. 1 /\ a1 - b1 = s1 - B * c1
  BY <1>1, SubParts
<1>7. PICK c2, s2 \in Int : /\ OverflowingSub(B, s1, c0) = [num |-> s2, borrow |-> c2]
                            /\ s2 \in 0 .. B - 1 /\ c2 \in 0 .. 1 /\ s1 - c0 = s2 - B * c2
  <2>1. B > 1
    BY BaseType DEF B
  <2>2. c0 \in 0 .. B - 1
    BY <1>1, <1>5, <2>1
  <2> QED BY <1>1, <1>6, <2>2, SubParts
<1>8. PICK q, s3 \in Int : /\ (a2 - b2 - (c1 + c2)) % B = s3
                           /\ s3 \in 0 .. B - 1 /\ a2 - b2 - (c1 + c2) = B * q + s3
  <2>1. a2 - b2 - (c1 + c2) \in Int
    BY <1>4
  <2> QED BY <1>1, <2>1, WrapParts
<1>9. Sub192(a, b) = I192(s3, s2, s0)
  BY <1>2, <1>3, <1>5, <1>6, <1>7, <1>8 DEF Sub192, Wrapping, I192, B
<1>10. /\ Sub192(a, b) \in Num192
       /\ Value192(Sub192(a, b)) = (s3 * B + s2) * B + s0
  BY <1>5, <1>7, <1>8, <1>9, Limbs192 DEF B
<1>11. ((a2 * B + a1) * B + a0) - ((b2 * B + b1) * B + b0)
         = ((B * B) * B) * q + ((s3 * B + s2) * B + s0)
  BY <1>1, <1>4, <1>5, <1>6, <1>7, <1>8, Borrows3
<1> QED BY <1>1, <1>4, <1>10, <1>11

\* The complement plus one is the negation, a limb of zero and the least number
\* included: the carry is that of the addition, not a test for zero.
LEMMA Neg192Modular ==
  ASSUME Sized, NEW a \in Num192
  PROVE  /\ Neg192(a) \in Num192
         /\ \E q \in Int : -Value192(a) = (Square * Base) * q + Value192(Neg192(a))
<1> DEFINE B == Base
<1>1. B \in Nat \ {0} /\ B \in Int /\ Square * Base = (B * B) * B
  BY BaseType
<1>2. PICK a2, a1, a0 \in 0 .. B - 1 : a = I192(a2, a1, a0)
  BY Limbs192
<1>4. /\ Value192(a) = (a2 * B + a1) * B + a0
      /\ a2 \in Int /\ a1 \in Int /\ a0 \in Int
  BY <1>1, <1>2, Limbs192
<1> HIDE DEF B
<1>5. PICK c0, s0 \in Int : /\ OverflowingAdd(B, B - 1 - a0, 1) = [num |-> s0, carry |-> c0]
                            /\ s0 \in 0 .. B - 1 /\ (B - 1 - a0) + 1 = B * c0 + s0
  <2> DEFINE x == B - 1 - a0
  <2>1. x \in Int /\ 1 \in Int
    BY <1>1, <1>4
  <2> HIDE DEF x
  <2>2. \E c, s \in Int : /\ OverflowingAdd(B, x, 1) = [num |-> s, carry |-> c]
                          /\ s \in 0 .. B - 1 /\ x + 1 = B * c + s
    BY <1>1, <2>1, AddParts
  <2> QED BY <2>2 DEF x
<1>6. PICK c1, s1 \in Int : /\ OverflowingAdd(B, B - 1 - a1, c0) = [num |-> s1, carry |-> c1]
                            /\ s1 \in 0 .. B - 1 /\ (B - 1 - a1) + c0 = B * c1 + s1
  <2>1. B - 1 - a1 \in Int
    BY <1>1, <1>4
  <2> QED BY <1>1, <1>5, <2>1, AddParts
<1>7. PICK q, s2 \in Int : /\ ((B - 1 - a2) + c1) % B = s2
                           /\ s2 \in 0 .. B - 1 /\ (B - 1 - a2) + c1 = B * q + s2
  <2>1. (B - 1 - a2) + c1 \in Int
    BY <1>1, <1>4
  <2> QED BY <1>1, <2>1, WrapParts
<1>8. Neg192(a) = I192(s2, s1, s0)
  BY <1>2, <1>5, <1>6, <1>7 DEF Neg192, Not, Wrapping, I192, B
<1>9. /\ Neg192(a) \in Num192
      /\ Value192(Neg192(a)) = (s2 * B + s1) * B + s0
  BY <1>5, <1>6, <1>7, <1>8, Limbs192 DEF B
<1>10. -((a2 * B + a1) * B + a0) = ((B * B) * B) * (q - 1) + ((s2 * B + s1) * B + s0)
  BY <1>1, <1>4, <1>5, <1>6, <1>7, Complement3
<1>11. q - 1 \in Int /\ -Value192(a) = (Square * Base) * (q - 1) + Value192(Neg192(a))
  BY <1>1, <1>4, <1>9, <1>10
<1> QED BY <1>9, <1>11
\* The two halves of a number.
LEMMA Halves ==
  ASSUME Sized, NEW x \in Nat
  PROVE  \E h \in Nat, l \in 0 .. Base - 1 : Hi(x) = h /\ Lo(x) = l /\ x = Base * h + l
<1>1. Base \in Nat \ {0}
  BY BaseType
<1>2. (x % Base) \in 0 .. Base - 1 /\ (x \div Base) \in Nat /\ x = Base * (x \div Base) + (x % Base)
  BY <1>1, DivMod
<1> QED BY <1>2 DEF Hi, Lo

\* The high half of a product of limbs is less than the largest limb.
LEMMA ProductHalves ==
  ASSUME Sized, NEW x \in 0 .. Base - 1, NEW y \in 0 .. Base - 1
  PROVE  \E h \in 0 .. Base - 2, l \in 0 .. Base - 1 :
            Hi(x * y) = h /\ Lo(x * y) = l /\ x * y = Base * h + l
<1>1. Base \in Nat /\ Base > 1 /\ x \in Nat /\ y \in Nat
  BY BaseType
<1>2. x * y \in Nat
  BY <1>1, Z3
<1>3. PICK h \in Nat, l \in 0 .. Base - 1 :
        Hi(x * y) = h /\ Lo(x * y) = l /\ x * y = Base * h + l
  BY <1>2, Halves
<1>4. h \in 0 .. Base - 2
  <2>1. \A B, u, v, k, r \in Nat :
          B > 1 /\ u <= B - 1 /\ v <= B - 1 /\ u * v = B * k + r => k <= B - 2
    <3> SUFFICES ASSUME NEW B \in Nat, NEW u \in Nat, NEW v \in Nat, NEW k \in Nat, NEW r \in Nat,
                        B > 1, u <= B - 1, v <= B - 1, u * v = B * k + r, k >= B - 1
                 PROVE  FALSE
      OBVIOUS
    <3>1. u * v <= (B - 1) * (B - 1)
      BY Z3
    <3>2. B * k >= B * (B - 1)
      BY Z3
    <3>3. B * (B - 1) = (B - 1) * (B - 1) + (B - 1)
      BY Z3
    <3>4. u * v \in Nat /\ B * k \in Nat /\ B * (B - 1) \in Int /\ (B - 1) * (B - 1) \in Int
      BY Z3
    <3> QED BY <3>1, <3>2, <3>3, <3>4
  <2>2. l \in Nat
    BY <1>1
  <2>3. h <= Base - 2
    BY <1>1, <1>3, <2>1, <2>2
  <2> QED BY <1>1, <2>3
<1> QED BY <1>3, <1>4

\* The columns of a product of I192 and what they carry.
LEMMA Mul192Modular ==
  ASSUME Sized, NEW a \in Num192, NEW b \in Num192
  PROVE  /\ Mul192(a, b) \in Num192
         /\ \E q \in Int :
              Value192(a) * Value192(b) = (Square * Base) * q + Value192(Mul192(a, b))
<1> DEFINE B == Base
<1>1. B \in Nat \ {0} /\ B \in Int /\ Square * Base = (B * B) * B
  BY BaseType
<1>2. PICK a2, a1, a0 \in 0 .. B - 1 : a = I192(a2, a1, a0)
  BY Limbs192
<1>3. PICK b2, b1, b0 \in 0 .. B - 1 : b = I192(b2, b1, b0)
  BY Limbs192
<1>4. /\ Value192(a) = (a2 * B + a1) * B + a0 /\ Value192(b) = (b2 * B + b1) * B + b0
      /\ a2 \in Int /\ a1 \in Int /\ a0 \in Int /\ b2 \in Int /\ b1 \in Int /\ b0 \in Int
      /\ a.hi = a2 /\ a.mid = a1 /\ a.lo = a0 /\ b.hi = b2 /\ b.mid = b1 /\ b.lo = b0
  <2>1. a.hi = a2 /\ a.mid = a1 /\ a.lo = a0 /\ b.hi = b2 /\ b.mid = b1 /\ b.lo = b0
    BY <1>2, <1>3 DEF I192
  <2>2. /\ Value192(a) = (a2 * B + a1) * B + a0 /\ Value192(b) = (b2 * B + b1) * B + b0
        /\ a2 \in Int /\ a1 \in Int /\ a0 \in Int /\ b2 \in Int /\ b1 \in Int /\ b0 \in Int
    BY <1>1, <1>2, <1>3, Limbs192
  <2> QED BY <2>1, <2>2
<1>5. PICK h00 \in 0 .. B - 2, l00 \in 0 .. B - 1 :
        Hi(a0 * b0) = h00 /\ Lo(a0 * b0) = l00 /\ a0 * b0 = B * h00 + l00
  BY ProductHalves
<1>6. PICK h01 \in 0 .. B - 2, l01 \in 0 .. B - 1 :
        Hi(a0 * b1) = h01 /\ Lo(a0 * b1) = l01 /\ a0 * b1 = B * h01 + l01
  BY ProductHalves
<1>7. PICK h10 \in 0 .. B - 2, l10 \in 0 .. B - 1 :
        Hi(a1 * b0) = h10 /\ Lo(a1 * b0) = l10 /\ a1 * b0 = B * h10 + l10
  BY ProductHalves
<1>8. PICK h02 \in 0 .. B - 2, l02 \in 0 .. B - 1 :
        Hi(a0 * b2) = h02 /\ Lo(a0 * b2) = l02 /\ a0 * b2 = B * h02 + l02
  BY ProductHalves
<1>9. PICK h11 \in 0 .. B - 2, l11 \in 0 .. B - 1 :
        Hi(a1 * b1) = h11 /\ Lo(a1 * b1) = l11 /\ a1 * b1 = B * h11 + l11
  BY ProductHalves
<1>10. PICK h20 \in 0 .. B - 2, l20 \in 0 .. B - 1 :
        Hi(a2 * b0) = h20 /\ Lo(a2 * b0) = l20 /\ a2 * b0 = B * h20 + l20
  BY ProductHalves
<1>11. /\ B - 2 \in Nat
       /\ h00 \in Nat /\ l00 \in Nat /\ h01 \in Nat /\ l01 \in Nat /\ h10 \in Nat /\ l10 \in Nat
       /\ h02 \in Nat /\ l02 \in Nat /\ h11 \in Nat /\ l11 \in Nat /\ h20 \in Nat /\ l20 \in Nat
  BY BaseType
<1>12. MidSum192(a, b) = h00 + l01 + l10
  BY <1>4, <1>5, <1>6, <1>7 DEF MidSum192
<1>13. PICK hm \in Nat, lm \in 0 .. B - 1 :
         Hi(MidSum192(a, b)) = hm /\ Lo(MidSum192(a, b)) = lm /\ MidSum192(a, b) = B * hm + lm
  <2>1. MidSum192(a, b) \in Nat
    BY <1>11, <1>12
  <2> QED BY <2>1, Halves
<1>14. CarryMid192(a, b) = h01 + h10 + hm
  BY <1>4, <1>6, <1>7, <1>13 DEF CarryMid192
<1>15. HiSum192(a, b) = (h01 + h10 + hm) + l02 + l11 + l20
  BY <1>4, <1>8, <1>9, <1>10, <1>14 DEF HiSum192
<1>16. PICK hh \in Nat, lh \in 0 .. B - 1 :
         Hi(HiSum192(a, b)) = hh /\ Lo(HiSum192(a, b)) = lh /\ HiSum192(a, b) = B * hh + lh
  <2>1. HiSum192(a, b) \in Nat
    BY <1>11, <1>13, <1>15
  <2> QED BY <2>1, Halves
<1>17. Mul192(a, b) = I192(lh, lm, l00)
  BY <1>4, <1>5, <1>13, <1>16 DEF Mul192
<1>18. /\ Mul192(a, b) \in Num192
       /\ Value192(Mul192(a, b)) = (lh * B + lm) * B + l00
       /\ lh \in Nat /\ lm \in Nat
  BY <1>1, <1>17, Limbs192
<1> HIDE DEF B
<1> DEFINE rest == a1 * b2 + a2 * b1 + B * (a2 * b2)
<1>19. rest \in Int
  BY <1>1, <1>4, Z3
<1>20. Value192(a) * Value192(b)
         = a0 * b0 + B * (a0 * b1 + a1 * b0) + (B * B) * (a0 * b2 + a1 * b1 + a2 * b0)
             + ((B * B) * B) * rest
  BY <1>1, <1>4, Product3
<1> HIDE DEF rest
<1>21. Value192(a) * Value192(b)
         = (B * h00 + l00) + B * ((B * h01 + l01) + (B * h10 + l10))
             + (B * B) * ((B * h02 + l02) + (B * h11 + l11) + (B * h20 + l20))
             + ((B * B) * B) * rest
  BY <1>5, <1>6, <1>7, <1>8, <1>9, <1>10, <1>20
<1> DEFINE q == hh + h02 + h11 + h20 + rest
<1>22. q \in Int
  BY <1>11, <1>16, <1>19
<1>23. (B * h00 + l00) + B * ((B * h01 + l01) + (B * h10 + l10))
             + (B * B) * ((B * h02 + l02) + (B * h11 + l11) + (B * h20 + l20))
             + ((B * B) * B) * rest
         = ((B * B) * B) * q + ((lh * B + lm) * B + l00)
  <2>1. h00 + l01 + l10 = B * hm + lm
    BY <1>12, <1>13
  <2>2. (h01 + h10 + hm) + l02 + l11 + l20 = B * hh + lh
    BY <1>15, <1>16
  <2>3. /\ h00 \in Int /\ l00 \in Int /\ h01 \in Int /\ l01 \in Int /\ h10 \in Int /\ l10 \in Int
        /\ h02 \in Int /\ l02 \in Int /\ h11 \in Int /\ l11 \in Int /\ h20 \in Int /\ l20 \in Int
        /\ hm \in Int /\ lm \in Int /\ hh \in Int /\ lh \in Int
    BY <1>11, <1>18
  <2> HIDE DEF q
  <2>4. q = hh + h02 + h11 + h20 + rest
    BY DEF q
  <2> QED BY <1>1, <1>19, <2>1, <2>2, <2>3, <2>4, Columns3
<1> QED BY <1>1, <1>18, <1>21, <1>22, <1>23
-----------------------------------------------------------------------------
\* The operators of I256.

\* An I256 is two halves, and two halves are an I256.
LEMMA Halves256 ==
  ASSUME Sized
  PROVE  /\ \A x1, x0 \in 0 .. Square - 1 :
              /\ I256(x1, x0) \in Num256
              /\ Value256(I256(x1, x0)) = x1 * Square + x0
         /\ \A a \in Num256 : \E x1, x0 \in 0 .. Square - 1 : a = I256(x1, x0)
  BY DEF I256, Num256, Double, Value256

\* No carry is lost or made up between the halves of a sum.
LEMMA Add256Modular ==
  ASSUME Sized, NEW a \in Num256, NEW b \in Num256
  PROVE  /\ Add256(a, b) \in Num256
         /\ \E q \in Int :
              Value256(a) + Value256(b) = (Square * Square) * q + Value256(Add256(a, b))
<1> DEFINE S == Square
<1>1. S \in Nat \ {0} /\ S \in Int
  BY BaseType
<1>2. PICK a1, a0 \in 0 .. S - 1 : a = I256(a1, a0)
  BY Halves256
<1>3. PICK b1, b0 \in 0 .. S - 1 : b = I256(b1, b0)
  BY Halves256
<1>4. /\ Value256(a) = a1 * S + a0 /\ Value256(b) = b1 * S + b0
      /\ a1 \in Int /\ a0 \in Int /\ b1 \in Int /\ b0 \in Int
  BY <1>1, <1>2, <1>3, Halves256
<1> HIDE DEF S
<1>5. PICK c, s0 \in Int : /\ OverflowingAdd(S, a0, b0) = [num |-> s0, carry |-> c]
                           /\ s0 \in 0 .. S - 1 /\ a0 + b0 = S * c + s0
  BY <1>1, <1>4, AddParts
<1>6. PICK q, s1 \in Int : (a1 + b1 + c) % S = s1 /\ s1 \in 0 .. S - 1 /\ a1 + b1 + c = S * q + s1
  <2> DEFINE x == a1 + b1 + c
  <2>1. x \in Int
    BY <1>4
  <2> HIDE DEF x
  <2>2. \E q, s \in Int : x % S = s /\ s \in 0 .. S - 1 /\ x = S * q + s
    BY <1>1, <2>1, WrapParts
  <2> QED BY <2>2 DEF x
<1>7. Add256(a, b) = I256(s1, s0)
  BY <1>2, <1>3, <1>5, <1>6 DEF Add256, Wrapping, I256, S
<1>8. Add256(a, b) \in Num256 /\ Value256(Add256(a, b)) = s1 * S + s0
  BY <1>5, <1>6, <1>7, Halves256 DEF S
<1>9. (a1 * S + a0) + (b1 * S + b0) = (S * S) * q + (s1 * S + s0)
  BY <1>1, <1>4, <1>5, <1>6, Z3
<1> QED BY <1>4, <1>8, <1>9 DEF S

\* Nor a borrow between those of a difference.
LEMMA Sub256Modular ==
  ASSUME Sized, NEW a \in Num256, NEW b \in Num256
  PROVE  /\ Sub256(a, b) \in Num256
         /\ \E q \in Int :
              Value256(a) - Value256(b) = (Square * Square) * q + Value256(Sub256(a, b))
<1> DEFINE S == Square
<1>1. S \in Nat \ {0} /\ S \in Int
  BY BaseType
<1>2. PICK a1, a0 \in 0 .. S - 1 : a = I256(a1, a0)
  BY Halves256
<1>3. PICK b1, b0 \in 0 .. S - 1 : b = I256(b1, b0)
  BY Halves256
<1>4. /\ Value256(a) = a1 * S + a0 /\ Value256(b) = b1 * S + b0
      /\ a1 \in Int /\ a0 \in Int /\ b1 \in Int /\ b0 \in Int
  BY <1>1, <1>2, <1>3, Halves256
<1> HIDE DEF S
<1>5. PICK c, s0 \in Int : /\ OverflowingSub(S, a0, b0) = [num |-> s0, borrow |-> c]
                           /\ s0 \in 0 .. S - 1 /\ c \in 0 .. 1 /\ a0 - b0 = s0 - S * c
  BY <1>1, SubParts
<1>6. PICK q, s1 \in Int : (a1 - b1 - c) % S = s1 /\ s1 \in 0 .. S - 1 /\ a1 - b1 - c = S * q + s1
  <2> DEFINE x == a1 - b1 - c
  <2>1. x \in Int
    BY <1>4
  <2> HIDE DEF x
  <2>2. \E q, s \in Int : x % S = s /\ s \in 0 .. S - 1 /\ x = S * q + s
    BY <1>1, <2>1, WrapParts
  <2> QED BY <2>2 DEF x
<1>7. Sub256(a, b) = I256(s1, s0)
  BY <1>2, <1>3, <1>5, <1>6 DEF Sub256, Wrapping, I256, S
<1>8. Sub256(a, b) \in Num256 /\ Value256(Sub256(a, b)) = s1 * S + s0
  BY <1>5, <1>6, <1>7, Halves256 DEF S
<1>9. (a1 * S + a0) - (b1 * S + b0) = (S * S) * q + (s1 * S + s0)
  BY <1>1, <1>4, <1>5, <1>6, Z3
<1> QED BY <1>4, <1>8, <1>9 DEF S

\* The low half comes out zero exactly when the added one wrapped, so reading
\* the carry off a zero loses nothing here.
LEMMA Neg256Modular ==
  ASSUME Sized, NEW a \in Num256
  PROVE  /\ Neg256(a) \in Num256
         /\ \E q \in Int : -Value256(a) = (Square * Square) * q + Value256(Neg256(a))
<1> DEFINE S == Square
<1>1. S \in Nat \ {0} /\ S \in Int
  BY BaseType
<1>2. PICK a1, a0 \in 0 .. S - 1 : a = I256(a1, a0)
  BY Halves256
<1>4. Value256(a) = a1 * S + a0 /\ a1 \in Int /\ a0 \in Int
  BY <1>1, <1>2, Halves256
<1> HIDE DEF S
<1>5. PICK c, s0 \in Int : /\ ((S - 1 - a0) + 1) % S = s0
                           /\ s0 \in 0 .. S - 1 /\ (S - 1 - a0) + 1 = S * c + s0
                           /\ c = IF s0 = 0 THEN 1 ELSE 0
  <2>1. CASE a0 = 0
    <3>1. (S - 1 - a0) + 1 = S * 1 + 0
      BY <1>1, <2>1
    <3>2. (S * 1 + 0) % S = 0
      BY <1>1, IntModUnique
    <3> QED BY <1>1, <3>1, <3>2
  <2>2. CASE a0 # 0
    <3> DEFINE r == S - a0
    <3>1. (S - 1 - a0) + 1 = S * 0 + r /\ r \in 0 .. S - 1 /\ r # 0 /\ r \in Int
      BY <1>1, <1>4, <2>2
    <3> HIDE DEF r
    <3>2. (S * 0 + r) % S = r
      BY <1>1, <3>1, IntModUnique
    <3> QED BY <3>1, <3>2
  <2> QED BY <2>1, <2>2
<1>6. PICK q, s1 \in Int : /\ ((S - 1 - a1) + c) % S = s1
                           /\ s1 \in 0 .. S - 1 /\ (S - 1 - a1) + c = S * q + s1
  <2> DEFINE x == (S - 1 - a1) + c
  <2>1. x \in Int
    BY <1>1, <1>4
  <2> HIDE DEF x
  <2>2. \E q, s \in Int : x % S = s /\ s \in 0 .. S - 1 /\ x = S * q + s
    BY <1>1, <2>1, WrapParts
  <2> QED BY <2>2 DEF x
<1>7. Neg256(a) = I256(s1, s0)
  BY <1>2, <1>5, <1>6 DEF Neg256, Not, Wrapping, I256, S
<1>8. Neg256(a) \in Num256 /\ Value256(Neg256(a)) = s1 * S + s0
  BY <1>5, <1>6, <1>7, Halves256 DEF S
<1>9. -(a1 * S + a0) = (S * S) * (q - 1) + (s1 * S + s0)
  BY <1>1, <1>4, <1>5, <1>6, Z3
<1>10. q - 1 \in Int /\ -Value256(a) = (Square * Square) * (q - 1) + Value256(Neg256(a))
  BY <1>4, <1>8, <1>9 DEF S
<1> QED BY <1>8, <1>10

\* mul_u128 gives the whole product of two halves, and both its halves fit.
LEMMA MulParts ==
  ASSUME Sized, NEW a \in Double, NEW b \in Double
  PROVE  /\ MulHi(a, b) \in 0 .. Square - 1
         /\ MulLo(a, b) \in 0 .. Square - 1
         /\ a * b = Square * MulHi(a, b) + MulLo(a, b)
         /\ MidSum256(a, b) \in 0 .. 3 * Base - 4
<1> DEFINE B == Base
<1>1. B \in Nat \ {0} /\ B \in Int /\ B > 1 /\ Square = B * B /\ Square \in Nat \ {0}
  BY BaseType
<1>2. a \in 0 .. Square - 1 /\ b \in 0 .. Square - 1 /\ a \in Nat /\ b \in Nat
  BY <1>1 DEF Double
<1>3. \A x \in 0 .. Square - 1 : \E h, l \in 0 .. B - 1 : Hi(x) = h /\ Lo(x) = l /\ x = B * h + l
  <2> SUFFICES ASSUME NEW x \in 0 .. Square - 1
               PROVE  \E h, l \in 0 .. B - 1 : Hi(x) = h /\ Lo(x) = l /\ x = B * h + l
    OBVIOUS
  <2>1. x \in Nat /\ x < B * B
    BY <1>1
  <2>2. PICK h \in Nat, l \in 0 .. B - 1 : Hi(x) = h /\ Lo(x) = l /\ x = B * h + l
    BY <2>1, Halves
  <2>3. \A D, k \in Nat : k >= D => D * k >= D * D
    BY Z3
  <2>4. B * h >= B * B => x >= B * B
    <3>1. B * h \in Nat /\ B * B \in Nat /\ l \in Nat
      BY <1>1
    <3> QED BY <2>2, <3>1
  <2>5. B * B \in Nat
    BY <1>1
  <2>6. h < B
    BY <1>1, <2>1, <2>2, <2>3, <2>4, <2>5
  <2> QED BY <1>1, <2>2, <2>6
<1>4. PICK a1, a0 \in 0 .. B - 1 : Hi(a) = a1 /\ Lo(a) = a0 /\ a = B * a1 + a0
  BY <1>2, <1>3
<1>5. PICK b1, b0 \in 0 .. B - 1 : Hi(b) = b1 /\ Lo(b) = b0 /\ b = B * b1 + b0
  BY <1>2, <1>3
<1>6. PICK h00 \in 0 .. B - 2, l00 \in 0 .. B - 1 :
        Hi(a0 * b0) = h00 /\ Lo(a0 * b0) = l00 /\ a0 * b0 = B * h00 + l00
  BY ProductHalves
<1>7. PICK h01 \in 0 .. B - 2, l01 \in 0 .. B - 1 :
        Hi(a0 * b1) = h01 /\ Lo(a0 * b1) = l01 /\ a0 * b1 = B * h01 + l01
  BY ProductHalves
<1>8. PICK h10 \in 0 .. B - 2, l10 \in 0 .. B - 1 :
        Hi(a1 * b0) = h10 /\ Lo(a1 * b0) = l10 /\ a1 * b0 = B * h10 + l10
  BY ProductHalves
<1>9. MidSum256(a, b) = h00 + l01 + l10
  BY <1>4, <1>5, <1>6, <1>7, <1>8 DEF MidSum256
<1>10. MidSum256(a, b) \in Nat /\ MidSum256(a, b) <= 3 * B - 4
  BY <1>1, <1>9
<1>11. PICK hm \in Nat, lm \in 0 .. B - 1 :
         Hi(MidSum256(a, b)) = hm /\ Lo(MidSum256(a, b)) = lm /\ MidSum256(a, b) = B * hm + lm
  BY <1>10, Halves
<1>12. MulHi(a, b) = a1 * b1 + hm + h01 + h10
  BY <1>4, <1>5, <1>7, <1>8, <1>11 DEF MulHi
<1>13. MulLo(a, b) = lm * B + l00
  BY <1>4, <1>5, <1>6, <1>11 DEF MulLo, Joined
<1>14. /\ a1 \in Nat /\ a0 \in Nat /\ b1 \in Nat /\ b0 \in Nat
       /\ h00 \in Int /\ l00 \in Int /\ h01 \in Nat /\ l01 \in Int /\ h10 \in Nat /\ l10 \in Int
       /\ hm \in Nat /\ lm \in Int
  BY <1>1
<1> HIDE DEF B
<1>15. (B * a1 + a0) * (B * b1 + b0) = (B * B) * (a1 * b1 + hm + h01 + h10) + (lm * B + l00)
  <2>1. h00 + l01 + l10 = B * hm + lm
    BY <1>9, <1>11
  <2> QED BY <1>1, <1>6, <1>7, <1>8, <1>14, <2>1, Columns2
<1>16. a * b = Square * MulHi(a, b) + MulLo(a, b)
  BY <1>1, <1>4, <1>5, <1>12, <1>13, <1>15
<1>17. MulLo(a, b) \in 0 .. Square - 1
  <2>1. \A D, x \in Nat : x <= D - 1 => x * D <= D * D - D
    BY Z3
  <2>2. lm * B \in Nat /\ B * B \in Nat /\ lm \in Nat /\ l00 \in Nat /\ l00 <= B - 1 /\ lm <= B - 1
    BY <1>1, <1>14
  <2>3. lm * B <= B * B - B
    BY <1>1, <2>1, <2>2
  <2> QED BY <1>1, <1>13, <2>2, <2>3
<1>18. MulHi(a, b) \in Nat
  <2>1. a1 * b1 \in Nat
    BY <1>14, Z3
  <2> QED BY <1>12, <1>14, <2>1
<1>19. MulHi(a, b) <= Square - 1
  <2>1. \A S, x, y, m, l \in Nat : S > 0 /\ x <= S - 1 /\ y <= S - 1 /\ x * y = S * m + l => m <= S - 1
    <3> SUFFICES ASSUME NEW S \in Nat, NEW x \in Nat, NEW y \in Nat, NEW m \in Nat, NEW l \in Nat,
                        S > 0, x <= S - 1, y <= S - 1, x * y = S * m + l, m >= S
                 PROVE  FALSE
      OBVIOUS
    <3>1. x * y <= (S - 1) * (S - 1)
      BY Z3
    <3>2. S * m >= S * S
      BY Z3
    <3>3. S * S = (S - 1) * (S - 1) + S + (S - 1)
      BY Z3
    <3>4. x * y \in Nat /\ S * m \in Nat /\ S * S \in Int /\ (S - 1) * (S - 1) \in Int
      BY Z3
    <3> QED BY <3>1, <3>2, <3>3, <3>4
  <2>2. MulLo(a, b) \in Nat
    BY <1>1, <1>17
  <2> QED BY <1>1, <1>2, <1>16, <1>18, <2>1, <2>2
<1> QED BY <1>1, <1>10, <1>16, <1>17, <1>18, <1>19 DEF B
\* Two halves multiplied, of which only one product keeps its high half.
LEMMA Product2 ==
  ASSUME NEW S \in Int, NEW a1 \in Int, NEW a0 \in Int, NEW b1 \in Int, NEW b0 \in Int,
         NEW h00 \in Int, NEW l00 \in Int, NEW h01 \in Int, NEW l01 \in Int,
         NEW h10 \in Int, NEW l10 \in Int, NEW q \in Int, NEW s1 \in Int,
         a0 * b0 = S * h00 + l00, a0 * b1 = S * h01 + l01, a1 * b0 = S * h10 + l10,
         h00 + l10 + l01 = S * q + s1
  PROVE  (a1 * S + a0) * (b1 * S + b0)
           = (S * S) * (q + h10 + h01 + a1 * b1) + (s1 * S + l00)
<1>1. (a1 * S + a0) * (b1 * S + b0)
        = (S * S) * (a1 * b1) + S * (a0 * b1) + S * (a1 * b0) + a0 * b0
  BY Z3
<1> DEFINE p == a1 * b1
<1>2. p \in Int
  OBVIOUS
<1> HIDE DEF p
<1>3. (S * S) * p + S * (S * h01 + l01) + S * (S * h10 + l10) + (S * h00 + l00)
        = (S * S) * (q + h10 + h01 + p) + (s1 * S + l00)
  BY <1>2, Z3
<1> QED BY <1>1, <1>3 DEF p

\* The product of I256 keeps what is below its width.
LEMMA Mul256Modular ==
  ASSUME Sized, NEW a \in Num256, NEW b \in Num256
  PROVE  /\ Mul256(a, b) \in Num256
         /\ \E q \in Int :
              Value256(a) * Value256(b) = (Square * Square) * q + Value256(Mul256(a, b))
<1> DEFINE S == Square
<1>1. S \in Nat \ {0} /\ S \in Int
  BY BaseType
<1>2. PICK a1, a0 \in 0 .. S - 1 : a = I256(a1, a0)
  BY Halves256
<1>3. PICK b1, b0 \in 0 .. S - 1 : b = I256(b1, b0)
  BY Halves256
<1>4. /\ Value256(a) = a1 * S + a0 /\ Value256(b) = b1 * S + b0
      /\ a1 \in Int /\ a0 \in Int /\ b1 \in Int /\ b0 \in Int
  BY <1>1, <1>2, <1>3, Halves256
<1>5. \A x, y \in 0 .. S - 1 :
        \E h, l \in 0 .. S - 1 : MulHi(x, y) = h /\ MulLo(x, y) = l /\ x * y = S * h + l
  <2> SUFFICES ASSUME NEW x \in 0 .. S - 1, NEW y \in 0 .. S - 1
               PROVE  \E h, l \in 0 .. S - 1 :
                        MulHi(x, y) = h /\ MulLo(x, y) = l /\ x * y = S * h + l
    OBVIOUS
  <2>1. x \in Double /\ y \in Double
    BY DEF Double
  <2>2. /\ MulHi(x, y) \in 0 .. S - 1 /\ MulLo(x, y) \in 0 .. S - 1
        /\ x * y = S * MulHi(x, y) + MulLo(x, y)
    BY <2>1, MulParts
  <2> QED BY <2>2
<1>6. PICK h00, l00 \in 0 .. S - 1 :
        MulHi(a0, b0) = h00 /\ MulLo(a0, b0) = l00 /\ a0 * b0 = S * h00 + l00
  BY <1>5
<1>7. PICK h01, l01 \in 0 .. S - 1 :
        MulHi(a0, b1) = h01 /\ MulLo(a0, b1) = l01 /\ a0 * b1 = S * h01 + l01
  BY <1>5
<1>8. PICK h10, l10 \in 0 .. S - 1 :
        MulHi(a1, b0) = h10 /\ MulLo(a1, b0) = l10 /\ a1 * b0 = S * h10 + l10
  BY <1>5
<1>9. /\ h00 \in Int /\ l00 \in Int /\ h01 \in Int /\ l01 \in Int /\ h10 \in Int /\ l10 \in Int
  BY <1>1
<1> HIDE DEF S
<1>10. PICK q, s1 \in Int : /\ (h00 + l10 + l01) % S = s1
                            /\ s1 \in 0 .. S - 1 /\ h00 + l10 + l01 = S * q + s1
  <2> DEFINE x == h00 + l10 + l01
  <2>1. x \in Int
    BY <1>9
  <2> HIDE DEF x
  <2>2. \E q, s \in Int : x % S = s /\ s \in 0 .. S - 1 /\ x = S * q + s
    BY <1>1, <2>1, WrapParts
  <2> QED BY <2>2 DEF x
<1>11. Mul256(a, b) = I256(s1, l00)
  BY <1>2, <1>3, <1>6, <1>7, <1>8, <1>10 DEF Mul256, Wrapping, I256, S
<1>12. Mul256(a, b) \in Num256 /\ Value256(Mul256(a, b)) = s1 * S + l00
  BY <1>6, <1>10, <1>11, Halves256 DEF S
<1> DEFINE p == q + h10 + h01 + a1 * b1
<1>13. (a1 * S + a0) * (b1 * S + b0) = (S * S) * p + (s1 * S + l00)
  BY <1>1, <1>4, <1>6, <1>7, <1>8, <1>9, <1>10, Product2
<1>14. p \in Int
  BY <1>4, <1>9
<1> QED BY <1>4, <1>12, <1>13, <1>14 DEF S

\* mul128 is the truncated product: the two crossed products need no high half,
\* and the product of the high halves none at all.
LEMMA Mul128Native ==
  ASSUME Sized, NEW a \in Double, NEW b \in Double
  PROVE  mul128(a, b) = (a * b) % Square
<1> DEFINE B == Base
<1>1. B \in Nat \ {0} /\ B \in Int /\ Square = B * B /\ Square \in Nat \ {0}
  BY BaseType
<1>2. a \in Nat /\ b \in Nat
  BY <1>1 DEF Double
<1>3. PICK a1 \in Nat, a0 \in 0 .. B - 1 : Hi(a) = a1 /\ Lo(a) = a0 /\ a = B * a1 + a0
  BY <1>2, Halves
<1>4. PICK b1 \in Nat, b0 \in 0 .. B - 1 : Hi(b) = b1 /\ Lo(b) = b0 /\ b = B * b1 + b0
  BY <1>2, Halves
<1>5. a0 * b0 \in Nat /\ a1 * b0 \in Nat /\ a0 * b1 \in Nat /\ a1 * b1 \in Nat
  <2>1. a1 \in Nat /\ a0 \in Nat /\ b1 \in Nat /\ b0 \in Nat
    BY <1>1
  <2> QED BY <2>1, Z3
<1>6. PICK h00 \in Nat, l00 \in 0 .. B - 1 :
        Hi(a0 * b0) = h00 /\ Lo(a0 * b0) = l00 /\ a0 * b0 = B * h00 + l00
  BY <1>5, Halves
<1>7. PICK h01 \in Nat, l01 \in 0 .. B - 1 :
        Hi(a0 * b1) = h01 /\ Lo(a0 * b1) = l01 /\ a0 * b1 = B * h01 + l01
  BY <1>5, Halves
<1>8. PICK h10 \in Nat, l10 \in 0 .. B - 1 :
        Hi(a1 * b0) = h10 /\ Lo(a1 * b0) = l10 /\ a1 * b0 = B * h10 + l10
  BY <1>5, Halves
<1>9. h00 + l10 + l01 \in Nat
  BY <1>1
<1>10. PICK hm \in Nat, lm \in 0 .. B - 1 :
         Lo(h00 + l10 + l01) = lm /\ h00 + l10 + l01 = B * hm + lm
  BY <1>9, Halves
<1>11. mul128(a, b) = lm * B + l00
  BY <1>3, <1>4, <1>6, <1>7, <1>8, <1>10 DEF mul128, Joined
<1>12. /\ a1 \in Int /\ a0 \in Int /\ b1 \in Int /\ b0 \in Int
       /\ h00 \in Int /\ l00 \in Int /\ h01 \in Int /\ l01 \in Int /\ h10 \in Int /\ l10 \in Int
       /\ hm \in Int /\ lm \in Int
  BY <1>1
<1>13. lm * B + l00 \in 0 .. (B * B) - 1
  <2>1. \A D, x \in Nat : x <= D - 1 => x * D <= D * D - D
    BY Z3
  <2>2. lm * B \in Nat /\ B * B \in Nat /\ lm \in Nat /\ l00 \in Nat /\ l00 <= B - 1 /\ lm <= B - 1
    BY <1>1
  <2>3. lm * B <= B * B - B
    BY <1>1, <2>1, <2>2
  <2> QED BY <1>1, <2>2, <2>3
<1> HIDE DEF B
<1>14. (B * a1 + a0) * (B * b1 + b0) = (B * B) * (a1 * b1 + hm + h01 + h10) + (lm * B + l00)
  <2>1. h00 + l01 + l10 = B * hm + lm
    BY <1>10, <1>12
  <2> QED BY <1>1, <1>6, <1>7, <1>8, <1>12, <2>1, Columns2
<1> DEFINE q == a1 * b1 + hm + h01 + h10
<1> DEFINE v == lm * B + l00
<1>15. q \in Int /\ v \in 0 .. Square - 1 /\ a * b = Square * q + v
  BY <1>1, <1>3, <1>4, <1>5, <1>12, <1>13, <1>14
<1> HIDE DEF q, v
<1>16. (Square * q + v) % Square = v
  BY <1>1, <1>15, IntModUnique
<1> QED BY <1>11, <1>15, <1>16 DEF v
-----------------------------------------------------------------------------
\* Rotations: the halves of a native integer as two digits each, cut where the
\* bits that cross over end.

\* The quotient is the only one.
LEMMA DivUnique ==
  ASSUME NEW n \in Nat \ {0}, NEW q \in Int, NEW r \in 0 .. n - 1
  PROVE  (n * q + r) \div n = q
  BY Z3

\* Shifting a two-digit number up loses its high digit, shifting it down the low one.
LEMMA ShiftedDigits ==
  ASSUME NEW P \in Nat \ {0}, NEW Q \in Nat \ {0}, NEW q \in 0 .. P - 1, NEW r \in 0 .. Q - 1
  PROVE  /\ ((q * Q + r) * P) % (P * Q) = r * P
         /\ (q * Q + r) \div Q = q
<1> DEFINE B == P * Q
<1> DEFINE s == r * P
<1>1. B \in Nat \ {0}
  BY Z3
<1>2. s \in 0 .. B - 1
  BY TwoDigits
<1>3. (q * Q + r) * P = B * q + s
  BY Z3
<1>4. q * Q + r = Q * q + r
  BY Z3
<1> HIDE DEF B, s
<1>5. (B * q + s) % B = s
  BY <1>1, <1>2, IntModUnique
<1>6. (Q * q + r) \div Q = q
  BY DivUnique
<1> QED BY <1>3, <1>4, <1>5, <1>6 DEF B, s

\* A native integer of four digits turned by less than a half, and by a half more.
LEMMA TurnedDigits ==
  ASSUME NEW P \in Nat \ {0}, NEW Q \in Nat \ {0},
         NEW hq \in 0 .. P - 1, NEW hr \in 0 .. Q - 1,
         NEW lq \in 0 .. P - 1, NEW lr \in 0 .. Q - 1
  PROVE  LET B == P * Q
             a == (hq * Q + hr) * B + (lq * Q + lr)
         IN  /\ ((a * P) % (B * B)) + (a \div (Q * B)) = (hr * P + lq) * B + (lr * P + hq)
             /\ ((a * (P * B)) % (B * B)) + (a \div Q) = (lr * P + hq) * B + (hr * P + lq)
             /\ (hr * P + lq) * B + (lr * P + hq) \in 0 .. (B * B) - 1
             /\ (lr * P + hq) * B + (hr * P + lq) \in 0 .. (B * B) - 1
<1> DEFINE B == P * Q
<1> DEFINE a == (hq * Q + hr) * B + (lq * Q + lr)
<1> DEFINE S == B * B
<1> DEFINE u == hr * P + lq
<1> DEFINE v == lr * P
<1> DEFINE w == lr * P + hq
<1> DEFINE l == lq * Q + lr
<1>1. B \in Nat \ {0} /\ S \in Nat \ {0} /\ Q * B \in Nat \ {0}
  <2>1. \A x, y \in Nat \ {0} : x * y \in Nat \ {0}
    BY Z3
  <2>2. B \in Nat \ {0}
    BY <2>1
  <2> QED BY <2>1, <2>2
<1>2. u \in 0 .. B - 1 /\ v \in 0 .. B - 1 /\ w \in 0 .. B - 1
  BY TwoDigits
<1>3. l \in 0 .. B - 1
  <2>1. lq * Q + lr \in 0 .. (Q * P) - 1
    BY TwoDigits
  <2>2. Q * P = P * Q
    BY Z3
  <2> QED BY <2>1, <2>2
<1>4. hr * B + l \in 0 .. (Q * B) - 1
  <2>1. hr * B + l \in 0 .. (B * Q) - 1
    <3> HIDE DEF l
    <3> QED BY <1>1, <1>3, TwoDigits
  <2>2. B * Q = Q * B
    BY <1>1, Z3
  <2> QED BY <2>1, <2>2
<1>5. u * B + v \in 0 .. S - 1 /\ v * B \in 0 .. S - 1
  <2> HIDE DEF u, v
  <2> QED BY <1>1, <1>2, TwoDigits
<1>6. u * B + w \in 0 .. S - 1 /\ w * B + u \in 0 .. S - 1
  <2> HIDE DEF u, w
  <2> QED BY <1>1, <1>2, TwoDigits
<1>7. (a * P) % S = u * B + v
  <2>1. a * P = S * hq + (u * B + v)
    BY Z3
  <2> DEFINE r == u * B + v
  <2>2. r \in 0 .. S - 1
    BY <1>5
  <2> HIDE DEF r, S
  <2>3. (S * hq + r) % S = r
    BY <1>1, <2>2, IntModUnique
  <2> QED BY <2>1, <2>3 DEF r
<1>8. a \div (Q * B) = hq
  <2> DEFINE n == Q * B
  <2> DEFINE r == hr * B + l
  <2>1. a = n * hq + r
    BY Z3
  <2>2. r \in 0 .. n - 1 /\ n \in Nat \ {0}
    BY <1>1, <1>4
  <2> HIDE DEF n, r
  <2>3. (n * hq + r) \div n = hq
    BY <2>2, DivUnique
  <2> QED BY <2>1, <2>3 DEF n
<1>9. (a * (P * B)) % S = v * B
  <2> DEFINE q == hq * B + u
  <2> DEFINE r == v * B
  <2>1. a * (P * B) = S * q + r
    BY Z3
  <2>2. r \in 0 .. S - 1 /\ q \in Int
    BY <1>1, <1>2, <1>5
  <2> HIDE DEF r, q, S
  <2>3. (S * q + r) % S = r
    BY <1>1, <2>2, IntModUnique
  <2> QED BY <2>1, <2>3 DEF r
<1>10. a \div Q = hq * B + u
  <2> DEFINE q == hq * B + u
  <2>1. a = Q * q + lr
    BY Z3
  <2>2. q \in Int
    BY <1>1, <1>2
  <2> HIDE DEF q
  <2>3. (Q * q + lr) \div Q = q
    BY <2>2, DivUnique
  <2> QED BY <2>1, <2>3 DEF q
<1>11. (u * B + v) + hq = u * B + w
  BY <1>1, <1>2, Z3
<1>12. v * B + (hq * B + u) = w * B + u
  BY <1>1, <1>2, Z3
<1> HIDE DEF S
<1>13. ((a * P) % S) + (a \div (Q * B)) = u * B + w
  BY <1>7, <1>8, <1>11
<1>14. ((a * (P * B)) % S) + (a \div Q) = w * B + u
  BY <1>9, <1>10, <1>12
<1> QED BY <1>6, <1>13, <1>14 DEF S, u, w, B, a

\* A native integer is its halves.
LEMMA NativeHalves ==
  ASSUME Sized, NEW a \in Double
  PROVE  Hi(a) \in Limb /\ Lo(a) \in Limb /\ a = Hi(a) * Base + Lo(a)
<1> DEFINE B == Base
<1>1. B \in Nat \ {0} /\ a \in 0 .. B * B - 1
  BY BaseType DEF Double
<1>2. Lo(a) = a % B /\ Hi(a) = a \div B
  BY DEF Lo, Hi
<1> HIDE DEF B
<1>3. a % B \in 0 .. B - 1 /\ a \div B \in Int /\ a = B * (a \div B) + (a % B)
  BY <1>1, IntDivMod
<1> DEFINE q == a \div B
<1> DEFINE r == a % B
<1>4. q \in Int /\ r \in 0 .. B - 1 /\ a = B * q + r /\ a >= 0 /\ a < B * B
  BY <1>1, <1>3
<1> HIDE DEF q, r
<1>5. q >= 0
  <2>1. ASSUME q <= -1 PROVE B * q <= -B
    BY <1>1, <1>4, <2>1, Z3
  <2> QED BY <1>1, <1>4, <2>1
<1>6. q < B
  <2>1. ASSUME q >= B PROVE B * q >= B * B
    BY <1>1, <1>4, <2>1, Z3
  <2> QED BY <1>1, <1>4, <2>1
<1>7. B * q = q * B
  BY <1>1, <1>4, Z3
<1>8. q \in 0 .. B - 1 /\ a = q * B + r
  BY <1>1, <1>4, <1>5, <1>6, <1>7
<1> QED BY <1>2, <1>4, <1>8 DEF q, r, B, Limb

\* What the portable rotation by r bits to the left comes to.
TurnedBy(a, r) == ((a * Pow2[r]) % Square) + (a \div Pow2[2 * bits - r])

\* The two shifts of the register sequence turn by t, or by half the width more
\* when the halves are exchanged before them.
LEMMA LeftTurns ==
  ASSUME Sized, NEW a \in Double, NEW t \in 0 .. bits - 1
  PROVE  /\ Joined(Shld(Hi(a), Lo(a), t), Shld(Lo(a), Hi(a), t)) = TurnedBy(a, t)
         /\ Joined(Shld(Lo(a), Hi(a), t), Shld(Hi(a), Lo(a), t)) = TurnedBy(a, t + bits)
         /\ TurnedBy(a, t) \in Double /\ TurnedBy(a, t + bits) \in Double
<1> DEFINE H == Hi(a)
<1> DEFINE L == Lo(a)
<1> DEFINE P == Pow2[t]
<1> DEFINE Q == Pow2[bits - t]
<1>1. bits \in Nat \ {0}
  BY InstanceAssumption DEF Sized
<1>2. P \in Nat \ {0} /\ Q \in Nat \ {0}
  <2>1. t \in Nat /\ bits - t \in Nat
    BY <1>1
  <2> QED BY <2>1, PowersOfTwo
<1>3. Base = P * Q
  <2>1. t \in Nat /\ bits - t \in Nat /\ t + (bits - t) = bits
    BY <1>1
  <2>2. Pow2[t + (bits - t)] = Pow2[t] * Pow2[bits - t]
    BY <2>1, Exponents
  <2> QED BY <2>1, <2>2 DEF Base
<1>4. Pow2[t + bits] = P * Base
  BY <1>1, Exponents DEF Base
<1>5. Pow2[2 * bits - t] = Q * Base
  <2>1. bits - t \in Nat /\ 2 * bits - t = (bits - t) + bits
    BY <1>1
  <2> QED BY <1>1, <2>1, Exponents DEF Base
<1>6. 2 * bits - (t + bits) = bits - t
  BY <1>1
<1>7. H \in 0 .. P * Q - 1 /\ L \in 0 .. P * Q - 1 /\ a = H * Base + L
  BY <1>3, NativeHalves DEF Limb
<1>8. TurnedBy(a, t) = ((a * P) % (Base * Base)) + (a \div (Q * Base))
  BY <1>5 DEF TurnedBy, Square
<1>9. TurnedBy(a, t + bits) = ((a * (P * Base)) % (Base * Base)) + (a \div Q)
  BY <1>4, <1>6 DEF TurnedBy, Square
<1>10. /\ Shld(H, L, t) = ((H * P) % (P * Q)) + (L \div Q)
       /\ Shld(L, H, t) = ((L * P) % (P * Q)) + (H \div Q)
  BY <1>3 DEF Shld
<1> HIDE DEF H, L, P, Q
<1>11. ASSUME NEW x \in 0 .. P * Q - 1
       PROVE  \E q \in 0 .. P - 1 : \E r \in 0 .. Q - 1 : x = q * Q + r
  <2> DEFINE q == x \div Q
  <2> DEFINE r == x % Q
  <2>1. q \in Int /\ r \in 0 .. Q - 1 /\ x = Q * q + r
    BY <1>2, IntDivMod
  <2> HIDE DEF q, r
  <2>2. q >= 0
    <3>1. ASSUME q <= -1 PROVE Q * q <= -Q
      BY <1>2, <2>1, <3>1, Z3
    <3> QED BY <1>2, <2>1, <3>1
  <2>3. q < P
    <3>1. ASSUME q >= P PROVE Q * q >= P * Q
      BY <1>2, <2>1, <3>1, Z3
    <3>2. P * Q \in Int
      BY <1>2
    <3> QED BY <1>2, <2>1, <3>1, <3>2
  <2>4. Q * q = q * Q
    BY <1>2, <2>1, Z3
  <2>5. q \in 0 .. P - 1 /\ x = q * Q + r
    BY <1>2, <2>1, <2>2, <2>3, <2>4
  <2> QED BY <2>1, <2>5
<1>12. PICK hq \in 0 .. P - 1 : \E r \in 0 .. Q - 1 : H = hq * Q + r
  BY <1>7, <1>11
<1>13. PICK hr \in 0 .. Q - 1 : H = hq * Q + hr
  BY <1>12
<1>14. PICK lq \in 0 .. P - 1 : \E r \in 0 .. Q - 1 : L = lq * Q + r
  BY <1>7, <1>11
<1>15. PICK lr \in 0 .. Q - 1 : L = lq * Q + lr
  BY <1>14
<1>16. Shld(H, L, t) = hr * P + lq /\ Shld(L, H, t) = lr * P + hq
  <2>1. ((hq * Q + hr) * P) % (P * Q) = hr * P /\ (hq * Q + hr) \div Q = hq
    BY <1>2, ShiftedDigits
  <2>2. ((lq * Q + lr) * P) % (P * Q) = lr * P /\ (lq * Q + lr) \div Q = lq
    BY <1>2, ShiftedDigits
  <2> QED BY <1>10, <1>13, <1>15, <2>1, <2>2
<1>17. a = (hq * Q + hr) * Base + (lq * Q + lr)
  BY <1>7, <1>13, <1>15
<1> DEFINE B == Base
<1>18. B = P * Q /\ a = (hq * Q + hr) * B + (lq * Q + lr)
  BY <1>3, <1>17
<1> HIDE DEF B
<1>19. /\ ((a * P) % (B * B)) + (a \div (Q * B)) = (hr * P + lq) * B + (lr * P + hq)
       /\ ((a * (P * B)) % (B * B)) + (a \div Q) = (lr * P + hq) * B + (hr * P + lq)
       /\ (hr * P + lq) * B + (lr * P + hq) \in 0 .. (B * B) - 1
       /\ (lr * P + hq) * B + (hr * P + lq) \in 0 .. (B * B) - 1
  <2>1. LET C == P * Q
            c == (hq * Q + hr) * C + (lq * Q + lr)
        IN  /\ ((c * P) % (C * C)) + (c \div (Q * C)) = (hr * P + lq) * C + (lr * P + hq)
            /\ ((c * (P * C)) % (C * C)) + (c \div Q) = (lr * P + hq) * C + (hr * P + lq)
            /\ (hr * P + lq) * C + (lr * P + hq) \in 0 .. (C * C) - 1
            /\ (lr * P + hq) * C + (hr * P + lq) \in 0 .. (C * C) - 1
    BY <1>2, TurnedDigits
  <2> QED BY <1>18, <2>1
<1> QED BY <1>8, <1>9, <1>16, <1>19 DEF B, H, L, Joined, Double, Square

\* Shifting the other way fills from the other side.
LEMMA ShrdIsShld ==
  ASSUME Sized, NEW x \in Limb, NEW y \in Limb
  PROVE  /\ \A t \in 1 .. bits - 1 : Shrd(x, y, t) = Shld(y, x, bits - t)
         /\ Shrd(x, y, 0) = Shld(x, y, 0)
<1>1. bits \in Nat \ {0} /\ Base \in Nat \ {0}
  BY InstanceAssumption, BaseType DEF Sized
<1>2. ASSUME NEW t \in 1 .. bits - 1 PROVE Shrd(x, y, t) = Shld(y, x, bits - t)
  <2>1. bits - (bits - t) = t /\ t \in Nat /\ bits - t \in Nat
    BY <1>1
  <2>2. Pow2[t] \in Nat \ {0} /\ Pow2[bits - t] \in Nat \ {0}
    BY <2>1, PowersOfTwo
  <2> DEFINE up == (y * Pow2[bits - t]) % Base
  <2> DEFINE down == x \div Pow2[t]
  <2>3. Shrd(x, y, t) = down + up /\ Shld(y, x, bits - t) = up + down
    BY <2>1 DEF Shrd, Shld
  <2>4. up \in Int /\ down \in Int
    <3>1. PICK p \in Nat \ {0} : p = Pow2[t]
      BY <2>2
    <3>2. PICK q \in Nat \ {0} : q = Pow2[bits - t]
      BY <2>2
    <3>3. PICK b \in Nat \ {0} : b = Base
      BY <1>1
    <3>4. x \in Int /\ y \in Int
      BY <1>1 DEF Limb
    <3>5. PICK z \in Int : z = y * q
      BY <3>4
    <3>6. z % b \in 0 .. b - 1
      BY IntDivMod
    <3>7. x \div p \in Int
      BY <3>4, IntDivMod
    <3> QED BY <3>1, <3>2, <3>3, <3>5, <3>6, <3>7
  <2> HIDE DEF up, down
  <2> QED BY <2>3, <2>4
<1>3. Shrd(x, y, 0) = Shld(x, y, 0)
  <2> DEFINE B == Base
  <2>1. B \in Nat \ {0} /\ x \in 0 .. B - 1 /\ y \in 0 .. B - 1 /\ bits - 0 = bits /\ Pow2[0] = 1 /\ Pow2[bits] = B
    BY <1>1, PowersOfTwo DEF Limb, Base
  <2>2. Shrd(x, y, 0) = (x \div 1) + ((y * B) % B) /\ Shld(x, y, 0) = ((x * 1) % B) + (y \div B)
    BY <2>1 DEF Shrd, Shld, B
  <2> HIDE DEF B
  <2>3. x \div 1 = x /\ x * 1 = B * 0 + x /\ y * B = B * y + 0 /\ y = B * 0 + y /\ 0 \in 0 .. B - 1
    BY <2>1, Z3
  <2>4. (B * 0 + x) % B = x /\ (B * y + 0) % B = 0
    <3>1. y \in Int /\ 0 \in Int
      BY <2>1
    <3>2. (B * 0 + x) % B = x
      BY <2>1, <3>1, IntModUnique
    <3>3. (B * y + 0) % B = 0
      BY <2>1, <2>3, <3>1, IntModUnique
    <3> QED BY <3>2, <3>3
  <2>5. (B * 0 + y) \div B = 0
    BY <2>1, DivUnique
  <2>6. x \div 1 = x /\ (y * B) % B = 0 /\ (x * 1) % B = x /\ y \div B = 0
    BY <2>3, <2>4, <2>5
  <2> QED BY <2>1, <2>2, <2>6
<1> QED BY <1>2, <1>3

\* A count of the second half of its range, or of the first, reduced to one half.
LEMMA HalfCount ==
  ASSUME Sized, NEW n \in Nat
  PROVE  \E m \in 0 .. 2 * bits - 1 :
           /\ m = n % (2 * bits)
           /\ m % bits \in 0 .. bits - 1
           /\ m < bits => m % bits = m
           /\ m >= bits => m % bits = m - bits
<1>1. PICK b \in Nat \ {0} : b = bits
  BY InstanceAssumption DEF Sized
<1> DEFINE m == n % (2 * b)
<1>2. m \in 0 .. 2 * b - 1
  <2>1. 2 * b \in Nat \ {0}
    OBVIOUS
  <2> QED BY <2>1, IntDivMod
<1> HIDE DEF m
<1>3. m % b \in 0 .. b - 1
  BY <1>2, IntDivMod
<1>4. ASSUME m < b PROVE m % b = m
  <2>1. m \in 0 .. b - 1 /\ m = b * 0 + m
    BY <1>2, <1>4
  <2> QED BY <2>1, IntModUnique
<1>5. ASSUME m >= b PROVE m % b = m - b
  <2> DEFINE r == m - b
  <2>1. r \in 0 .. b - 1 /\ m = b * 1 + r
    BY <1>2, <1>5
  <2> HIDE DEF r
  <2>2. m % b = r
    BY <2>1, IntModUnique
  <2> QED BY <2>2 DEF r
<1> QED BY <1>1, <1>2, <1>3, <1>4, <1>5 DEF m

\* rotl128 by any count is the native rotation.
LEMMA RotatesLeft ==
  ASSUME Sized, NEW a \in Double, NEW n \in Nat
  PROVE  rotl128(a, n) = RotateLeft(a, n) /\ RotateLeft(a, n) \in Double
<1>1. PICK b \in Nat \ {0} : b = bits
  BY InstanceAssumption DEF Sized
<1>2. PICK m \in 0 .. 2 * bits - 1 :
        /\ m = n % (2 * bits)
        /\ m % bits \in 0 .. bits - 1
        /\ m < bits => m % bits = m
        /\ m >= bits => m % bits = m - bits
  BY HalfCount
<1>3. RotateLeft(a, n) = TurnedBy(a, m)
  BY <1>2 DEF RotateLeft, TurnedBy
<1>4. CASE m < bits
  <2>1. rotl128(a, n) = Joined(Shld(Hi(a), Lo(a), m), Shld(Lo(a), Hi(a), m))
    BY <1>1, <1>2, <1>4 DEF rotl128
  <2>2. m \in 0 .. bits - 1
    BY <1>1, <1>2, <1>4
  <2> QED BY <1>3, <2>1, <2>2, LeftTurns
<1>5. CASE m >= bits
  <2> DEFINE t == m - bits
  <2>1. rotl128(a, n) = Joined(Shld(Lo(a), Hi(a), t), Shld(Hi(a), Lo(a), t))
    BY <1>1, <1>2, <1>5 DEF rotl128
  <2>2. t \in 0 .. bits - 1 /\ t + bits = m
    BY <1>1, <1>2, <1>5
  <2> HIDE DEF t
  <2> QED BY <1>3, <2>1, <2>2, LeftTurns
<1> QED BY <1>1, <1>2, <1>4, <1>5

\* And so is rotr128, which the portable backend makes of a rotation to the left.
LEMMA RotatesRight ==
  ASSUME Sized, NEW a \in Double, NEW n \in Nat
  PROVE  rotr128(a, n) = RotateRight(a, n) /\ RotateRight(a, n) \in Double
<1>1. PICK b \in Nat \ {0} : b = bits
  BY InstanceAssumption DEF Sized
<1>2. PICK m \in 0 .. 2 * bits - 1 :
        /\ m = n % (2 * bits)
        /\ m % bits \in 0 .. bits - 1
        /\ m < bits => m % bits = m
        /\ m >= bits => m % bits = m - bits
  BY HalfCount
<1>3. Hi(a) \in Limb /\ Lo(a) \in Limb
  BY NativeHalves
<1> DEFINE k == 2 * bits - m
<1>4. k \in Nat /\ RotateRight(a, n) = RotateLeft(a, k)
  BY <1>1, <1>2 DEF RotateRight
<1>5. RotateLeft(a, k) = TurnedBy(a, k % (2 * bits))
  BY DEF RotateLeft, TurnedBy
<1>6. k % (2 * bits) = IF m = 0 THEN 0 ELSE k
  <2> DEFINE w == 2 * b
  <2>1. w \in Nat \ {0} /\ k \in 0 .. w /\ (k = w <=> m = 0) /\ 0 \in 0 .. w - 1 /\ w = 2 * bits
    BY <1>1, <1>2
  <2> HIDE DEF w, k
  <2>2. CASE k = w
    <3>1. k = w * 1 + 0
      BY <2>1, <2>2
    <3>2. (w * 1 + 0) % w = 0
      BY <2>1, IntModUnique
    <3> QED BY <2>1, <2>2, <3>1, <3>2
  <2>3. CASE k # w
    <3>1. k = w * 0 + k /\ k \in 0 .. w - 1
      BY <2>1, <2>3
    <3>2. (w * 0 + k) % w = k
      BY <2>1, <3>1, IntModUnique
    <3> QED BY <2>1, <2>3, <3>1, <3>2
  <2> QED BY <2>2, <2>3
<1> HIDE DEF k
<1>7. CASE m = 0
  <2>1. rotr128(a, n) = Joined(Shrd(Hi(a), Lo(a), 0), Shrd(Lo(a), Hi(a), 0))
    BY <1>1, <1>2, <1>7 DEF rotr128
  <2>2. 0 \in 0 .. bits - 1
    BY <1>1
  <2> QED BY <1>3, <1>4, <1>5, <1>6, <1>7, <2>1, <2>2, ShrdIsShld, LeftTurns
<1>8. CASE m \in 1 .. bits - 1
  <2>1. rotr128(a, n) = Joined(Shrd(Hi(a), Lo(a), m), Shrd(Lo(a), Hi(a), m))
    BY <1>1, <1>2, <1>8 DEF rotr128
  <2> DEFINE t == bits - m
  <2>2. t \in 0 .. bits - 1 /\ t + bits = k /\ m # 0
    BY <1>1, <1>2, <1>8 DEF k
  <2>3. Shrd(Hi(a), Lo(a), m) = Shld(Lo(a), Hi(a), t) /\ Shrd(Lo(a), Hi(a), m) = Shld(Hi(a), Lo(a), t)
    BY <1>3, <1>8, ShrdIsShld
  <2> HIDE DEF t
  <2> QED BY <1>4, <1>5, <1>6, <2>1, <2>2, <2>3, LeftTurns
<1>9. CASE m = bits
  <2>1. rotr128(a, n) = Joined(Shrd(Lo(a), Hi(a), 0), Shrd(Hi(a), Lo(a), 0))
    BY <1>1, <1>2, <1>9 DEF rotr128
  <2>2. 0 \in 0 .. bits - 1 /\ 0 + bits = k /\ m # 0
    BY <1>1, <1>9 DEF k
  <2>3. /\ Shrd(Lo(a), Hi(a), 0) = Shld(Lo(a), Hi(a), 0)
        /\ Shrd(Hi(a), Lo(a), 0) = Shld(Hi(a), Lo(a), 0)
    BY <1>3, ShrdIsShld
  <2>4. /\ Joined(Shld(Lo(a), Hi(a), 0), Shld(Hi(a), Lo(a), 0)) = TurnedBy(a, 0 + bits)
        /\ TurnedBy(a, 0 + bits) \in Double
    BY <2>2, LeftTurns
  <2> QED BY <1>4, <1>5, <1>6, <2>1, <2>2, <2>3, <2>4
<1>10. CASE m > bits
  <2> DEFINE t == m - bits
  <2>1. rotr128(a, n) = Joined(Shrd(Lo(a), Hi(a), t), Shrd(Hi(a), Lo(a), t))
    BY <1>1, <1>2, <1>10 DEF rotr128
  <2>2. t \in 1 .. bits - 1 /\ bits - t = k /\ k \in 0 .. bits - 1 /\ m # 0
    BY <1>1, <1>2, <1>10 DEF k
  <2> HIDE DEF t
  <2>3. Shrd(Lo(a), Hi(a), t) = Shld(Hi(a), Lo(a), k) /\ Shrd(Hi(a), Lo(a), t) = Shld(Lo(a), Hi(a), k)
    BY <1>3, <2>2, ShrdIsShld
  <2> QED BY <1>4, <1>5, <1>6, <2>1, <2>2, <2>3, LeftTurns
<1> QED BY <1>1, <1>2, <1>7, <1>8, <1>9, <1>10

-----------------------------------------------------------------------------
\* The bytes of a native integer: the detour boxes those of its halves, limb by
\* limb, and sbox_transform those of the whole, from the other end.

Radix == Pow2[ByteBits]
Byte == 0 .. Radix - 1

\* What a byte with k bytes below it is worth.
Weight(k) == Pow2[ByteBits * k]

\* The number after every byte read.
Spells(f, s) == f[0] = 0 /\ \A i \in 1 .. Len(s) : f[i] = f[i - 1] * Radix + s[i]

\* Weights are powers of the radix.
LEMMA Weights ==
  /\ Radix \in Nat \ {0}
  /\ \A k \in Nat : Weight(k) \in Nat \ {0}
  /\ Weight(0) = 1 /\ Weight(1) = Radix
  /\ \A j, k \in Nat : Weight(j + k) = Weight(j) * Weight(k)
<1>1. PICK b \in Nat \ {0} : b = ByteBits
  BY InstanceAssumption
<1>2. \A k \in Nat : b * k \in Nat
  BY Z3
<1>3. Radix \in Nat \ {0} /\ \A k \in Nat : Weight(k) \in Nat \ {0}
  BY <1>1, <1>2, PowersOfTwo DEF Radix, Weight
<1>4. Weight(0) = 1 /\ Weight(1) = Radix
  <2>1. b * 0 = 0 /\ b * 1 = b
    OBVIOUS
  <2> QED BY <1>1, <2>1, PowersOfTwo DEF Radix, Weight
<1>5. ASSUME NEW j \in Nat, NEW k \in Nat PROVE Weight(j + k) = Weight(j) * Weight(k)
  <2>1. b * (j + k) = b * j + b * k
    BY MulDistributes
  <2>2. Pow2[b * j + b * k] = Pow2[b * j] * Pow2[b * k]
    BY <1>2, Exponents
  <2> QED BY <1>1, <2>1, <2>2 DEF Weight
<1> QED BY <1>3, <1>4, <1>5

\* A limb of a native integer is so many whole bytes.
LEMMA LimbIsBytes ==
  ASSUME Sized, kind = "I128"
  PROVE  LimbBytes \in Nat \ {0} /\ Base = Weight(LimbBytes)
<1>1. PICK b \in Nat \ {0} : b = ByteBits
  BY InstanceAssumption
<1>2. bits \in Nat \ {0} /\ bits % ByteBits = 0
  <2>1. <<kind, bits>>[1] = "I128" /\ <<kind, bits>>[2] = bits
    OBVIOUS
  <2> QED BY <2>1, InstanceAssumption DEF Sized
<1>3. PICK w \in Nat \ {0} : w = bits
  BY <1>2
<1> DEFINE q == w \div b
<1>4. q \in Nat /\ w = b * q + (w % b)
  BY DivMod
<1> HIDE DEF q
<1>5. w = b * q
  BY <1>1, <1>2, <1>3, <1>4
<1>6. q # 0
  BY <1>5
<1>7. LimbBytes = q
  BY <1>1, <1>3 DEF LimbBytes, q
<1> QED BY <1>1, <1>3, <1>4, <1>5, <1>6, <1>7 DEF Weight, Base

\* Bytes are numbers below the radix.
LEMMA BytesAreNumbers ==
  ASSUME NEW s \in Seq(Byte)
  PROVE  /\ Len(s) \in Nat
         /\ \A i \in 1 .. Len(s) : s[i] \in 0 .. Radix - 1 /\ s[i] \in Nat
<1>1. Len(s) \in Nat
  OBVIOUS
<1>2. \A i \in 1 .. Len(s) : s[i] \in Byte
  OBVIOUS
<1>3. PICK d \in Nat : d = Radix
  BY Weights
<1>4. \A v \in 0 .. d - 1 : v \in Nat
  OBVIOUS
<1> QED BY <1>1, <1>2, <1>3, <1>4 DEF Byte

\* FromBeBytes is the last of the numbers read, and they are the only ones.
LEMMA NumberSpelled ==
  ASSUME NEW s \in Seq(Byte)
  PROVE  /\ \E f \in [0 .. Len(s) -> Nat] : Spells(f, s) /\ FromBeBytes(s) = f[Len(s)]
         /\ \A g : Spells(g, s) => FromBeBytes(s) = g[Len(s)]
<1> DEFINE n == Len(s)
<1> DEFINE Body(g) == [i \in 0 .. n |-> IF i = 0 THEN 0 ELSE g[i - 1] * Pow2[ByteBits] + s[i]]
<1> DEFINE digit(p) == IF p[1] + 1 \in 1 .. n THEN s[p[1] + 1] ELSE 0
<1> DEFINE step == [p \in Nat \X Nat |-> p[2] * Radix + digit(p)]
<1>1. n \in Nat /\ \A i \in 1 .. n : s[i] \in Nat
  BY BytesAreNumbers
<1>2. step \in [Nat \X Nat -> Nat]
  <2> SUFFICES ASSUME NEW p \in Nat \X Nat PROVE p[2] * Radix + digit(p) \in Nat
    OBVIOUS
  <2>1. digit(p) \in Nat /\ p[2] \in Nat /\ Radix \in Nat
    BY <1>1, Weights
  <2> HIDE DEF digit
  <2>2. p[2] * Radix \in Nat
    BY <2>1
  <2> QED BY <2>1, <2>2
<1>3. \A k \in 1 .. n, v \in Nat : step[<<k - 1, v>>] = v * Radix + s[k]
  BY <1>1
<1> HIDE DEF step
<1>4. PICK f \in [0 .. n -> Nat] : f[0] = 0 /\ Follows(f, Nat, step, n)
  BY <1>1, <1>2, LoopExists
<1>5. Spells(f, s)
  <2> SUFFICES ASSUME NEW i \in 1 .. n PROVE f[i] = f[i - 1] * Radix + s[i]
    BY <1>4 DEF Spells
  <2>1. i - 1 \in 0 .. n
    BY <1>1
  <2>2. f[i - 1] \in Nat
    BY <2>1
  <2>3. f[i] = step[<<i - 1, f[i - 1]>>]
    BY <1>4, <2>2 DEF Follows
  <2> QED BY <1>3, <2>2, <2>3
<1>6. ASSUME NEW g, Spells(g, s) PROVE f[n] = g[n]
  <2>1. Follows(g, Nat, step, n)
    <3> SUFFICES ASSUME NEW k \in 1 .. n, g[k - 1] \in Nat PROVE g[k] = step[<<k - 1, g[k - 1]>>]
      BY DEF Follows
    <3>1. g[k] = g[k - 1] * Radix + s[k]
      BY <1>6 DEF Spells
    <3> QED BY <1>3, <3>1
  <2>2. f[0] = g[0]
    BY <1>4, <1>6 DEF Spells
  <2>3. \A k \in 0 .. n : f[k] = g[k]
    BY <1>1, <1>4, <2>1, <2>2, LoopUnique
  <2> QED BY <1>1, <2>3
<1>7. FromBeBytes(s) = (CHOOSE g : g = Body(g))[n]
  BY DEF FromBeBytes
<1>8. f = Body(f)
  BY <1>4, <1>5 DEF Spells, Radix
<1> DEFINE number == CHOOSE g : g = Body(g)
<1>9. number = Body(number)
  BY <1>8
<1>10. Spells(number, s)
  <2> HIDE DEF number
  <2>1. number[0] = 0
    BY <1>1, <1>9
  <2>2. ASSUME NEW i \in 1 .. n PROVE number[i] = number[i - 1] * Radix + s[i]
    <3>1. i \in 0 .. n /\ i # 0
      BY <1>1
    <3> QED BY <1>9, <3>1 DEF Radix
  <2> QED BY <2>1, <2>2 DEF Spells
<1>11. FromBeBytes(s) = f[n]
  BY <1>6, <1>7, <1>10
<1> QED BY <1>4, <1>5, <1>6, <1>11

\* So many bytes spell a number below the weight of the next.
LEMMA NumberBounded ==
  ASSUME NEW s \in Seq(Byte)
  PROVE  FromBeBytes(s) \in 0 .. Weight(Len(s)) - 1
<1>1. PICK f \in [0 .. Len(s) -> Nat] : Spells(f, s) /\ FromBeBytes(s) = f[Len(s)]
  BY NumberSpelled
<1> DEFINE S == {k \in Nat : k <= Len(s) => f[k] \in 0 .. Weight(k) - 1}
<1>2. 0 \in S
  <2>1. f[0] = 0 /\ Weight(0) = 1
    BY <1>1, Weights DEF Spells
  <2>2. 0 \in 0 .. 1 - 1
    OBVIOUS
  <2>3. f[0] \in 0 .. Weight(0) - 1
    BY <2>1, <2>2
  <2> QED BY <2>3
<1>3. ASSUME NEW k \in S PROVE k + 1 \in S
  <2>1. CASE k + 1 <= Len(s)
    <3>1. k \in Nat /\ k + 1 \in 1 .. Len(s) /\ (k + 1) - 1 = k /\ f[k] \in 0 .. Weight(k) - 1
      BY <2>1
    <3>2. f[k + 1] = f[k] * Radix + s[k + 1]
      BY <1>1, <3>1 DEF Spells
    <3>3. s[k + 1] \in 0 .. Radix - 1
      BY <3>1, BytesAreNumbers
    <3>4. Weight(k + 1) = Radix * Weight(k) /\ Weight(k) \in Nat \ {0} /\ Radix \in Nat \ {0}
      <4>1. \A x, y \in Nat : x * y = y * x
        BY Z3
      <4>2. Weight(k + 1) = Weight(k) * Weight(1)
        BY <3>1, Weights
      <4> QED BY <3>1, <4>1, <4>2, Weights
    <3>5. f[k] * Radix + s[k + 1] \in 0 .. (Radix * Weight(k)) - 1
      BY <3>1, <3>3, <3>4, TwoDigits
    <3> QED BY <3>1, <3>2, <3>4, <3>5
  <2>2. CASE ~(k + 1 <= Len(s))
    BY <2>2
  <2> QED BY <2>1, <2>2
<1>4. S \in SUBSET Nat
  OBVIOUS
<1> HIDE DEF S
<1>5. S = Nat
  BY <1>2, <1>3, <1>4, Induction
<1>6. Len(s) \in S
  BY <1>5
<1> QED BY <1>1, <1>6 DEF S

\* Bytes read one run after the other: the first run is worth what lies above
\* the second.
LEMMA NumberJoined ==
  ASSUME NEW s \in Seq(Byte), NEW t \in Seq(Byte), NEW r \in Seq(Byte),
         Len(r) = Len(s) + Len(t),
         \A i \in 1 .. Len(s) : r[i] = s[i],
         \A i \in 1 .. Len(t) : r[Len(s) + i] = t[i]
  PROVE  FromBeBytes(r) = FromBeBytes(s) * Weight(Len(t)) + FromBeBytes(t)
<1> DEFINE m == Len(s)
<1> DEFINE n == Len(t)
<1>1. PICK f \in [0 .. m -> Nat] : Spells(f, s) /\ FromBeBytes(s) = f[m]
  BY NumberSpelled
<1>2. PICK g \in [0 .. n -> Nat] : Spells(g, t) /\ FromBeBytes(t) = g[n]
  BY NumberSpelled
<1>3. m \in Nat /\ n \in Nat /\ f[m] \in Nat /\ Len(r) = m + n
  <2>1. m \in Nat /\ n \in Nat
    BY BytesAreNumbers
  <2>2. m \in 0 .. m
    BY <2>1
  <2>3. f[m] \in Nat
    BY <2>2
  <2> QED BY <2>1, <2>3
<1> DEFINE h == [i \in 0 .. m + n |-> IF i <= m THEN f[i] ELSE f[m] * Weight(i - m) + g[i - m]]
<1>4. ASSUME NEW i \in 0 .. n PROVE h[m + i] = f[m] * Weight(i) + g[i]
  <2>1. m + i \in 0 .. m + n /\ (m + i) - m = i
    BY <1>3
  <2>2. CASE i = 0
    <3>1. h[m + i] = f[m] /\ g[i] = 0 /\ Weight(i) = 1
      BY <1>2, <1>3, <2>1, <2>2, Weights DEF Spells
    <3> QED BY <1>3, <3>1
  <2>3. CASE i # 0
    BY <1>3, <2>1, <2>3
  <2> QED BY <2>2, <2>3
<1>5. h[0] = 0 /\ \A i \in 0 .. m : h[i] = f[i]
  BY <1>1, <1>3 DEF Spells
<1> HIDE DEF h
<1>6. Spells(h, r)
  <2> SUFFICES ASSUME NEW i \in 1 .. m + n PROVE h[i] = h[i - 1] * Radix + r[i]
    BY <1>3, <1>5 DEF Spells
  <2>1. CASE i <= m
    <3>1. i \in 1 .. m /\ i \in 0 .. m /\ i - 1 \in 0 .. m
      BY <1>3, <2>1
    <3>2. f[i] = f[i - 1] * Radix + s[i] /\ r[i] = s[i]
      BY <1>1, <3>1 DEF Spells
    <3> QED BY <1>5, <3>1, <3>2
  <2>2. CASE i > m
    <3> DEFINE k == i - m
    <3>1. k \in 1 .. n /\ k \in 0 .. n /\ k - 1 \in 0 .. n /\ i = m + k /\ i - 1 = m + (k - 1)
          /\ k - 1 \in Nat /\ (k - 1) + 1 = k
      BY <1>3, <2>2
    <3> HIDE DEF k
    <3>2. g[k] = g[k - 1] * Radix + t[k] /\ r[m + k] = t[k]
      BY <1>2, <3>1 DEF Spells
    <3>3. PICK w \in Nat : w = Weight(k - 1)
      BY <3>1, Weights
    <3>4. PICK d \in Nat : d = Radix
      BY Weights
    <3>5. Weight(k) = w * d
      <4>1. Weight((k - 1) + 1) = Weight(k - 1) * Weight(1)
        BY <3>1, Weights
      <4> QED BY <3>1, <3>3, <3>4, <4>1, Weights
    <3>6. h[i] = f[m] * (w * d) + (g[k - 1] * d + t[k]) /\ h[i - 1] = f[m] * w + g[k - 1]
      BY <1>4, <3>1, <3>2, <3>3, <3>4, <3>5
    <3>7. PICK x \in Nat : x = f[m]
      BY <1>3
    <3>8. PICK y \in Nat : y = g[k - 1]
      BY <3>1
    <3>9. PICK z \in Nat : z = t[k]
      BY <3>1, BytesAreNumbers
    <3>10. x * (w * d) + (y * d + z) = (x * w + y) * d + z
      BY Z3
    <3>11. r[i] = z
      BY <3>1, <3>2, <3>9
    <3> QED BY <3>4, <3>6, <3>7, <3>8, <3>9, <3>10, <3>11
  <2> QED BY <1>3, <2>1, <2>2
<1>7. FromBeBytes(r) = h[m + n]
  BY <1>3, <1>6, NumberSpelled
<1>8. h[m + n] = f[m] * Weight(n) + g[n]
  BY <1>3, <1>4
<1> QED BY <1>1, <1>2, <1>7, <1>8

\* A byte with the whole low limb below it is one of the high limb.
LEMMA HighByte ==
  ASSUME NEW a \in Nat, NEW B \in Nat \ {0}, NEW w \in Nat \ {0}
  PROVE  a \div (B * w) = (a \div B) \div w
<1> DEFINE q == a \div B
<1> DEFINE r == a % B
<1>1. q \in Nat /\ r \in 0 .. B - 1 /\ a = B * q + r
  BY DivMod
<1> HIDE DEF r
<1> DEFINE p == q \div w
<1> DEFINE u == q % w
<1>2. p \in Nat /\ u \in 0 .. w - 1 /\ q = w * p + u
  BY <1>1, DivMod
<1> HIDE DEF q, p, u
<1> DEFINE n == B * w
<1> DEFINE v == u * B + r
<1>3. v \in 0 .. n - 1
  BY <1>1, <1>2, TwoDigits
<1>4. a = n * p + v
  <2>1. B * (w * p + u) + r = (B * w) * p + (u * B + r)
    BY <1>1, <1>2, Z3
  <2> QED BY <1>1, <1>2, <2>1
<1>5. n \in Nat \ {0}
  BY Z3
<1> HIDE DEF n, v
<1>6. (n * p + v) \div n = p
  BY <1>2, <1>3, <1>5, DivUnique
<1> QED BY <1>4, <1>6 DEF n, p, q

\* What of a number lies above a limb of weight w * (v * d).
Above(z, x, w, v, d) == z = x * (w * (v * d))

\* A byte of the low limb is what it is whatever the high limb holds.
LEMMA LowByte ==
  ASSUME NEW x \in Nat, NEW l \in Nat, NEW z \in Nat,
         NEW w \in Nat \ {0}, NEW v \in Nat \ {0}, NEW d \in Nat \ {0}, Above(z, x, w, v, d)
  PROVE  ((z + l) \div w) % d = (l \div w) % d
<1> DEFINE p == l \div w
<1> DEFINE u == l % w
<1>1. p \in Nat /\ u \in 0 .. w - 1 /\ l = w * p + u
  BY DivMod
<1> HIDE DEF p, u
<1> DEFINE q == p \div d
<1> DEFINE r == p % d
<1>2. q \in Nat /\ r \in 0 .. d - 1 /\ p = d * q + r
  BY <1>1, DivMod
<1> HIDE DEF q, r
<1> DEFINE k == x * (v * d) + p
<1> DEFINE j == x * v + q
<1>3. k \in Nat /\ j \in Nat
  <2>1. x * (v * d) \in Nat /\ x * v \in Nat
    BY Z3
  <2> QED BY <1>1, <1>2, <2>1
<1>4. x * (w * (v * d)) + l = w * k + u
  BY <1>1, Z3
<1>5. k = d * j + r
  BY <1>1, <1>2, Z3
<1> HIDE DEF k, j
<1>6. (w * k + u) \div w = k
  BY <1>1, <1>3, DivUnique
<1>7. (d * j + r) % d = r
  BY <1>2, <1>3, ModUnique
<1> QED BY <1>4, <1>5, <1>6, <1>7 DEF p, r, Above

\* The n bytes of x, substituted.
Run(x, n) == [i \in 1 .. n |-> Box[BeBytes(x, n)[i]]]

\* A run is so many bytes, each the substitute of the byte at its weight.
LEMMA RunOfBytes ==
  ASSUME NEW x \in Nat, NEW n \in Nat
  PROVE  /\ Run(x, n) \in Seq(Byte) /\ Len(Run(x, n)) = n
         /\ \A i \in 1 .. n : /\ BeBytes(x, n)[i] = (x \div Weight(n - i)) % Radix
                              /\ BeBytes(x, n)[i] \in Byte
                              /\ Run(x, n)[i] = Box[(x \div Weight(n - i)) % Radix]
                              /\ Run(x, n)[i] \in Byte
<1>1. ASSUME NEW i \in 1 .. n
      PROVE  /\ BeBytes(x, n)[i] = (x \div Weight(n - i)) % Radix
             /\ (x \div Weight(n - i)) % Radix \in Byte
             /\ Run(x, n)[i] = Box[(x \div Weight(n - i)) % Radix]
             /\ Run(x, n)[i] \in Byte
  <2>1. BeBytes(x, n)[i] = (x \div Weight(n - i)) % Radix
    BY DEF BeBytes, Weight, Radix
  <2>2. n - i \in Nat
    OBVIOUS
  <2>3. PICK w \in Nat \ {0} : w = Weight(n - i)
    BY <2>2, Weights
  <2>4. PICK d \in Nat \ {0} : d = Radix
    BY Weights
  <2>5. x \div w \in Nat
    BY DivMod
  <2>6. (x \div w) % d \in 0 .. d - 1
    BY <2>5, DivMod
  <2>7. (x \div Weight(n - i)) % Radix \in Byte
    BY <2>3, <2>4, <2>6 DEF Byte
  <2>8. Box \in [Byte -> Byte]
    BY InstanceAssumption DEF Byte, Radix
  <2> QED BY <2>1, <2>7, <2>8 DEF Run
<1>2. Run(x, n) = [i \in 1 .. n |-> Run(x, n)[i]]
  BY DEF Run
<1>3. Run(x, n) \in [1 .. n -> Byte]
  BY <1>1, <1>2
<1>4. Run(x, n) \in Seq(Byte) /\ Len(Run(x, n)) = n
  BY <1>3
<1> QED BY <1>1, <1>4

\* The two low limbs of sboxes are the substituted runs of the two halves.
LEMMA BoxedLimbs ==
  ASSUME NEW h \in Nat, NEW l \in Nat, LimbBytes \in Nat
  PROVE  /\ sboxes(I192(0, h, l)).mid = FromBeBytes(Run(h, LimbBytes))
         /\ sboxes(I192(0, h, l)).lo = FromBeBytes(Run(l, LimbBytes))
<1> DEFINE n == LimbBytes
<1> DEFINE z == BeBytes(0, n)
<1> DEFINE s == BeBytes(h, n)
<1> DEFINE t == BeBytes(l, n)
<1> DEFINE bytes == z \o s \o t
<1> DEFINE boxed == [i \in DOMAIN bytes |-> Box[bytes[i]]]
<1>1. sboxes(I192(0, h, l)) =
        I192(FromBeBytes(SubSeq(boxed, 0 * LimbBytes + 1, (0 + 1) * LimbBytes)),
             FromBeBytes(SubSeq(boxed, 1 * LimbBytes + 1, (1 + 1) * LimbBytes)),
             FromBeBytes(SubSeq(boxed, 2 * LimbBytes + 1, (2 + 1) * LimbBytes)))
  BY DEF sboxes, I192
<1>2. ASSUME NEW x \in Nat
      PROVE  /\ BeBytes(x, n) \in Seq(Byte) /\ Len(BeBytes(x, n)) = n
             /\ \A i \in 1 .. n : Run(x, n)[i] = Box[BeBytes(x, n)[i]]
  <2>1. BeBytes(x, n) = [i \in 1 .. n |-> BeBytes(x, n)[i]]
    BY DEF BeBytes
  <2>2. BeBytes(x, n) \in [1 .. n -> Byte]
    BY <2>1, RunOfBytes
  <2>3. BeBytes(x, n) \in Seq(Byte) /\ Len(BeBytes(x, n)) = n
    BY <2>2
  <2> QED BY <2>3 DEF Run
<1>3. /\ z \in Seq(Byte) /\ s \in Seq(Byte) /\ t \in Seq(Byte)
      /\ Len(z) = n /\ Len(s) = n /\ Len(t) = n /\ n \in Nat
  BY <1>2
<1> HIDE DEF z, s, t, n
<1>4. /\ z \o s \in Seq(Byte) /\ Len(z \o s) = n + n
      /\ \A i \in 1 .. n + n : (z \o s)[i] = IF i <= n THEN z[i] ELSE s[i - n]
  <2>1. z \o s \in Seq(Byte) /\ Len(z \o s) = n + n
    <3>1. z \o s \in Seq(Byte)
      BY <1>3, ConcatProperties
    <3>2. Len(z \o s) = Len(z) + Len(s)
      BY <1>3, ConcatProperties
    <3> QED BY <1>3, <3>1, <3>2
  <2>2. ASSUME NEW i \in 1 .. n + n PROVE (z \o s)[i] = IF i <= n THEN z[i] ELSE s[i - n]
    <3>1. i \in 1 .. Len(z) + Len(s)
      BY <1>3
    <3>2. (z \o s)[i] = IF i <= Len(z) THEN z[i] ELSE s[i - Len(z)]
      BY <1>3, <3>1, ConcatProperties
    <3> QED BY <1>3, <3>2
  <2> QED BY <2>1, <2>2
<1> DEFINE u == z \o s
<1>5. /\ u \in Seq(Byte) /\ Len(u) = n + n
      /\ \A i \in 1 .. n + n : u[i] = IF i <= n THEN z[i] ELSE s[i - n]
  BY <1>4
<1> HIDE DEF u
<1>6. /\ u \o t \in Seq(Byte) /\ Len(u \o t) = (n + n) + n
      /\ \A i \in 1 .. (n + n) + n : (u \o t)[i] = IF i <= n + n THEN u[i] ELSE t[i - (n + n)]
  <2>1. u \o t \in Seq(Byte) /\ Len(u \o t) = (n + n) + n
    <3>1. u \o t \in Seq(Byte)
      BY <1>3, <1>5, ConcatProperties
    <3>2. Len(u \o t) = Len(u) + Len(t)
      BY <1>3, <1>5, ConcatProperties
    <3> QED BY <1>3, <1>5, <3>1, <3>2
  <2>2. ASSUME NEW i \in 1 .. (n + n) + n
        PROVE  (u \o t)[i] = IF i <= n + n THEN u[i] ELSE t[i - (n + n)]
    <3>1. i \in 1 .. Len(u) + Len(t)
      BY <1>3, <1>5
    <3>2. (u \o t)[i] = IF i <= Len(u) THEN u[i] ELSE t[i - Len(u)]
      BY <1>3, <1>5, <3>1, ConcatProperties
    <3> QED BY <1>5, <3>2
  <2> QED BY <2>1, <2>2
<1>7. bytes = u \o t
  BY DEF u
<1> HIDE DEF bytes
<1>8. DOMAIN bytes = 1 .. (n + n) + n
  BY <1>6, <1>7, LenProperties
<1>9. ASSUME NEW i \in 1 .. n
      PROVE  boxed[n + i] = Box[s[i]] /\ boxed[(n + n) + i] = Box[t[i]]
  <2>1. n + i \in 1 .. n + n /\ n + i \in 1 .. (n + n) + n /\ ~(n + i <= n) /\ (n + i) - n = i
    BY <1>3
  <2>2. (n + n) + i \in 1 .. (n + n) + n /\ ~((n + n) + i <= n + n) /\ ((n + n) + i) - (n + n) = i
    BY <1>3
  <2>3. bytes[n + i] = s[i]
    BY <1>3, <1>5, <1>6, <1>7, <2>1
  <2>4. bytes[(n + n) + i] = t[i]
    BY <1>6, <1>7, <2>2
  <2> QED BY <1>8, <2>1, <2>2, <2>3, <2>4
<1> HIDE DEF boxed
<1>10. ASSUME NEW x \in Nat, NEW m \in Nat, \A i \in 1 .. n : boxed[m + i] = Box[BeBytes(x, n)[i]]
       PROVE  SubSeq(boxed, m + 1, m + n) = Run(x, n)
  <2> DEFINE r == Run(x, n)
  <2>1. r \in Seq(Byte) /\ Len(r) = n
    BY <1>3, RunOfBytes
  <2>2. \A i \in 1 .. n : boxed[m + i] = r[i] /\ r[i] \in Byte
    BY <1>2, <1>3, <1>10, RunOfBytes
  <2> HIDE DEF r
  <2>3. SubSeq(boxed, m + 1, m + n) = [i \in 1 .. n |-> boxed[m + i]]
    BY <1>3
  <2>4. r = [i \in 1 .. n |-> r[i]]
    BY <2>1, LenProperties
  <2>5. [i \in 1 .. n |-> boxed[m + i]] = [i \in 1 .. n |-> r[i]]
    BY <2>2
  <2>6. SubSeq(boxed, m + 1, m + n) = r
    BY <2>3, <2>4, <2>5
  <2> QED BY <2>6 DEF r
<1>11. SubSeq(boxed, n + 1, n + n) = Run(h, n)
  BY <1>3, <1>9, <1>10 DEF s
<1>12. SubSeq(boxed, (n + n) + 1, (n + n) + n) = Run(l, n)
  <2> DEFINE m == n + n
  <2>1. m \in Nat /\ \A i \in 1 .. n : boxed[m + i] = Box[BeBytes(l, n)[i]]
    BY <1>3, <1>9 DEF t
  <2> HIDE DEF m
  <2>2. SubSeq(boxed, m + 1, m + n) = Run(l, n)
    BY <1>10, <2>1
  <2> QED BY <2>2 DEF m
<1>13. /\ 1 * n + 1 = n + 1 /\ (1 + 1) * n = n + n
       /\ 2 * n + 1 = (n + n) + 1 /\ (2 + 1) * n = (n + n) + n
  BY <1>3
<1>14. n = LimbBytes
  BY DEF n
<1> DEFINE x0 == FromBeBytes(SubSeq(boxed, 0 * LimbBytes + 1, (0 + 1) * LimbBytes))
<1> DEFINE x1 == FromBeBytes(SubSeq(boxed, 1 * LimbBytes + 1, (1 + 1) * LimbBytes))
<1> DEFINE x2 == FromBeBytes(SubSeq(boxed, 2 * LimbBytes + 1, (2 + 1) * LimbBytes))
<1>15. x1 = FromBeBytes(Run(h, LimbBytes))
  BY <1>11, <1>13, <1>14
<1>16. x2 = FromBeBytes(Run(l, LimbBytes))
  BY <1>12, <1>13, <1>14
<1>17. sboxes(I192(0, h, l)) = I192(x0, x1, x2)
  BY <1>1
<1> HIDE DEF x0, x1, x2
<1> QED BY <1>15, <1>16, <1>17 DEF I192

\* The whole integer's bytes, read from the other end and substituted, are the
\* high half's and then the low half's.
LEMMA WholeTransform ==
  ASSUME Sized, kind = "I128", NEW a \in Double
  PROVE  sbox_transform(a)
           = FromBeBytes(Run(Hi(a), LimbBytes)) * Base + FromBeBytes(Run(Lo(a), LimbBytes))
<1>1. PICK n \in Nat \ {0} : n = LimbBytes
  BY LimbIsBytes
<1>2. PICK B \in Nat \ {0} : B = Base /\ B = Weight(n)
  BY <1>1, LimbIsBytes, BaseType
<1>3. a \in Nat
  BY BaseType DEF Double
<1>4. /\ Hi(a) = a \div B /\ Lo(a) = a % B
      /\ a \div B \in Nat /\ a % B \in Nat /\ a = (a \div B) * B + (a % B)
  <2>1. Hi(a) = a \div B /\ Lo(a) = a % B
    BY <1>2 DEF Hi, Lo
  <2> DEFINE q == a \div B
  <2> DEFINE r == a % B
  <2>2. q \in Nat /\ r \in 0 .. B - 1 /\ a = B * q + r
    BY <1>3, DivMod
  <2> HIDE DEF q, r
  <2>3. r \in Nat /\ B * q = q * B
    BY <2>2, Z3
  <2> QED BY <2>1, <2>2, <2>3 DEF q, r
<1>5. PICK h \in Nat : h = Hi(a) /\ h = a \div B
  BY <1>4
<1>6. PICK l \in Nat : l = Lo(a) /\ a = h * B + l
  BY <1>4, <1>5
<1> DEFINE r == Run(a, 2 * n)
<1> DEFINE s == Run(h, n)
<1> DEFINE t == Run(l, n)
<1>7. /\ s \in Seq(Byte) /\ t \in Seq(Byte) /\ r \in Seq(Byte)
      /\ Len(s) = n /\ Len(t) = n /\ Len(r) = 2 * n
  <2>1. n \in Nat /\ 2 * n \in Nat
    OBVIOUS
  <2>2. s \in Seq(Byte) /\ Len(s) = n
    BY <2>1, RunOfBytes
  <2>3. t \in Seq(Byte) /\ Len(t) = n
    BY <2>1, RunOfBytes
  <2> DEFINE k == 2 * n
  <2>4. k \in Nat
    BY <2>1
  <2> HIDE DEF k
  <2>5. Run(a, k) \in Seq(Byte) /\ Len(Run(a, k)) = k
    BY <1>3, <2>4, RunOfBytes
  <2> QED BY <2>2, <2>3, <2>5 DEF k
<1>7a. ASSUME NEW i \in 1 .. 2 * n PROVE r[i] = Box[(a \div Weight(2 * n - i)) % Radix]
  <2> DEFINE k == 2 * n
  <2>1. k \in Nat /\ i \in 1 .. k
    OBVIOUS
  <2> HIDE DEF k
  <2>2. Run(a, k)[i] = Box[(a \div Weight(k - i)) % Radix]
    BY <1>3, <2>1, RunOfBytes
  <2> QED BY <2>2 DEF k
<1>8. ASSUME NEW i \in 1 .. n PROVE r[i] = s[i]
  <2>1. i \in 1 .. 2 * n /\ n - i \in Nat /\ 2 * n \in Nat /\ 2 * n - i = n + (n - i)
    OBVIOUS
  <2>2. PICK w \in Nat \ {0} : w = Weight(n - i)
    BY <2>1, Weights
  <2>3. Weight(2 * n - i) = B * w
    BY <1>2, <2>1, <2>2, Weights
  <2>4. a \div (B * w) = (a \div B) \div w
    BY <1>3, HighByte
  <2>5. a \div (B * w) = h \div w
    BY <1>5, <2>4
  <2>6. r[i] = Box[(a \div (B * w)) % Radix]
    BY <1>7a, <2>1, <2>3
  <2>7. s[i] = Box[(h \div w) % Radix]
    BY <2>2, RunOfBytes
  <2> QED BY <2>5, <2>6, <2>7
<1>9. ASSUME NEW i \in 1 .. n PROVE r[n + i] = t[i]
  <2>1. /\ n + i \in 1 .. 2 * n /\ n - i \in Nat /\ 2 * n \in Nat /\ 2 * n - (n + i) = n - i
        /\ i - 1 \in Nat /\ n = (n - i) + i /\ i = (i - 1) + 1
    OBVIOUS
  <2>2. PICK w \in Nat \ {0} : w = Weight(n - i)
    BY <2>1, Weights
  <2>3. PICK v \in Nat \ {0} : v = Weight(i - 1)
    BY <2>1, Weights
  <2>4. PICK d \in Nat \ {0} : d = Radix
    BY Weights
  <2>5. B = w * (v * d)
    <3>1. Weight((n - i) + i) = Weight(n - i) * Weight(i)
      BY <2>1, Weights
    <3>2. Weight((i - 1) + 1) = Weight(i - 1) * Weight(1)
      BY <2>1, Weights
    <3>3. Weight(1) = d
      BY <2>4, Weights
    <3> QED BY <1>2, <2>1, <2>2, <2>3, <3>1, <3>2, <3>3
  <2>5a. PICK z \in Nat : z = h * B /\ Above(z, h, w, v, d)
    BY <2>5, Z3 DEF Above
  <2>6. ((z + l) \div w) % d = (l \div w) % d
    BY <2>5a, LowByte
  <2>7. (a \div w) % d = (l \div w) % d
    BY <1>6, <2>5a, <2>6
  <2>8. r[n + i] = Box[(a \div w) % d]
    BY <1>7a, <2>1, <2>2, <2>4
  <2>9. t[i] = Box[(l \div w) % d]
    BY <2>2, <2>4, RunOfBytes
  <2> QED BY <2>7, <2>8, <2>9
<1> DEFINE le == LeBytes(a, 2 * n)
<1> DEFINE boxed == [i \in DOMAIN le |-> Box[le[i]]]
<1>10. sbox_transform(a) = FromBeBytes([i \in 1 .. Len(boxed) |-> boxed[Len(boxed) + 1 - i]])
  BY <1>1 DEF sbox_transform, FromLeBytes
<1>11. DOMAIN boxed = 1 .. 2 * n /\ 2 * n \in Nat
  BY DEF LeBytes
<1>12. ASSUME NEW i \in 1 .. 2 * n PROVE boxed[2 * n + 1 - i] = r[i] /\ boxed[i] \in Byte
  <2> DEFINE j == 2 * n + 1 - i
  <2>1. j \in 1 .. 2 * n /\ j - 1 = 2 * n - i
    OBVIOUS
  <2>2. le[j] = (a \div Weight(2 * n - i)) % Radix
    BY <2>1 DEF LeBytes, Weight, Radix
  <2>3. boxed[j] = Box[le[j]]
    BY <1>11, <2>1
  <2>4. r[i] = Box[(a \div Weight(2 * n - i)) % Radix]
    BY <1>7a
  <2>5. boxed[j] = r[i]
    BY <2>2, <2>3, <2>4
  <2>6. le[i] = (a \div Weight(i - 1)) % Radix
    BY DEF LeBytes, Weight, Radix
  <2>7. i - 1 \in Nat
    BY <1>11
  <2>8. PICK w \in Nat \ {0} : w = Weight(i - 1)
    BY <2>7, Weights
  <2>9. PICK d \in Nat \ {0} : d = Radix
    BY Weights
  <2>10. a \div w \in Nat
    BY <1>3, DivMod
  <2>11. (a \div w) % d \in 0 .. d - 1
    BY <2>10, DivMod
  <2>12. le[i] \in Byte
    BY <2>6, <2>8, <2>9, <2>11 DEF Byte
  <2>13. Box \in [Byte -> Byte]
    BY InstanceAssumption DEF Byte, Radix
  <2>14. boxed[i] \in Byte
    BY <1>11, <2>12, <2>13
  <2> QED BY <2>5, <2>14
<1>13. boxed \in Seq(Byte) /\ Len(boxed) = 2 * n
  <2>1. boxed \in [1 .. 2 * n -> Byte]
    BY <1>11, <1>12
  <2> HIDE DEF boxed
  <2> QED BY <1>11, <2>1
<1> HIDE DEF boxed
<1>14. [i \in 1 .. Len(boxed) |-> boxed[Len(boxed) + 1 - i]] = r
  <2>1. r = [i \in 1 .. 2 * n |-> r[i]]
    BY <1>7, LenProperties
  <2>2. \A i \in 1 .. 2 * n : boxed[2 * n + 1 - i] = r[i]
    BY <1>12
  <2> HIDE DEF r
  <2> QED BY <1>13, <2>1, <2>2
<1>15. FromBeBytes(r) = FromBeBytes(s) * Weight(n) + FromBeBytes(t)
  <2> HIDE DEF r, s, t
  <2>1. Len(r) = Len(s) + Len(t)
    BY <1>7
  <2>2. \A i \in 1 .. Len(s) : r[i] = s[i]
    BY <1>7, <1>8
  <2>3. \A i \in 1 .. Len(t) : r[Len(s) + i] = t[i]
    BY <1>7, <1>9
  <2>4. FromBeBytes(r) = FromBeBytes(s) * Weight(Len(t)) + FromBeBytes(t)
    BY <1>7, <2>1, <2>2, <2>3, NumberJoined
  <2> QED BY <1>7, <2>4
<1> QED BY <1>1, <1>2, <1>5, <1>6, <1>10, <1>14, <1>15

\* The detour by way of 192 bits: no sign of a limb gets in, and the result is
\* the native substitution.
LEMMA DetourIsNative ==
  ASSUME Sized, kind = "I128", NEW a \in Double
  PROVE  cbox(sboxes(xbox(a))) = sbox_transform(a) /\ sbox_transform(a) \in Double
<1>1. PICK B \in Nat \ {0} : B = Base /\ B = Weight(LimbBytes) /\ Square = B * B
  BY LimbIsBytes, BaseType
<1>2. LimbBytes \in Nat
  BY LimbIsBytes
<1>3. Hi(a) \in Nat /\ Lo(a) \in Nat
  BY NativeHalves, BaseType DEF Limb
<1>4. PICK m \in 0 .. B - 1 : m = FromBeBytes(Run(Hi(a), LimbBytes))
  BY <1>1, <1>2, <1>3, RunOfBytes, NumberBounded
<1>5. PICK l \in 0 .. B - 1 : l = FromBeBytes(Run(Lo(a), LimbBytes))
  BY <1>1, <1>2, <1>3, RunOfBytes, NumberBounded
<1> DEFINE v == sboxes(xbox(a))
<1>6. v.mid = m /\ v.lo = l
  BY <1>2, <1>3, <1>4, <1>5, BoxedLimbs DEF xbox
<1> HIDE DEF v
<1>7. sbox_transform(a) = m * B + l
  BY <1>1, <1>4, <1>5, WholeTransform
<1>8. m * B + l \in 0 .. (B * B) - 1 /\ m * B \in 0 .. (B * B) - 1
  BY TwoDigits
<1> DEFINE k == Signed(m)
<1>9. k = m \/ k = m - B
  BY <1>1 DEF Signed
<1> HIDE DEF k
<1>10. (k * B) % (B * B) = m * B
  <2> DEFINE n == B * B
  <2> DEFINE r == m * B
  <2>1. n \in Nat \ {0} /\ r \in 0 .. n - 1
    BY <1>8, Z3
  <2>2. \E q \in Int : k * B = n * q + r
    <3>1. CASE k = m
      <4>1. 0 \in Int /\ k * B = n * 0 + r
        BY <2>1, <3>1
      <4> QED BY <4>1
    <3>2. CASE k = m - B
      <4>1. -1 \in Int /\ (m - B) * B = (B * B) * (-1) + m * B
        BY Z3
      <4> QED BY <3>2, <4>1
    <3> QED BY <1>9, <3>1, <3>2
  <2>3. PICK q \in Int : k * B = n * q + r
    BY <2>2
  <2> HIDE DEF n, r
  <2>4. (n * q + r) % n = r
    BY <2>1, IntModUnique
  <2> QED BY <2>3, <2>4 DEF n, r
<1>11. cbox(v) = m * B + l
  BY <1>1, <1>6, <1>10 DEF cbox, Wrapping, k
<1> QED BY <1>1, <1>7, <1>8, <1>11 DEF v, Double

-----------------------------------------------------------------------------
\* Any number of operations.

\* The limb types hold the number they should; a native integer is only held to
\* being under way.
IInv == Sized /\ LimbsAreModular

\* What each type's operators work on.
LEMMA ByKind ==
  /\ kind = "I192" => /\ Numbers = Num192 /\ Modulus = Square * Base
                      /\ \A a : Value(a) = Value192(a)
  /\ kind = "I256" => /\ Numbers = Num256 /\ Modulus = Square * Square
                      /\ \A a : Value(a) = Value256(a)
  BY DEF Numbers, Modulus, Value, Num192, Num256, Value192, Value256

\* The width and the values are numbers.
LEMMA Widths ==
  ASSUME Sized, kind # "I128"
  PROVE  /\ kind \in {"I192", "I256"}
         /\ Modulus \in Nat \ {0}
         /\ \A a \in Numbers : Value(a) \in 0 .. Modulus - 1 /\ Value(a) \in Int
<1>1. kind \in {"I192", "I256"}
  BY BaseType DEF Kinds
<1>2. CASE kind = "I192"
  BY <1>2, BaseType, ByKind, ValueBounds
<1>3. CASE kind = "I256"
  BY <1>3, BaseType, ByKind, ValueBounds
<1> QED BY <1>1, <1>2, <1>3

\* A result that is a number of the type and differs from the exact one by a
\* multiple of the width keeps the two in step.
LEMMA BecomesAgrees ==
  ASSUME Sized, kind # "I128", NEW a, NEW n \in Int, Becomes(a, n), a \in Numbers,
         \E q \in Int : n = Modulus * q + Value(a)
  PROVE  IInv'
<1>1. Modulus \in Nat \ {0} /\ Value(a) \in 0 .. Modulus - 1
  BY Widths
<1> DEFINE m == Modulus
<1> DEFINE v == Value(a)
<1>2. m \in Nat \ {0} /\ v \in 0 .. m - 1 /\ \E q \in Int : n = m * q + v
  BY <1>1
<1> HIDE DEF m, v
<1>3. n % m = v
  BY <1>2, Agrees
<1>4. acc' = a /\ exact' = v /\ kind' = kind /\ bits' = bits
  BY <1>3 DEF Becomes, m
<1>5. Numbers' = Numbers /\ Value(acc)' = Value(acc')
  BY <1>4 DEF Numbers, Value, Limb, Double, Square, Base
<1>6. Sized'
  BY <1>4 DEF Sized
<1> QED BY <1>4, <1>5, <1>6 DEF IInv, LimbsAreModular, v

\* Every integer starts as the number it spells.
LEMMA IInvInit == Init => IInv
<1> SUFFICES ASSUME Init PROVE IInv
  OBVIOUS
<1>1. Sized
  <2>1. PICK i \in Instances : kind = i[1] /\ bits = i[2]
    BY DEF Init
  <2>2. i = <<i[1], i[2]>>
    BY InstanceAssumption
  <2> QED BY <2>1, <2>2 DEF Sized
<1> QED BY <1>1 DEF Init, IInv, LimbsAreModular

\* Every operator of a limb type keeps the integer and the exact number in step,
\* and the primitives on native integers leave the type alone.
LEMMA IInvStep == IInv /\ [Next]_vars => IInv'
<1> SUFFICES ASSUME IInv, [Next]_vars PROVE IInv'
  OBVIOUS
<1>1. Sized /\ (kind # "I128" => acc \in Numbers /\ Value(acc) = exact)
  BY DEF IInv, LimbsAreModular
<1>2. CASE kind = "I128" /\ kind' = kind /\ bits' = bits
  BY <1>1, <1>2 DEF IInv, LimbsAreModular, Sized
<1>3. ASSUME kind # "I128"
      PROVE  /\ exact \in Int /\ exact = Value(acc) /\ acc \in Numbers
             /\ \A b \in Numbers : Value(b) \in Int
  BY <1>1, <1>3, Widths
<1>4. CASE Add
  <2>1. PICK b \in Numbers :
          Becomes(IF kind = "I192" THEN Add192(acc, b) ELSE Add256(acc, b), exact + Value(b))
    BY <1>4 DEF Add
  <2>2. kind # "I128" /\ kind \in {"I192", "I256"} /\ exact + Value(b) \in Int
    BY <1>1, <1>3, <1>4, Widths DEF Add
  <2>3. CASE kind = "I192"
    BY <1>1, <1>3, <2>1, <2>2, <2>3, ByKind, Add192Modular, BecomesAgrees
  <2>4. CASE kind = "I256"
    BY <1>1, <1>3, <2>1, <2>2, <2>4, ByKind, Add256Modular, BecomesAgrees
  <2> QED BY <2>2, <2>3, <2>4
<1>5. CASE Sub
  <2>1. PICK b \in Numbers :
          Becomes(IF kind = "I192" THEN Sub192(acc, b) ELSE Sub256(acc, b), exact - Value(b))
    BY <1>5 DEF Sub
  <2>2. kind # "I128" /\ kind \in {"I192", "I256"} /\ exact - Value(b) \in Int
    BY <1>1, <1>3, <1>5, Widths DEF Sub
  <2>3. CASE kind = "I192"
    BY <1>1, <1>3, <2>1, <2>2, <2>3, ByKind, Sub192Modular, BecomesAgrees
  <2>4. CASE kind = "I256"
    BY <1>1, <1>3, <2>1, <2>2, <2>4, ByKind, Sub256Modular, BecomesAgrees
  <2> QED BY <2>2, <2>3, <2>4
<1>6. CASE Neg
  <2>1. Becomes(IF kind = "I192" THEN Neg192(acc) ELSE Neg256(acc), -exact)
    BY <1>6 DEF Neg
  <2>2. kind # "I128" /\ kind \in {"I192", "I256"} /\ -exact \in Int
    BY <1>1, <1>3, <1>6, Widths DEF Neg
  <2>3. CASE kind = "I192"
    BY <1>1, <1>3, <2>1, <2>2, <2>3, ByKind, Neg192Modular, BecomesAgrees
  <2>4. CASE kind = "I256"
    BY <1>1, <1>3, <2>1, <2>2, <2>4, ByKind, Neg256Modular, BecomesAgrees
  <2> QED BY <2>2, <2>3, <2>4
<1>7. CASE Mul
  <2>1. PICK b \in Numbers :
          Becomes(IF kind = "I192" THEN Mul192(acc, b) ELSE Mul256(acc, b), exact * Value(b))
    BY <1>7 DEF Mul
  <2>2. kind # "I128" /\ kind \in {"I192", "I256"} /\ exact * Value(b) \in Int
    BY <1>1, <1>3, <1>7, Widths DEF Mul
  <2>3. CASE kind = "I192"
    BY <1>1, <1>3, <2>1, <2>2, <2>3, ByKind, Mul192Modular, BecomesAgrees
  <2>4. CASE kind = "I256"
    BY <1>1, <1>3, <2>1, <2>2, <2>4, ByKind, Mul256Modular, BecomesAgrees
  <2> QED BY <2>2, <2>3, <2>4
<1>8. CASE Multiply \/ TurnLeft \/ TurnRight \/ Detour
  BY <1>2, <1>8 DEF Multiply, TurnLeft, TurnRight, Detour, Becomes
<1>9. CASE UNCHANGED vars
  BY <1>1, <1>9 DEF IInv, LimbsAreModular, vars, Sized, Numbers, Value, Limb, Double, Square, Base
<1> QED BY <1>4, <1>5, <1>6, <1>7, <1>8, <1>9 DEF Next

\* Sums, differences, negations and products of I192 and I256 are those of the
\* integers modulo their width, for limbs of any width and after any number of
\* operations (bigint/int192.rs:81-181, bigint/int256.rs:65-141).
THEOREM LimbArithmetic == Spec => []LimbsAreModular
<1>1. IInv => LimbsAreModular
  BY DEF IInv
<1> QED BY IInvInit, IInvStep, <1>1, PTL DEF Spec

\* A native integer stays one, and the number it should be.
NativeInv == Sized /\ (kind = "I128" => acc \in Double /\ acc = exact)

\* One that is a number of the width, and what the exact one becomes, is so again.
LEMMA BecomesNative ==
  ASSUME Sized, kind = "I128", NEW a \in Double, NEW n \in Nat, Becomes(a, n), n % Square = a
  PROVE  NativeInv'
<1>1. acc' = a /\ exact' = a /\ kind' = kind /\ bits' = bits
  BY DEF Becomes, Modulus
<1>2. Double' = Double
  BY <1>1 DEF Double, Square, Base
<1>3. Sized'
  BY <1>1 DEF Sized
<1> QED BY <1>1, <1>2, <1>3 DEF NativeInv

\* A number of the width is its own remainder.
LEMMA AlreadyReduced ==
  ASSUME Sized, NEW a \in Double
  PROVE  a \in Nat /\ a % Square = a
<1>1. PICK S \in Nat \ {0} : S = Square
  BY BaseType
<1>2. a \in 0 .. S - 1 /\ a = S * 0 + a
  BY <1>1 DEF Double
<1>3. (S * 0 + a) % S = a
  BY <1>2, ModUnique
<1> QED BY <1>1, <1>2, <1>3

\* It starts as one.
LEMMA NativeInit == Init => NativeInv
<1> SUFFICES ASSUME Init PROVE NativeInv
  OBVIOUS
<1>1. Sized
  BY IInvInit DEF IInv
<1> QED BY <1>1 DEF Init, NativeInv, Numbers, Value

\* Every primitive on a native integer gives what the native operation gives,
\* and the operators of the limb types leave the type alone.
LEMMA NativeStep == NativeInv /\ [Next]_vars => NativeInv'
<1> SUFFICES ASSUME NativeInv, [Next]_vars PROVE NativeInv'
  OBVIOUS
<1>1. Sized /\ (kind = "I128" => acc \in Double /\ acc = exact)
  BY DEF NativeInv
<1>2. CASE kind # "I128" /\ kind' = kind /\ bits' = bits
  BY <1>1, <1>2 DEF NativeInv, Sized
<1>3. CASE Add \/ Sub \/ Neg \/ Mul
  BY <1>2, <1>3 DEF Add, Sub, Neg, Mul, Becomes
<1>4. CASE Multiply
  <2>1. PICK b \in Double : Becomes(mul128(acc, b), exact * b)
    BY <1>4 DEF Multiply, Numbers
  <2>2. kind = "I128" /\ acc \in Double /\ acc = exact
    BY <1>1, <1>4 DEF Multiply
  <2>3. mul128(acc, b) = (exact * b) % Square
    BY <1>1, <2>2, Mul128Native
  <2>4. PICK x \in Nat : x = exact * b
    <3>1. exact \in Nat /\ b \in Nat
      BY <1>1, <2>2, AlreadyReduced
    <3> QED BY <3>1
  <2>5. x % Square \in Double
    <3>1. PICK S \in Nat \ {0} : S = Square
      BY <1>1, BaseType
    <3>2. x % S \in 0 .. S - 1
      BY DivMod
    <3> QED BY <3>1, <3>2 DEF Double
  <2> QED BY <1>1, <2>1, <2>2, <2>3, <2>4, <2>5, BecomesNative
<1>5. CASE TurnLeft
  <2>1. PICK n \in 0 .. 4 * bits : Becomes(rotl128(acc, n), RotateLeft(exact, n))
    BY <1>5 DEF TurnLeft
  <2>2. kind = "I128" /\ acc \in Double /\ acc = exact
    BY <1>1, <1>5 DEF TurnLeft
  <2>3. n \in Nat
    BY <1>1, InstanceAssumption DEF Sized
  <2>4. rotl128(acc, n) = RotateLeft(exact, n) /\ RotateLeft(exact, n) \in Double
    BY <1>1, <2>2, <2>3, RotatesLeft
  <2> QED BY <1>1, <2>1, <2>2, <2>4, AlreadyReduced, BecomesNative
<1>6. CASE TurnRight
  <2>1. PICK n \in 0 .. 4 * bits : Becomes(rotr128(acc, n), RotateRight(exact, n))
    BY <1>6 DEF TurnRight
  <2>2. kind = "I128" /\ acc \in Double /\ acc = exact
    BY <1>1, <1>6 DEF TurnRight
  <2>3. n \in Nat
    BY <1>1, InstanceAssumption DEF Sized
  <2>4. rotr128(acc, n) = RotateRight(exact, n) /\ RotateRight(exact, n) \in Double
    BY <1>1, <2>2, <2>3, RotatesRight
  <2> QED BY <1>1, <2>1, <2>2, <2>4, AlreadyReduced, BecomesNative
<1>7. CASE Detour
  <2>1. Becomes(cbox(sboxes(xbox(acc))), sbox_transform(exact))
    BY <1>7 DEF Detour
  <2>2. kind = "I128" /\ acc \in Double /\ acc = exact
    BY <1>1, <1>7 DEF Detour
  <2>3. cbox(sboxes(xbox(acc))) = sbox_transform(exact) /\ sbox_transform(exact) \in Double
    BY <1>1, <2>2, DetourIsNative
  <2> QED BY <1>1, <2>1, <2>2, <2>3, AlreadyReduced, BecomesNative
<1>8. CASE UNCHANGED vars
  BY <1>1, <1>8 DEF NativeInv, vars, Sized, Double, Square, Base
<1> QED BY <1>3, <1>4, <1>5, <1>6, <1>7, <1>8 DEF Next

\* Rotations by any count, the truncated product and the substitution by way of
\* 192 bits are the native operations, for registers of any number of whole
\* bytes, any substitution and after any number of operations
\* (arch/x86_64/int.rs:31-142, sbox.rs:5-44 and 77-82, bigint/int128.rs:66-77).
THEOREM RegistersAreNative == Spec => []HalvesAreNative
<1>1. NativeInv => HalvesAreNative
  BY DEF NativeInv, HalvesAreNative
<1> QED BY NativeInit, NativeStep, <1>1, PTL DEF Spec

\* The sums of partial products of I192.
LEMMA Sums192Fit ==
  ASSUME Sized, Base >= 4, NEW a \in Num192, NEW b \in Num192
  PROVE  {MidSum192(a, b), CarryMid192(a, b), HiSum192(a, b)} \subseteq Double
<1> DEFINE B == Base
<1>1. B \in Nat /\ B >= 4 /\ Square = B * B
  BY BaseType
<1>2. PICK a2, a1, a0 \in 0 .. B - 1 : a.hi = a2 /\ a.mid = a1 /\ a.lo = a0
  BY DEF Num192, Limb
<1>3. PICK b2, b1, b0 \in 0 .. B - 1 : b.hi = b2 /\ b.mid = b1 /\ b.lo = b0
  BY DEF Num192, Limb
<1>4. PICK h00 \in 0 .. B - 2, l00 \in 0 .. B - 1 : Hi(a0 * b0) = h00 /\ Lo(a0 * b0) = l00
  BY ProductHalves
<1>5. PICK h01 \in 0 .. B - 2, l01 \in 0 .. B - 1 : Hi(a0 * b1) = h01 /\ Lo(a0 * b1) = l01
  BY ProductHalves
<1>6. PICK h10 \in 0 .. B - 2, l10 \in 0 .. B - 1 : Hi(a1 * b0) = h10 /\ Lo(a1 * b0) = l10
  BY ProductHalves
<1>7. PICK l02, l11, l20 \in 0 .. B - 1 :
        Lo(a0 * b2) = l02 /\ Lo(a1 * b1) = l11 /\ Lo(a2 * b0) = l20
  BY ProductHalves
<1>8. MidSum192(a, b) = h00 + l01 + l10
  BY <1>2, <1>3, <1>4, <1>5, <1>6 DEF MidSum192
<1>9. MidSum192(a, b) \in Nat /\ MidSum192(a, b) <= 3 * B - 4
  BY <1>1, <1>8
<1>10. PICK hm \in Nat, lm \in 0 .. B - 1 :
         Hi(MidSum192(a, b)) = hm /\ MidSum192(a, b) = B * hm + lm
  BY <1>9, Halves
<1>11. hm <= 2
  <2>1. \A D, h, l \in Nat : D >= 4 /\ D * h + l <= 3 * D - 4 => h <= 2
    BY Z3
  <2>2. lm \in Nat
    BY <1>1
  <2> QED BY <1>1, <1>9, <1>10, <2>1, <2>2
<1>12. CarryMid192(a, b) = h01 + h10 + hm
  BY <1>2, <1>3, <1>5, <1>6, <1>10 DEF CarryMid192
<1>13. HiSum192(a, b) = (h01 + h10 + hm) + l02 + l11 + l20
  BY <1>2, <1>3, <1>7, <1>12 DEF HiSum192
<1>14. /\ CarryMid192(a, b) \in Nat /\ CarryMid192(a, b) <= 2 * B - 2
       /\ HiSum192(a, b) \in Nat /\ HiSum192(a, b) <= 5 * B - 5
  BY <1>1, <1>11, <1>12, <1>13
<1>15. \A D \in Nat : D >= 4 => D * D \in Nat /\ 5 * D - 5 <= D * D - 1
  <2> SUFFICES ASSUME NEW D \in Nat, D >= 4 PROVE D * D \in Nat /\ 5 * D - 5 <= D * D - 1
    OBVIOUS
  <2>1. PICK e \in Nat : D = e + 4
    <3>1. D - 4 \in Nat /\ D = (D - 4) + 4
      OBVIOUS
    <3> QED BY <3>1
  <2>2. D * D = e * e + 8 * e + 16 /\ e * e \in Nat
    BY <2>1, Z3
  <2> QED BY <2>1, <2>2
<1>16. B * B \in Nat /\ 5 * B - 5 <= B * B - 1
  BY <1>1, <1>15
<1> QED BY <1>1, <1>9, <1>14, <1>16 DEF Double

\* No accumulator of partial products leaves u128, so a build that checks for
\* overflow does not panic in a product.  The three low halves and the carries
\* of Mul192 want limbs of at least two bits; the code's have 64
\* (bigint/int192.rs:122-181, bigint/int256.rs:96-141).
THEOREM AccumulatorsFit ==
  ASSUME \A i \in Instances : i[1] = "I192" => i[2] >= 2
  PROVE  Spec => []IntermediatesFit
<1>1. IInv => IntermediatesFit
  <2> SUFFICES ASSUME IInv PROVE IntermediatesFit
    OBVIOUS
  <2>1. Sized /\ (kind # "I128" => acc \in Numbers)
    BY DEF IInv, LimbsAreModular
  <2>2. ASSUME kind = "I192"
        PROVE  \A b \in Numbers :
                 {MidSum192(acc, b), CarryMid192(acc, b), HiSum192(acc, b)} \subseteq Double
    <3>1. Base >= 4
      <4>1. <<kind, bits>>[1] = "I192" /\ <<kind, bits>>[2] = bits
        BY <2>2
      <4>2. bits >= 2 /\ bits \in Nat
        BY <2>1, <4>1, InstanceAssumption DEF Sized
      <4>3. PICK k \in Nat \ {0} : bits = k + 1
        <5>1. bits - 1 \in Nat \ {0} /\ bits = (bits - 1) + 1
          BY <4>2
        <5> QED BY <5>1
      <4>4. Pow2[bits] = 2 * Pow2[k] /\ Pow2[k] \in Nat /\ Pow2[k] > 1
        BY <4>3, PowersOfTwo, PowerAboveOne
      <4> QED BY <4>4 DEF Base
    <3> QED BY <2>1, <2>2, <3>1, ByKind, Sums192Fit
  <2>3. ASSUME kind = "I256"
        PROVE  \A a \in {acc.hi, acc.lo}, b \in Double :
                 {MidSum256(a, b), MulHi(a, b)} \subseteq Double
    <3>1. acc \in Num256
      BY <2>1, <2>3, ByKind
    <3> SUFFICES ASSUME NEW a \in {acc.hi, acc.lo}, NEW b \in Double
                 PROVE  {MidSum256(a, b), MulHi(a, b)} \subseteq Double
      OBVIOUS
    <3>2. a \in Double
      BY <3>1 DEF Num256
    <3>3. MulHi(a, b) \in 0 .. Square - 1 /\ MidSum256(a, b) \in 0 .. 3 * Base - 4
      BY <2>1, <3>2, MulParts
    <3>4. \A D \in Nat : D >= 2 => D * D \in Nat /\ 3 * D - 4 <= D * D - 1
      <4> SUFFICES ASSUME NEW D \in Nat, D >= 2 PROVE D * D \in Nat /\ 3 * D - 4 <= D * D - 1
        OBVIOUS
      <4>1. PICK e \in Nat : D = e + 2
        <5>1. D - 2 \in Nat /\ D = (D - 2) + 2
          OBVIOUS
        <5> QED BY <5>1
      <4>2. D * D = e * e + 4 * e + 4 /\ e * e \in Nat
        BY <4>1, Z3
      <4> QED BY <4>1, <4>2
    <3>5. Base \in Nat /\ Base >= 2 /\ Square = Base * Base
      BY <2>1, BaseType
    <3>6. MidSum256(a, b) \in 0 .. Square - 1
      BY <3>3, <3>4, <3>5
    <3> QED BY <3>3, <3>6 DEF Double
  <2> QED BY <2>2, <2>3 DEF IntermediatesFit
<1> QED BY IInvInit, IInvStep, <1>1, PTL DEF Spec
=============================================================================
