---------------------------- MODULE Pich256_proof ----------------------------
(***************************************************************************)
(* From the passphrase to the keystream, for every passphrase and seed,    *)
(* and every compression that returns a hash value.  In order: what is     *)
(* padded and hashed, and which of the five calls of sha256 is under way;  *)
(* the arithmetic of a round key, whose 128-bit product, carries and       *)
(* rotations come down to one closed form; the types of a round at the     *)
(* code's size; the steps of an instance, each a round of the reference    *)
(* keystream or nothing; and one invariant over all of it.                 *)
(***************************************************************************)
EXTENDS Pich256, NumberFacts, SequenceTheorems

Hash == [1 .. 32 -> Byte]
Block == [1 .. BlockSize -> Byte]

\* sha256_compress takes the eight words of a hash value and an array of 64
\* bytes, and writes eight words.
CompressReturnsHash == \A v \in Hash, b \in Block : Compress(v, b) \in Hash

\* What is indexed from 1 to n is a sequence of length n.
LEMMA IndexedIsSeq ==
  ASSUME NEW S, NEW n \in Nat, NEW f \in [1 .. n -> S]
  PROVE  f \in Seq(S) /\ Len(f) = n
  BY SMT

\* A hash value is a sequence of 32 bytes.
LEMMA HashIsSeq ==
  ASSUME NEW v \in Hash
  PROVE  v \in Seq(Byte) /\ Len(v) = 32
  BY IndexedIsSeq DEF Hash

\* And a block one of 64.
LEMMA BlockIsSeq ==
  ASSUME NEW x \in Block
  PROVE  x \in Seq(Byte) /\ Len(x) = 64
  BY IndexedIsSeq DEF Block, BlockSize

\* The zeros of the padding and of the salt.
LEMMA ZerosFacts ==
  ASSUME NEW n \in Nat
  PROVE  Zeros(n) \in [1 .. n -> Byte] /\ Zeros(n) \in Seq(Byte) /\ Len(Zeros(n)) = n
<1>1. Zeros(n) \in [1 .. n -> Byte]
  BY DEF Zeros, Byte
<1> QED BY <1>1, IndexedIsSeq

\* Long division leaves a natural each time.
LEMMA QuotientsFacts ==
  ASSUME NEW n \in Nat
  PROVE  /\ Quotients(n)[0] = n
         /\ \A k \in 1 .. 8 : Quotients(n)[k] = Quotients(n)[k - 1] \div 256
         /\ \A k \in 0 .. 8 : Quotients(n)[k] \in Nat
<1> DEFINE step == [a \in Nat \X Nat |-> a[2] \div 256]
<1> DEFINE Body(q) == [k \in 0 .. 8 |-> IF k = 0 THEN n ELSE q[k - 1] \div 256]
<1> DEFINE quotient == CHOOSE q : q = Body(q)
<1>1. \A v \in Nat : v \div 256 \in Nat
  OBVIOUS
<1>2. step \in [Nat \X Nat -> Nat]
  BY <1>1
<1>3. \A k \in 1 .. 8, v \in Nat : step[<<k - 1, v>>] = v \div 256
  OBVIOUS
<1>4. Quotients(n) = quotient
  BY DEF Quotients
<1> HIDE DEF step
<1>5. PICK f \in [0 .. 8 -> Nat] : f[0] = n /\ Follows(f, Nat, step, 8)
  BY <1>2, LoopExists
<1>6. \A k \in 1 .. 8 : f[k] = f[k - 1] \div 256
  <2> SUFFICES ASSUME NEW k \in 1 .. 8 PROVE f[k] = f[k - 1] \div 256
    OBVIOUS
  <2>1. f[k - 1] \in Nat
    BY <1>5
  <2> QED BY <1>3, <1>5, <2>1 DEF Follows
<1>7. f = Body(f)
  BY <1>5, <1>6
<1>8. quotient = Body(quotient)
  BY <1>7
<1> HIDE DEF quotient
<1>9. quotient[0] = n
  BY <1>8
<1>10. ASSUME NEW k \in 1 .. 8 PROVE quotient[k] = quotient[k - 1] \div 256
  <2>1. k \in 0 .. 8 /\ k # 0
    OBVIOUS
  <2>2. Body(quotient)[k] = quotient[k - 1] \div 256
    BY <2>1
  <2> QED BY <1>8, <2>2
<1>11. ASSUME NEW k \in 0 .. 8 PROVE quotient[k] \in Nat
  <2> DEFINE S == {j \in Nat : j <= 8 => quotient[j] \in Nat}
  <2>1. 0 \in S
    BY <1>9
  <2>2. ASSUME NEW j \in S PROVE j + 1 \in S
    <3>1. CASE j + 1 <= 8
      <4>1. j + 1 \in 1 .. 8 /\ (j + 1) - 1 = j /\ quotient[j] \in Nat
        BY <3>1
      <4>2. quotient[j + 1] = quotient[j] \div 256
        BY <1>10, <4>1
      <4> QED BY <1>1, <4>1, <4>2
    <3> QED BY <3>1
  <2>3. S \in SUBSET Nat
    OBVIOUS
  <2> HIDE DEF S
  <2>4. S = Nat
    BY <2>1, <2>2, <2>3, Induction
  <2> QED BY <2>4 DEF S
<1> QED BY <1>4, <1>9, <1>10, <1>11

\* The field of a length is eight bytes.
LEMMA FieldFacts ==
  ASSUME NEW n \in Nat
  PROVE  LengthField(n) \in Seq(Byte) /\ Len(LengthField(n)) = 8
<1>1. ASSUME NEW b \in 1 .. 8 PROVE Quotients(n)[8 - b] % 256 \in Byte
  <2>1. Quotients(n)[8 - b] \in Nat
    BY QuotientsFacts
  <2> QED BY <2>1 DEF Byte
<1>2. LengthField(n) \in [1 .. 8 -> Byte]
  BY <1>1 DEF LengthField
<1> QED BY <1>2, IndexedIsSeq

\* The bytes that are stored are the digits of the long division, all eight.
LEMMA StoredAsDivided ==
  ASSUME NEW n \in Nat
  PROVE  BeBytes(n) = LengthField(n)
<1> DEFINE q == Quotients(n)
<1>1. q[0] = n /\ \A k \in 1 .. 8 : q[k] = q[k - 1] \div 256
  BY QuotientsFacts
<1>2. \A k \in 0 .. 8 : q[k] \in Nat
  BY QuotientsFacts
<1> HIDE DEF q
<1>3. /\ q[1] = q[0] \div 256 /\ q[2] = q[1] \div 256 /\ q[3] = q[2] \div 256
      /\ q[4] = q[3] \div 256 /\ q[5] = q[4] \div 256 /\ q[6] = q[5] \div 256
      /\ q[7] = q[6] \div 256
  BY <1>1
<1>4. \A x \in Nat : /\ (x \div 256) \div 256 = x \div 65536
                     /\ (x \div 65536) \div 256 = x \div 16777216
                     /\ (x \div 16777216) \div 256 = (x \div 65536) \div 65536
  OBVIOUS
<1>5. q[1] = n \div 256 /\ q[2] = n \div 65536 /\ q[3] = n \div 16777216
  BY <1>1, <1>2, <1>3, <1>4
<1> DEFINE high == (n \div 65536) \div 65536
<1>6. q[4] = high
  BY <1>1, <1>2, <1>3, <1>4, <1>5
<1>7. high \in Nat
  BY <1>2, <1>6
<1> HIDE DEF high
<1>8. q[5] = high \div 256 /\ q[6] = high \div 65536 /\ q[7] = high \div 16777216
  <2>1. q[5] = high \div 256
    BY <1>3, <1>6
  <2>2. (high \div 256) \div 256 = high \div 65536
    BY <1>4, <1>7
  <2>3. (high \div 65536) \div 256 = high \div 16777216
    BY <1>4, <1>7
  <2>4. q[6] = q[5] \div 256 /\ q[7] = q[6] \div 256
    BY <1>3
  <2>5. q[6] = high \div 65536
    BY <2>1, <2>2, <2>4
  <2>6. q[7] = high \div 16777216
    BY <2>3, <2>4, <2>5
  <2> QED BY <2>1, <2>5, <2>6
<1>9. 256 ^ 0 = 1 /\ 256 ^ 1 = 256 /\ 256 ^ 2 = 65536 /\ 256 ^ 3 = 16777216
  OBVIOUS
<1>10. high \div 1 = high /\ n \div 1 = n
  BY <1>7
<1>11. ASSUME NEW b \in 1 .. 8
       PROVE  ((IF b < 5 THEN high ELSE n) \div 256 ^ ((8 - b) % 4)) = q[8 - b]
  <2>1. CASE b = 1 BY <1>8, <1>9, <2>1
  <2>2. CASE b = 2 BY <1>8, <1>9, <2>2
  <2>3. CASE b = 3 BY <1>8, <1>9, <2>3
  <2>4. CASE b = 4 BY <1>6, <1>9, <1>10, <2>4
  <2>5. CASE b = 5 BY <1>5, <1>9, <2>5
  <2>6. CASE b = 6 BY <1>5, <1>9, <2>6
  <2>7. CASE b = 7 BY <1>5, <1>9, <2>7
  <2>8. CASE b = 8 BY <1>1, <1>9, <1>10, <2>8
  <2> QED BY <2>1, <2>2, <2>3, <2>4, <2>5, <2>6, <2>7, <2>8
<1> QED BY <1>11 DEF BeBytes, LengthField, q, high

\* The eight bytes of a length.
Octets == [1 .. 8 -> 0 .. 255]

\* Eight bytes spell a number one byte at a time.
LEMMA SpelledFacts ==
  ASSUME NEW f \in Octets
  PROVE  \E v \in [0 .. 8 -> Nat] :
           /\ v[0] = 0 /\ \A k \in 1 .. 8 : v[k] = 256 * v[k - 1] + f[k]
           /\ v[8] = Spelled(f)
<1> DEFINE step == [a \in Nat \X Nat |-> 256 * a[2] + (IF a[1] < 8 THEN f[a[1] + 1] ELSE 0)]
<1> DEFINE Body(v) == [k \in 0 .. 8 |-> IF k = 0 THEN 0 ELSE 256 * v[k - 1] + f[k]]
<1> DEFINE value == CHOOSE v : v = Body(v)
<1>1. step \in [Nat \X Nat -> Nat]
  <2> SUFFICES ASSUME NEW a \in Nat \X Nat
               PROVE  256 * a[2] + (IF a[1] < 8 THEN f[a[1] + 1] ELSE 0) \in Nat
    OBVIOUS
  <2>1. a[1] \in Nat /\ a[2] \in Nat
    OBVIOUS
  <2>2. (IF a[1] < 8 THEN f[a[1] + 1] ELSE 0) \in Nat
    BY <2>1 DEF Octets
  <2> QED BY <2>1, <2>2
<1>2. \A k \in 1 .. 8, v \in Nat : step[<<k - 1, v>>] = 256 * v + f[k]
  <2> SUFFICES ASSUME NEW k \in 1 .. 8, NEW v \in Nat
               PROVE  step[<<k - 1, v>>] = 256 * v + f[k]
    OBVIOUS
  <2>1. k - 1 \in Nat /\ k - 1 < 8 /\ (k - 1) + 1 = k
    OBVIOUS
  <2> QED BY <2>1
<1>3. Spelled(f) = value[8]
  BY DEF Spelled
<1> HIDE DEF step
<1>4. PICK u : u \in [0 .. 8 -> Nat] /\ u[0] = 0 /\ Follows(u, Nat, step, 8)
  BY <1>1, LoopExists
<1>5. \A k \in 1 .. 8 : u[k] = 256 * u[k - 1] + f[k]
  <2> SUFFICES ASSUME NEW k \in 1 .. 8 PROVE u[k] = 256 * u[k - 1] + f[k]
    OBVIOUS
  <2>1. u[k - 1] \in Nat
    BY <1>4
  <2> QED BY <1>2, <1>4, <2>1 DEF Follows
<1>6. u = Body(u)
  BY <1>4, <1>5
<1>7. value = Body(value)
  BY <1>6
<1> HIDE DEF value
<1>8. value[0] = 0 /\ \A k \in 1 .. 8 : value[k] = 256 * value[k - 1] + f[k]
  <2>1. value[0] = 0
    BY <1>7
  <2>2. ASSUME NEW k \in 1 .. 8 PROVE value[k] = 256 * value[k - 1] + f[k]
    <3>1. k \in 0 .. 8 /\ k # 0
      OBVIOUS
    <3>2. Body(value)[k] = 256 * value[k - 1] + f[k]
      BY <3>1
    <3> QED BY <1>7, <3>2
  <2> QED BY <2>1, <2>2
<1>9. u[8] = value[8]
  <2>1. Follows(value, Nat, step, 8)
    BY <1>2, <1>8 DEF Follows
  <2> DEFINE n == 8
  <2> DEFINE T == Nat
  <2>2. n \in Nat
    OBVIOUS
  <2>3. /\ u \in [0 .. n -> T] /\ u[0] = value[0]
        /\ Follows(u, T, step, n) /\ Follows(value, T, step, n)
    BY <1>4, <1>8, <2>1
  <2> HIDE DEF n, T
  <2>4. \A k \in 0 .. n : u[k] = value[k]
    BY <2>2, <2>3, LoopUnique
  <2> QED BY <2>4 DEF n
<1> QED BY <1>3, <1>4, <1>5, <1>9

\* A key combined with a byte fills a block.
LEMMA PadFacts ==
  ASSUME NEW k \in Seq(Byte), Len(k) = BlockSize, NEW byte \in Byte
  PROVE  Pad(k, byte) \in Seq(Byte) /\ Len(Pad(k, byte)) = BlockSize
<1>1. ASSUME NEW b \in 1 .. BlockSize PROVE XorBytes[<<k[b], byte>>] \in Byte
  <2>1. b \in 1 .. Len(k)
    OBVIOUS
  <2>2. k[b] \in Byte
    BY <2>1, ElementOfSeq
  <2> QED BY <2>2, InputAssumption
<1>2. Pad(k, byte) \in Block
  BY <1>1 DEF Pad, Block
<1>3. BlockSize \in Nat
  BY DEF BlockSize
<1> QED BY <1>2, <1>3, IndexedIsSeq DEF Block
-----------------------------------------------------------------------------
\* Padding.

\* The number of zeros the standard asks for.
Missing(s) == (BlockSize + 55 - (Len(s) % BlockSize)) % BlockSize

\* The buffer with the marker and some of the zeros.
PaddingUnderWay(s, m) == \E n \in 0 .. Missing(s) : m = s \o <<128>> \o Zeros(n)

\* Counting up from a length past the marker, the place of the bit length comes
\* after exactly so many zeros.
LEMMA PlaceOfLength ==
  ASSUME NEW l \in Nat
  PROVE  \E z \in 0 .. 63 :
           /\ z = (119 - (l % 64)) % 64
           /\ \A n \in 0 .. z : (l + 1 + n) % 64 = 56 <=> n = z
<1> DEFINE z == (119 - (l % 64)) % 64
<1>1. PICK q \in Nat, r \in 0 .. 63 : l = 64 * q + r /\ l % 64 = r
  <2>1. l = 64 * (l \div 64) + (l % 64) /\ l \div 64 \in Nat /\ l % 64 \in 0 .. 63
    BY SMT
  <2> QED BY <2>1
<1>2. CASE r <= 55
  <2>1. z = 55 - r
    BY <1>1, <1>2
  <2>2. ASSUME NEW n \in 0 .. z PROVE (l + 1 + n) % 64 = r + 1 + n
    BY <1>1, <1>2, <2>1
  <2> QED BY <1>1, <1>2, <2>1, <2>2
<1>3. CASE r > 55
  <2>1. z = 119 - r
    BY <1>1, <1>3
  <2>2. ASSUME NEW n \in 0 .. z
        PROVE  (l + 1 + n) % 64 = IF r + 1 + n < 64 THEN r + 1 + n ELSE (r + 1 + n) - 64
    BY <1>1, <1>3, <2>1
  <2> QED BY <1>1, <1>3, <2>1, <2>2
<1> QED BY <1>1, <1>2, <1>3

\* So the padding loop stops after the zeros that are missing and no others.
LEMMA MissingFacts ==
  ASSUME NEW s \in Seq(Byte)
  PROVE  /\ Missing(s) \in 0 .. 63
         /\ \A n \in 0 .. Missing(s) : (Len(s) + 1 + n) % BlockSize = 56 <=> n = Missing(s)
<1>1. PICK l \in Nat : l = Len(s)
  OBVIOUS
<1>2. Missing(s) = (119 - (l % 64)) % 64
  BY <1>1 DEF Missing, BlockSize
<1>3. PICK z \in 0 .. 63 :
        /\ z = (119 - (l % 64)) % 64
        /\ \A n \in 0 .. z : (l + 1 + n) % 64 = 56 <=> n = z
  BY PlaceOfLength
<1> QED BY <1>1, <1>2, <1>3 DEF BlockSize

\* The slice, the marker and n zeros.
LEMMA MarkedFacts ==
  ASSUME NEW s \in Seq(Byte), NEW n \in Nat
  PROVE  /\ s \o <<128>> \o Zeros(n) \in Seq(Byte)
         /\ Len(s \o <<128>> \o Zeros(n)) = Len(s) + 1 + n
<1>1. <<128>> \in Seq(Byte) /\ Len(<<128>>) = 1
  BY DEF Byte
<1>2. s \o <<128>> \in Seq(Byte) /\ Len(s \o <<128>>) = Len(s) + 1
  BY <1>1
<1>3. Zeros(n) \in Seq(Byte) /\ Len(Zeros(n)) = n
  BY ZerosFacts
<1> QED BY <1>2, <1>3

\* The padded message is whole blocks, at least one.
LEMMA PaddedFacts ==
  ASSUME NEW s \in Seq(Byte)
  PROVE  /\ Padded(s) \in Seq(Byte)
         /\ \E n \in Nat \ {0} : Len(Padded(s)) = BlockSize * n /\ Len(Padded(s)) \div BlockSize = n
<1>1. PICK z \in 0 .. 63 : z = Missing(s) /\ (Len(s) + 1 + z) % BlockSize = 56
  <2>1. PICK z \in 0 .. 63 : z = Missing(s)
    BY MissingFacts
  <2>2. z \in 0 .. z
    OBVIOUS
  <2> QED BY <2>1, <2>2, MissingFacts
<1>2. 8 * Len(s) \in Nat
  OBVIOUS
<1>3. /\ s \o <<128>> \o Zeros(z) \in Seq(Byte)
      /\ Len(s \o <<128>> \o Zeros(z)) = Len(s) + 1 + z
  <2>1. z \in Nat
    OBVIOUS
  <2> QED BY <2>1, MarkedFacts
<1>4. Padded(s) = s \o <<128>> \o Zeros(z) \o LengthField(8 * Len(s))
  BY <1>1 DEF Padded, Missing
<1>5. Padded(s) \in Seq(Byte) /\ Len(Padded(s)) = Len(s) + 1 + z + 8
  <2> DEFINE marked == s \o <<128>> \o Zeros(z)
  <2> DEFINE bits == LengthField(8 * Len(s))
  <2>1. bits \in Seq(Byte) /\ Len(bits) = 8
    BY <1>2, FieldFacts
  <2>2. marked \in Seq(Byte) /\ Len(marked) = Len(s) + 1 + z /\ Padded(s) = marked \o bits
    BY <1>3, <1>4
  <2> HIDE DEF marked, bits
  <2>3. marked \o bits \in Seq(Byte) /\ Len(marked \o bits) = Len(marked) + Len(bits)
    BY <2>1, <2>2, ConcatProperties
  <2> QED BY <2>1, <2>2, <2>3
<1>6. ASSUME NEW l \in Nat, (l + 1 + z) % 64 = 56
      PROVE  \E n \in Nat \ {0} : l + 1 + z + 8 = 64 * n /\ (l + 1 + z + 8) \div 64 = n
  <2>1. l + 1 + z = 64 * ((l + 1 + z) \div 64) + 56 /\ (l + 1 + z) \div 64 \in Nat
    BY <1>6
  <2>2. PICK q \in Nat : l + 1 + z = 64 * q + 56
    BY <2>1
  <2>3. l + 1 + z + 8 = 64 * (q + 1) /\ (l + 1 + z + 8) \div 64 = q + 1 /\ q + 1 \in Nat \ {0}
    BY <2>2
  <2> QED BY <2>3
<1>7. Len(s) \in Nat
  OBVIOUS
<1> QED BY <1>1, <1>5, <1>6, <1>7 DEF BlockSize

\* The copy of the slice with the marker begins the padding.
LEMMA PaddingBegins ==
  ASSUME NEW s \in Seq(Byte)
  PROVE  PaddingUnderWay(s, Append(s, 128))
<1>1. 0 \in 0 .. Missing(s)
  <2>1. PICK z \in 0 .. 63 : z = Missing(s)
    BY MissingFacts
  <2>2. 0 \in 0 .. z
    OBVIOUS
  <2> QED BY <2>1, <2>2
<1>2. Append(s, 128) = s \o <<128>> /\ s \o <<128>> \in Seq(Byte)
  BY DEF Byte
<1>3. Zeros(0) = <<>>
  BY ZerosFacts
<1> QED BY <1>1, <1>2, <1>3 DEF PaddingUnderWay

\* While the buffer is not at the place of the length it lacks a zero.
LEMMA PaddingGoesOn ==
  ASSUME NEW s \in Seq(Byte), NEW m, PaddingUnderWay(s, m), Len(m) % BlockSize # 56
  PROVE  PaddingUnderWay(s, Append(m, 0)) /\ Append(m, 0) \in Seq(Byte)
<1>1. PICK n \in 0 .. Missing(s) : m = s \o <<128>> \o Zeros(n)
  BY DEF PaddingUnderWay
<1>2. n \in Nat /\ n + 1 \in Nat
  BY MissingFacts
<1>3. n + 1 \in 0 .. Missing(s)
  <2>1. Len(m) = Len(s) + 1 + n
    BY <1>1, <1>2, MarkedFacts
  <2>2. PICK z \in 0 .. 63 : z = Missing(s)
    BY MissingFacts
  <2>3. n # z
    BY <2>1, <2>2, MissingFacts
  <2>4. n + 1 \in 0 .. z
    BY <1>1, <2>2, <2>3
  <2> QED BY <2>2, <2>4
<1>4. Zeros(n) \o <<0>> = Zeros(n + 1)
  <2>1. Len(Zeros(n) \o <<0>>) = n + 1 /\ Zeros(n) \o <<0>> \in Seq(Byte)
    BY <1>2, ZerosFacts DEF Byte
  <2>2. \A j \in 1 .. n + 1 : (Zeros(n) \o <<0>>)[j] = 0 /\ Zeros(n + 1)[j] = 0
    BY <1>2, ZerosFacts DEF Zeros
  <2> QED BY <1>2, <2>1, <2>2, ZerosFacts, SeqEqual
<1>5. Append(m, 0) = s \o <<128>> \o Zeros(n + 1)
  <2>1. s \o <<128>> \in Seq(Byte) /\ Zeros(n) \in Seq(Byte) /\ <<0>> \in Seq(Byte)
    BY <1>2, ZerosFacts DEF Byte
  <2>2. m \in Seq(Byte)
    BY <1>1, <1>2, MarkedFacts
  <2>3. Append(m, 0) = m \o <<0>>
    BY <2>2, AppendIsConcat DEF Byte
  <2>4. (s \o <<128>> \o Zeros(n)) \o <<0>> = s \o <<128>> \o (Zeros(n) \o <<0>>)
    BY <2>1, ConcatAssociative
  <2> QED BY <1>1, <1>4, <2>3, <2>4
<1> QED BY <1>2, <1>3, <1>5, MarkedFacts DEF PaddingUnderWay

\* At the place of the length it has all of them.
LEMMA PaddingEnds ==
  ASSUME NEW s \in Seq(Byte), NEW m, PaddingUnderWay(s, m), Len(m) % BlockSize = 56
  PROVE  m \o BeBytes(8 * Len(s)) = Padded(s)
<1>1. PICK n \in 0 .. Missing(s) : m = s \o <<128>> \o Zeros(n)
  BY DEF PaddingUnderWay
<1>2. n \in Nat
  BY MissingFacts
<1>3. n = Missing(s)
  BY <1>1, <1>2, MissingFacts, MarkedFacts
<1>4. 8 * Len(s) \in Nat
  OBVIOUS
<1>5. BeBytes(8 * Len(s)) = LengthField(8 * Len(s))
  BY <1>4, StoredAsDivided
<1> QED BY <1>1, <1>3, <1>5 DEF Padded, Missing

\* The numbers that the first digits of f spell, and those that long division
\* leaves until nothing is left.
Spelling(v, f, n) ==
  /\ \A k \in 0 .. n : v[k] \in Nat
  /\ v[0] = 0 /\ \A k \in 1 .. n : v[k] = 256 * v[k - 1] + f[k]
Division(q, n) ==
  /\ \A k \in 0 .. n : q[k] \in Nat
  /\ q[n] = 0 /\ \A k \in 1 .. n : q[k] = q[k - 1] \div 256

\* A number's last digit and what comes before it are its only ones.
LEMMA DigitUnique ==
  ASSUME NEW y \in Nat, NEW z \in Nat, NEW d \in 0 .. 255, z = 256 * y + d
  PROVE  y = z \div 256 /\ d = z % 256
  BY Z3

\* Digits spell a number, most significant first, exactly if they are the
\* remainders of its long division.
LEMMA DigitsUnique ==
  ASSUME NEW n \in Nat, NEW f \in [1 .. n -> 0 .. 255],
         NEW v, Spelling(v, f, n), NEW q, Division(q, n)
  PROVE  v[n] = q[0] <=> \A k \in 1 .. n : f[k] = q[n - k] % 256
<1>v. /\ \A k \in 0 .. n : v[k] \in Nat
      /\ v[0] = 0 /\ \A k \in 1 .. n : v[k] = 256 * v[k - 1] + f[k]
  BY DEF Spelling
<1>q. /\ \A k \in 0 .. n : q[k] \in Nat
      /\ q[n] = 0 /\ \A k \in 1 .. n : q[k] = q[k - 1] \div 256
  BY DEF Division
<1>1. ASSUME NEW k \in 1 .. n
      PROVE  k - 1 \in 0 .. n /\ v[k - 1] = v[k] \div 256 /\ f[k] = v[k] % 256
  <2>1. k \in 0 .. n /\ k - 1 \in 0 .. n
    OBVIOUS
  <2>2. v[k - 1] \in Nat /\ v[k] \in Nat /\ f[k] \in 0 .. 255 /\ v[k] = 256 * v[k - 1] + f[k]
    BY <1>v, <2>1
  <2>3. v[k - 1] = v[k] \div 256 /\ f[k] = v[k] % 256
    BY <2>2, DigitUnique, Zenon
  <2> QED BY <2>1, <2>3
<1>2. ASSUME v[n] = q[0], NEW k \in 1 .. n PROVE f[k] = q[n - k] % 256
  <2> DEFINE S == {j \in Nat : j <= n => v[n - j] = q[j]}
  <2>1. 0 \in S
    BY <1>2, <1>v
  <2>2. ASSUME NEW j \in S PROVE j + 1 \in S
    <3>1. CASE j + 1 <= n
      <4>1. /\ n - j \in 1 .. n /\ (n - j) - 1 = n - (j + 1) /\ v[n - j] = q[j]
            /\ j + 1 \in 1 .. n /\ (j + 1) - 1 = j
        BY <3>1
      <4>2. v[n - (j + 1)] = v[n - j] \div 256
        BY <1>1, <4>1
      <4>3. q[j + 1] = q[j] \div 256
        BY <1>q, <4>1
      <4> QED BY <4>1, <4>2, <4>3
    <3> QED BY <3>1
  <2>3. S \in SUBSET Nat
    OBVIOUS
  <2> HIDE DEF S
  <2>4. S = Nat
    BY <2>1, <2>2, <2>3, Induction
  <2>5. n - k \in Nat /\ n - k <= n /\ n - (n - k) = k
    OBVIOUS
  <2>6. v[k] = q[n - k]
    BY <2>4, <2>5 DEF S
  <2> QED BY <1>1, <2>6
<1>3. ASSUME \A k \in 1 .. n : f[k] = q[n - k] % 256 PROVE v[n] = q[0]
  <2> DEFINE S == {k \in Nat : k <= n => v[k] = q[n - k]}
  <2>1. 0 \in S
    BY <1>v, <1>q
  <2>2. ASSUME NEW k \in S PROVE k + 1 \in S
    <3>1. CASE k + 1 <= n
      <4>1. /\ k + 1 \in 1 .. n /\ (k + 1) - 1 = k /\ v[k] = q[n - k]
            /\ n - k \in 1 .. n /\ (n - k) - 1 = n - (k + 1) /\ n - (k + 1) \in 0 .. n
        BY <3>1
      <4> DEFINE y == q[n - (k + 1)]
      <4>2. v[k + 1] = 256 * v[k] + f[k + 1]
        BY <1>v, <4>1
      <4>3. f[k + 1] = y % 256
        BY <1>3, <4>1
      <4>4. q[n - k] = y \div 256
        BY <1>q, <4>1
      <4>5. y \in Nat
        BY <1>q, <4>1
      <4> HIDE DEF y
      <4>6. y = 256 * (y \div 256) + (y % 256)
        BY <4>5
      <4>7. v[k + 1] = y
        BY <4>1, <4>2, <4>3, <4>4, <4>6
      <4> QED BY <4>7 DEF y
    <3> QED BY <3>1
  <2>3. S \in SUBSET Nat
    OBVIOUS
  <2> HIDE DEF S
  <2>4. S = Nat
    BY <2>1, <2>2, <2>3, Induction
  <2>5. n - n = 0 /\ n <= n
    OBVIOUS
  <2> QED BY <2>4, <2>5 DEF S
<1> QED BY <1>2, <1>3

\* Eight bytes spell a number that fits in them exactly if they are its field.
LEMMA FieldSpells ==
  ASSUME NEW f \in Octets, NEW l \in Nat
  PROVE  Quotients(l)[8] = 0 => (Spelled(f) = l <=> f = LengthField(l))
<1> DEFINE q == Quotients(l)
<1>0. SUFFICES ASSUME q[8] = 0 PROVE Spelled(f) = l <=> f = LengthField(l)
  OBVIOUS
<1>2. PICK v :
        /\ v \in [0 .. 8 -> Nat]
        /\ v[0] = 0 /\ \A k \in 1 .. 8 : v[k] = 256 * v[k - 1] + f[k]
        /\ v[8] = Spelled(f)
  BY SpelledFacts
<1>3. /\ q[0] = l /\ \A k \in 1 .. 8 : q[k] = q[k - 1] \div 256
      /\ \A k \in 0 .. 8 : q[k] \in Nat
  BY QuotientsFacts
<1>4. f = LengthField(l) <=> \A k \in 1 .. 8 : f[k] = q[8 - k] % 256
  BY DEF LengthField, Octets
<1> HIDE DEF q
<1> DEFINE n == 8
<1>5. n \in Nat
  OBVIOUS
<1>6. f \in [1 .. n -> 0 .. 255] /\ Spelling(v, f, n) /\ Division(q, n)
  BY <1>0, <1>2, <1>3 DEF Spelling, Division, Octets
<1> HIDE DEF n
<1>7. v[n] = q[0] <=> \A k \in 1 .. n : f[k] = q[n - k] % 256
  BY <1>5, <1>6, DigitsUnique
<1> QED BY <1>2, <1>3, <1>4, <1>7 DEF n

\* A sequence that is whole blocks with fewer than a block of zeros has the
\* zeros the closed form counts.
LEMMA ZerosOfBlocks ==
  ASSUME NEW s \in Seq(Byte), NEW z \in 0 .. 63
  PROVE  (Len(s) + 9 + z) % BlockSize = 0 <=> z = Missing(s)
<1>1. PICK l \in Nat : l = Len(s)
  OBVIOUS
<1>2. Missing(s) = (119 - (l % 64)) % 64
  BY <1>1 DEF Missing, BlockSize
<1>3. PICK k \in Nat, r \in 0 .. 63 : l = 64 * k + r /\ l % 64 = r
  <2>1. l = 64 * (l \div 64) + (l % 64) /\ l \div 64 \in Nat /\ l % 64 \in 0 .. 63
    BY SMT
  <2> QED BY <2>1
<1>4. (l + 9 + z) % 64 = 0 <=> z = (119 - r) % 64
  BY <1>3
<1> QED BY <1>1, <1>2, <1>3, <1>4 DEF BlockSize

\* What is cut out of a sequence of bytes.
LEMMA CutFacts ==
  ASSUME NEW x \in Seq(Byte), NEW a \in Nat \ {0}, NEW c \in Nat, a <= c, c <= Len(x)
  PROVE  /\ SubSeq(x, a, c) \in Seq(Byte) /\ Len(SubSeq(x, a, c)) = c - a + 1
         /\ \A i \in 1 .. c - a + 1 : SubSeq(x, a, c)[i] = x[a + i - 1]
<1>1. \A i \in a .. c : x[i] \in Byte
  BY ElementOfSeq
<1> QED BY <1>1, SubSeqProperties

\* The parts of the closed form: what comes before the last eight bytes, and they.
LEMMA PartsOfPadding ==
  ASSUME NEW a \in Seq(Byte), NEW b \in Seq(Byte), Len(b) = 8
  PROVE  /\ SubSeq(a \o b, 1, Len(a)) = a
         /\ SubSeq(a \o b, Len(a \o b) - 7, Len(a \o b)) = b
<1>1. a \o b \in Seq(Byte) /\ Len(a \o b) = Len(a) + 8 /\ Len(a) \in Nat
  <2>1. a \o b \in Seq(Byte) /\ Len(a \o b) = Len(a) + Len(b)
    BY ConcatProperties
  <2> QED BY <2>1
<1> DEFINE x == a \o b
<1>2. \A i \in 1 .. Len(x) : x[i] = IF i <= Len(a) THEN a[i] ELSE b[i - Len(a)]
  BY ConcatProperties
<1> HIDE DEF x
<1>3. x \in Seq(Byte) /\ Len(x) = Len(a) + 8
  BY <1>1 DEF x
<1>4. SubSeq(x, 1, Len(a)) = a
  <2>1. /\ SubSeq(x, 1, Len(a)) \in Seq(Byte) /\ Len(SubSeq(x, 1, Len(a))) = Len(a)
        /\ \A i \in 1 .. Len(a) : SubSeq(x, 1, Len(a))[i] = x[i]
    BY <1>1, <1>3
  <2>2. \A i \in 1 .. Len(a) : SubSeq(x, 1, Len(a))[i] = a[i]
    BY <1>1, <1>2, <1>3, <2>1
  <2> QED BY <2>1, <2>2, SeqEqual
<1>5. SubSeq(x, Len(x) - 7, Len(x)) = b
  <2> DEFINE t == SubSeq(x, Len(x) - 7, Len(x))
  <2>1. t \in Seq(Byte) /\ Len(t) = 8 /\ \A i \in 1 .. 8 : t[i] = x[Len(x) - 7 + i - 1]
    BY <1>1, <1>3
  <2> HIDE DEF t
  <2>2. ASSUME NEW i \in 1 .. 8 PROVE x[Len(x) - 7 + i - 1] = b[i]
    <3>1. /\ Len(x) - 7 + i - 1 \in 1 .. Len(x) /\ ~(Len(x) - 7 + i - 1 <= Len(a))
          /\ (Len(x) - 7 + i - 1) - Len(a) = i
      BY <1>1, <1>3
    <3> QED BY <1>2, <3>1
  <2>3. \A i \in 1 .. 8 : t[i] = b[i]
    BY <2>1, <2>2
  <2> QED BY <2>1, <2>3, SeqEqual DEF t
<1> QED BY <1>4, <1>5 DEF x

\* The closed form is the padding of FIPS 180-4, in the standard's own words, of
\* every message the standard has one for, and there is no other: a message of
\* whatever length below 2^61 bytes gets all eight bytes of its bit length.
THEOREM OnlyPadding ==
  ASSUME NEW s \in Seq(Byte), Fits(s), NEW x
  PROVE  IsPadding(x, s) <=> x = Padded(s)
<1>1. PICK n \in 0 .. 63 : n = Missing(s)
  BY MissingFacts
<1>2. 8 * Len(s) \in Nat /\ Len(s) \in Nat
  OBVIOUS
<1> DEFINE marked == s \o <<128>> \o Zeros(n)
<1> DEFINE field == LengthField(8 * Len(s))
<1>3. marked \in Seq(Byte) /\ Len(marked) = Len(s) + 1 + n
  <2>1. n \in Nat
    OBVIOUS
  <2> QED BY <2>1, MarkedFacts
<1>4. field \in Seq(Byte) /\ Len(field) = 8
  BY <1>2, FieldFacts
<1>5. Padded(s) = marked \o field
  BY <1>1 DEF Padded, Missing
<1>6. \A f \in Seq(Byte) : Len(f) = 8 => (Spelled(f) = 8 * Len(s) <=> f = field)
  <2>1. ASSUME NEW f \in Seq(Byte), Len(f) = 8 PROVE f \in Octets
    <3>1. f \in [1 .. Len(f) -> Byte]
      BY LenProperties
    <3> QED BY <2>1, <3>1 DEF Octets, Byte
  <2> QED BY <1>2, <2>1, FieldSpells DEF Fits
<1>7. ASSUME x = Padded(s) PROVE IsPadding(x, s)
  <2> HIDE DEF marked, field
  <2>1. x \in Seq(Byte) /\ Len(x) = Len(s) + 9 + n
    <3>1. x = marked \o field
      BY <1>5, <1>7
    <3>2. marked \o field \in Seq(Byte) /\ Len(marked \o field) = Len(marked) + Len(field)
      BY <1>3, <1>4, ConcatProperties
    <3> QED BY <1>1, <1>2, <1>3, <1>4, <3>1, <3>2
  <2>2. SubSeq(x, 1, Len(marked)) = marked /\ SubSeq(x, Len(x) - 7, Len(x)) = field
    <3>1. x = marked \o field
      BY <1>5, <1>7
    <3> QED BY <1>3, <1>4, <3>1, PartsOfPadding
  <2>3. Len(x) % BlockSize = 0
    BY <1>1, <2>1, ZerosOfBlocks
  <2>4. Len(x) - Len(s) - 9 = n
    <3>1. PICK l \in Nat : l = Len(s)
      BY <1>2
    <3>2. PICK k \in Nat : k = n
      OBVIOUS
    <3>3. (l + 9 + k) - l - 9 = k
      OBVIOUS
    <3>4. Len(x) - l - 9 = k
      BY <2>1, <3>1, <3>2, <3>3
    <3> QED BY <3>1, <3>2, <3>4
  <2>5. Spelled(field) = 8 * Len(s)
    BY <1>4, <1>6
  <2>6. SubSeq(x, 1, Len(s) + 1 + n) = s \o <<128>> \o Zeros(n)
    BY <1>3, <2>2 DEF marked
  <2>7. n \in 0 .. BlockSize - 1
    BY DEF BlockSize
  <2> QED BY <2>1, <2>2, <2>3, <2>4, <2>5, <2>6, <2>7 DEF IsPadding
<1>8. ASSUME IsPadding(x, s) PROVE x = Padded(s)
  <2> DEFINE z == Len(x) - Len(s) - 9
  <2>1. /\ x \in Seq(Byte) /\ Len(x) % BlockSize = 0 /\ z \in 0 .. 63
        /\ SubSeq(x, 1, Len(s) + 1 + z) = s \o <<128>> \o Zeros(z)
        /\ Spelled(SubSeq(x, Len(x) - 7, Len(x))) = 8 * Len(s)
    BY <1>8 DEF IsPadding, BlockSize
  <2>2. Len(x) = Len(s) + 9 + z /\ Len(x) \in Nat
    BY <1>2, <2>1
  <2>3. z = n
    BY <1>1, <2>1, <2>2, ZerosOfBlocks
  <2> HIDE DEF z
  <2> DEFINE t == SubSeq(x, Len(x) - 7, Len(x))
  <2>4. t \in Seq(Byte) /\ Len(t) = 8 /\ \A i \in 1 .. 8 : t[i] = x[Len(x) - 7 + i - 1]
    <3>1. /\ Len(x) - 7 \in Nat \ {0} /\ Len(x) - 7 <= Len(x)
          /\ Len(x) - (Len(x) - 7) + 1 = 8
      BY <1>2, <2>1, <2>2
    <3> QED BY <2>1, <2>2, <3>1, CutFacts
  <2>5. t = field
    BY <1>6, <2>1, <2>4
  <2> HIDE DEF t, marked, field
  <2> DEFINE start == SubSeq(x, 1, Len(s) + 1 + n)
  <2>6. start = marked
    BY <2>1, <2>3 DEF marked
  <2>7. \A i \in 1 .. Len(s) + 1 + n : start[i] = x[i]
    <3>1. /\ 1 \in Nat \ {0} /\ Len(s) + 1 + n \in Nat /\ Len(s) + 1 + n <= Len(x)
          /\ 1 <= Len(s) + 1 + n /\ (Len(s) + 1 + n) - 1 + 1 = Len(s) + 1 + n
      BY <1>2, <2>1, <2>2, <2>3
    <3>2. \A i \in 1 .. Len(s) + 1 + n : start[i] = x[1 + i - 1]
      BY <2>1, <3>1, CutFacts
    <3>3. \A i \in 1 .. Len(s) + 1 + n : 1 + i - 1 = i
      BY <3>1
    <3> QED BY <3>2, <3>3
  <2> HIDE DEF start
  <2> DEFINE whole == marked \o field
  <2>8. /\ whole \in Seq(Byte) /\ Len(whole) = Len(s) + 9 + n
        /\ \A i \in 1 .. Len(whole) :
             whole[i] = IF i <= Len(marked) THEN marked[i] ELSE field[i - Len(marked)]
    <3>1. /\ whole \in Seq(Byte) /\ Len(whole) = Len(marked) + Len(field)
          /\ \A i \in 1 .. Len(marked) + Len(field) :
               whole[i] = IF i <= Len(marked) THEN marked[i] ELSE field[i - Len(marked)]
      BY <1>3, <1>4, ConcatProperties
    <3>2. Len(whole) = Len(s) + 9 + n
      BY <1>1, <1>2, <1>3, <1>4, <3>1
    <3> QED BY <3>1, <3>2
  <2> HIDE DEF whole
  <2>9. ASSUME NEW i \in 1 .. Len(x) PROVE x[i] = whole[i]
    <3>1. i \in 1 .. Len(whole)
      BY <2>2, <2>3, <2>8
    <3>2. CASE i <= Len(s) + 1 + n
      <4>1. i \in 1 .. Len(s) + 1 + n
        BY <1>2, <3>2
      <4> QED BY <1>3, <2>6, <2>7, <2>8, <3>1, <3>2, <4>1
    <3>3. CASE ~(i <= Len(s) + 1 + n)
      <4> DEFINE j == i - (Len(s) + 1 + n)
      <4>1. j \in 1 .. 8 /\ Len(x) - 7 + j - 1 = i
        BY <1>2, <2>2, <2>3, <3>3
      <4> HIDE DEF j
      <4>2. whole[i] = field[j]
        BY <1>3, <2>8, <3>1, <3>3 DEF j
      <4> QED BY <2>4, <2>5, <4>1, <4>2
    <3> QED BY <3>2, <3>3
  <2>10. x = whole
    BY <2>1, <2>2, <2>3, <2>8, <2>9, SeqEqual
  <2> QED BY <1>5, <2>10 DEF whole
<1> QED BY <1>7, <1>8
-----------------------------------------------------------------------------
\* Hashing.

Blocks(s) == Len(Padded(s)) \div BlockSize
BlockOf(s, k) == SubSeq(Padded(s), BlockSize * (k - 1) + 1, BlockSize * k)

\* The hash values of a message, block by block.
HashChain(s, f) ==
  /\ f \in [0 .. Blocks(s) -> Hash]
  /\ f[0] = SHA256_IV
  /\ \A k \in 1 .. Blocks(s) : f[k] = Compress(f[k - 1], BlockOf(s, k))
  /\ Sha256(s) = f[Blocks(s)]

\* What is left of the padded message after so many blocks.
Rest(s, n) == SubSeq(Padded(s), BlockSize * n + 1, Len(Padded(s)))

\* A buffer and a hash value on the way through the blocks.
HashUnderWay(s, m, v) ==
  \E f : HashChain(s, f) /\ \E n \in 0 .. Blocks(s) : v = f[n] /\ m = Rest(s, n)

\* The length of a padded message counts its blocks.
LEMMA BlocksFacts ==
  ASSUME NEW s \in Seq(Byte)
  PROVE  Blocks(s) \in Nat \ {0} /\ Len(Padded(s)) = 64 * Blocks(s)
<1>1. PICK n \in Nat \ {0} : Len(Padded(s)) = BlockSize * n /\ Len(Padded(s)) \div BlockSize = n
  BY PaddedFacts
<1> QED BY <1>1 DEF Blocks, BlockSize

\* Every block is 64 bytes.
LEMMA BlockType ==
  ASSUME NEW s \in Seq(Byte), NEW k \in 1 .. Blocks(s)
  PROVE  BlockOf(s, k) \in Block
<1>1. PICK n \in Nat : n = Blocks(s) /\ Len(Padded(s)) = 64 * n
  BY BlocksFacts
<1>2. k \in 1 .. n
  BY <1>1
<1>3. 64 * (k - 1) + 1 \in 1 .. 64 * n + 1 /\ 64 * k \in 64 * (k - 1) + 1 - 1 .. 64 * n
  BY <1>2
<1> DEFINE from == 64 * (k - 1) + 1
<1> DEFINE to == 64 * k
<1>4. from \in Nat \ {0} /\ to \in Nat /\ to <= Len(Padded(s)) /\ to - from + 1 = 64
  BY <1>1, <1>2
<1> HIDE DEF from, to
<1> DEFINE padded == Padded(s)
<1>5. padded \in Seq(Byte)
  BY PaddedFacts
<1> HIDE DEF padded
<1>6. SubSeq(padded, from, to) \in [1 .. 64 -> Byte]
  <2>1. from \in 1 .. Len(padded) + 1 /\ to \in from - 1 .. Len(padded)
    BY <1>4, <1>5 DEF padded
  <2>2. SubSeq(padded, from, to) \in Seq(Byte) /\ Len(SubSeq(padded, from, to)) = to - from + 1
    BY <1>5, <2>1, SubSeqProperties
  <2> DEFINE q == SubSeq(padded, from, to)
  <2>3. q \in Seq(Byte) /\ Len(q) = 64
    BY <1>4, <2>2
  <2> HIDE DEF q
  <2>4. q \in [1 .. 64 -> Byte]
    BY <2>3, LenProperties
  <2> QED BY <2>4 DEF q
<1> QED BY <1>6 DEF BlockOf, BlockSize, Block, padded, from, to

\* Every message has its chain, and the value of sha256 is the last of it.
LEMMA ChainExists ==
  ASSUME CompressReturnsHash, NEW s \in Seq(Byte)
  PROVE  \E f : HashChain(s, f)
<1> DEFINE B == Blocks(s)
<1> DEFINE step == [a \in Nat \X Hash |->
                      IF a[1] + 1 \in 1 .. B THEN Compress(a[2], BlockOf(s, a[1] + 1)) ELSE a[2]]
<1> DEFINE Body(hash) == [n \in 0 .. B |-> IF n = 0 THEN SHA256_IV
                                           ELSE Compress(hash[n - 1], BlockOf(s, n))]
<1> DEFINE chain == CHOOSE hash : hash = Body(hash)
<1>1. step \in [Nat \X Hash -> Hash]
  BY BlockType DEF CompressReturnsHash
<1>2. \A k \in 1 .. B, v \in Hash : step[<<k - 1, v>>] = Compress(v, BlockOf(s, k))
  <2> SUFFICES ASSUME NEW k \in 1 .. B, NEW v \in Hash
               PROVE  step[<<k - 1, v>>] = Compress(v, BlockOf(s, k))
    OBVIOUS
  <2>1. k - 1 \in Nat /\ (k - 1) + 1 = k
    OBVIOUS
  <2> QED BY <2>1
<1>3. Sha256(s) = chain[B]
  BY DEF Sha256, Blocks, BlockOf
<1> HIDE DEF step
<1>4. B \in Nat /\ SHA256_IV \in Hash
  BY BlocksFacts, InputAssumption DEF Hash
<1> HIDE DEF B
<1>5. PICK f \in [0 .. B -> Hash] : f[0] = SHA256_IV /\ Follows(f, Hash, step, B)
  BY <1>1, <1>4, LoopExists
<1>6. \A k \in 1 .. B : f[k] = Compress(f[k - 1], BlockOf(s, k))
  <2> SUFFICES ASSUME NEW k \in 1 .. B PROVE f[k] = Compress(f[k - 1], BlockOf(s, k))
    OBVIOUS
  <2>1. k - 1 \in 0 .. B
    BY <1>4
  <2>2. f[k - 1] \in Hash
    BY <1>5, <2>1
  <2>3. f[k] = step[<<k - 1, f[k - 1]>>]
    BY <1>5, <2>2 DEF Follows
  <2> QED BY <1>2, <2>2, <2>3
<1>7. f = Body(f)
  BY <1>4, <1>5, <1>6
<1>8. chain = Body(chain)
  BY <1>7
<1> HIDE DEF chain
<1>9. chain[0] = SHA256_IV /\ \A k \in 1 .. B : chain[k] = Compress(chain[k - 1], BlockOf(s, k))
  <2>1. Body(chain)[0] = SHA256_IV
    BY <1>4
  <2>2. ASSUME NEW k \in 1 .. B PROVE chain[k] = Compress(chain[k - 1], BlockOf(s, k))
    <3>1. k \in 0 .. B /\ k # 0
      BY <1>4
    <3>2. Body(chain)[k] = Compress(chain[k - 1], BlockOf(s, k))
      BY <3>1
    <3> QED BY <1>8, <3>2
  <2> QED BY <1>8, <2>1, <2>2
<1>10. Follows(chain, Hash, step, B)
  <2> SUFFICES ASSUME NEW k \in 1 .. B, chain[k - 1] \in Hash
               PROVE  chain[k] = step[<<k - 1, chain[k - 1]>>]
    BY DEF Follows
  <2> QED BY <1>2, <1>9
<1>11. \A k \in 0 .. B : f[k] = chain[k]
  <2>1. f[0] = chain[0]
    BY <1>5, <1>9
  <2> QED BY <1>4, <1>5, <1>10, <2>1, LoopUnique
<1>12. Sha256(s) = f[B]
  BY <1>3, <1>4, <1>11
<1> QED BY <1>5, <1>6, <1>12 DEF HashChain, B

\* sha256 returns a hash value.
LEMMA Sha256Type ==
  ASSUME CompressReturnsHash, NEW s \in Seq(Byte)
  PROVE  Sha256(s) \in Hash
<1>1. PICK f : HashChain(s, f)
  BY ChainExists
<1>2. PICK n \in Nat : n = Blocks(s)
  BY BlocksFacts
<1>3. n \in 0 .. n
  BY <1>2
<1> QED BY <1>1, <1>2, <1>3 DEF HashChain

\* The buffer after so many blocks.
LEMMA RestFacts ==
  ASSUME NEW s \in Seq(Byte), NEW n \in 0 .. Blocks(s)
  PROVE  /\ Rest(s, n) \in Seq(Byte)
         /\ Rest(s, 0) = Padded(s)
         /\ Len(Rest(s, n)) = 64 * (Blocks(s) - n)
         /\ \A i \in 1 .. Len(Rest(s, n)) : Rest(s, n)[i] = Padded(s)[64 * n + i]
<1> DEFINE padded == Padded(s)
<1>1. PICK b \in Nat : b = Blocks(s) /\ Len(padded) = 64 * b
  BY BlocksFacts
<1>2. padded \in Seq(Byte)
  BY PaddedFacts
<1>3. Rest(s, n) = SubSeq(padded, 64 * n + 1, Len(padded)) /\ Rest(s, 0) = SubSeq(padded, 1, Len(padded))
  BY DEF Rest, BlockSize
<1> HIDE DEF padded
<1>4. n \in 0 .. b
  BY <1>1
<1>5. SubSeq(padded, 64 * n + 1, Len(padded)) = [i \in 1 .. 64 * (b - n) |-> padded[64 * n + i]]
  BY <1>1, <1>2, <1>4
<1>6. 64 * (b - n) \in Nat
  BY <1>4
<1>7. [i \in 1 .. 64 * (b - n) |-> padded[64 * n + i]] \in [1 .. 64 * (b - n) -> Byte]
  <2>1. ASSUME NEW i \in 1 .. 64 * (b - n) PROVE padded[64 * n + i] \in Byte
    <3>1. 64 * n + i \in 1 .. Len(padded)
      BY <1>1, <1>4
    <3> QED BY <1>2, <3>1, ElementOfSeq
  <2> QED BY <2>1
<1>8. SubSeq(padded, 1, Len(padded)) = padded
  BY <1>2
<1>9. Rest(s, n) \in Seq(Byte) /\ Len(Rest(s, n)) = 64 * (b - n)
  <2>1. PICK l \in Nat : l = 64 * (b - n)
    BY <1>6
  <2>2. Rest(s, n) \in [1 .. l -> Byte]
    BY <1>3, <1>5, <1>7, <2>1
  <2> QED BY <2>1, <2>2, IndexedIsSeq
<1>10. \A i \in 1 .. 64 * (b - n) : Rest(s, n)[i] = padded[64 * n + i]
  BY <1>3, <1>5
<1> QED BY <1>1, <1>3, <1>8, <1>9, <1>10 DEF padded

\* A padded message has all its blocks before it.
LEMMA HashBegins ==
  ASSUME CompressReturnsHash, NEW s \in Seq(Byte)
  PROVE  HashUnderWay(s, Padded(s), SHA256_IV)
<1>1. PICK f : HashChain(s, f)
  BY ChainExists
<1>2. 0 \in 0 .. Blocks(s)
  <2>1. PICK n \in Nat : n = Blocks(s)
    BY BlocksFacts
  <2> QED BY <2>1
<1>3. f[0] = SHA256_IV
  BY <1>1 DEF HashChain
<1>4. Rest(s, 0) = Padded(s)
  BY <1>2, RestFacts
<1> QED BY <1>1, <1>2, <1>3, <1>4 DEF HashUnderWay

\* Compressing the first of the blocks left goes one further.
LEMMA HashGoesOn ==
  ASSUME CompressReturnsHash, NEW s \in Seq(Byte), NEW m, NEW v,
         HashUnderWay(s, m, v), m # <<>>
  PROVE  LET more == SubSeq(m, BlockSize + 1, Len(m))
             hash == Compress(v, SubSeq(m, 1, BlockSize))
         IN  HashUnderWay(s, more, hash) /\ more \in Seq(Byte) /\ hash \in Hash
<1>0. PICK f : HashChain(s, f) /\ \E n \in 0 .. Blocks(s) : v = f[n] /\ m = Rest(s, n)
  BY DEF HashUnderWay
<1>1. PICK n \in 0 .. Blocks(s) : v = f[n] /\ m = Rest(s, n)
  BY <1>0
<1>2. PICK b \in Nat \ {0} : b = Blocks(s) /\ Len(Padded(s)) = 64 * b
  BY BlocksFacts
<1>3. m \in Seq(Byte) /\ Len(m) = 64 * (b - n)
  BY <1>1, <1>2, RestFacts
<1>4. n \in 0 .. b /\ n # b
  BY <1>1, <1>2, <1>3
<1>5. n + 1 \in 1 .. b /\ n + 1 \in 0 .. b /\ n \in 0 .. b /\ (n + 1) - 1 = n
  BY <1>4
<1> DEFINE padded == Padded(s)
<1>6. padded \in Seq(Byte) /\ Len(padded) = 64 * b
  BY <1>2, PaddedFacts
<1>7. m = SubSeq(padded, 64 * n + 1, 64 * b)
  BY <1>1, <1>2 DEF Rest, BlockSize
<1>8. /\ BlockOf(s, n + 1) = SubSeq(padded, 64 * n + 1, 64 * (n + 1))
      /\ Rest(s, n + 1) = SubSeq(padded, 64 * (n + 1) + 1, 64 * b)
  BY <1>2, <1>5 DEF BlockOf, Rest, BlockSize
<1> HIDE DEF padded
<1>9. SubSeq(m, 1, 64) = SubSeq(padded, 64 * n + 1, 64 * (n + 1))
  <2> DEFINE from == 64 * n + 1
  <2> DEFINE to == 64 * (n + 1)
  <2>1. from \in Int /\ to \in Int /\ from <= to /\ to - from + 1 = 64 /\ from = 64 * n + 1
    BY <1>4
  <2>2. ASSUME NEW i \in from .. to PROVE padded[i] \in Byte
    <3>1. i \in 1 .. Len(padded)
      BY <1>4, <1>6
    <3> QED BY <1>6, <3>1, ElementOfSeq
  <2> HIDE DEF from, to
  <2> DEFINE x == SubSeq(padded, from, to)
  <2>3. x \in Seq(Byte) /\ Len(x) = 64 /\ \A i \in 1 .. 64 : x[i] = padded[from + i - 1]
    <3>1. x \in Seq(Byte)
      BY <2>1, <2>2, SubSeqProperties
    <3>2. Len(x) = 64
      BY <2>1, <2>2, SubSeqProperties
    <3>3. \A i \in 1 .. to - from + 1 : x[i] = padded[from + i - 1]
      BY <2>1, <2>2, SubSeqProperties
    <3> HIDE DEF x
    <3> QED BY <2>1, <3>1, <3>2, <3>3
  <2>4. \A i \in 1 .. 64 : m[i] = padded[64 * n + i]
    BY <1>4, <1>6, <1>7
  <2> DEFINE y == SubSeq(m, 1, 64)
  <2>5. y = [i \in 1 .. 64 |-> m[i]]
    BY <1>3, <1>4
  <2>6. y \in Seq(Byte) /\ Len(y) = 64 /\ \A i \in 1 .. 64 : y[i] = m[i]
    <3>1. ASSUME NEW i \in 1 .. 64 PROVE m[i] \in Byte
      <4>1. i \in 1 .. Len(m)
        BY <1>3, <1>4
      <4> QED BY <1>3, <4>1, ElementOfSeq
    <3>2. y \in [1 .. 64 -> Byte]
      BY <2>5, <3>1
    <3> HIDE DEF y
    <3>3. \A i \in 1 .. 64 : y[i] = m[i]
      BY <2>5
    <3>4. y \in Seq(Byte) /\ Len(y) = 64
      BY <3>2, BlockIsSeq DEF Block, BlockSize
    <3> QED BY <3>3, <3>4
  <2> HIDE DEF x, y
  <2>7. ASSUME NEW i \in 1 .. 64 PROVE x[i] = y[i]
    <3>1. PICK j \in Int : j = from + i - 1 /\ j = 64 * n + i
      BY <1>4, <2>1
    <3>2. x[i] = padded[from + i - 1]
      BY <2>3
    <3>3. m[i] = padded[64 * n + i]
      BY <2>4
    <3>4. y[i] = m[i]
      BY <2>6
    <3> QED BY <3>1, <3>2, <3>3, <3>4
  <2>8. x = y
    BY <2>3, <2>6, <2>7, SeqEqual
  <2> QED BY <2>8 DEF x, y, from, to
<1>10. SubSeq(m, 65, Len(m)) = SubSeq(padded, 64 * (n + 1) + 1, 64 * b)
  BY <1>3, <1>4, <1>6, <1>7
<1>11. f[n + 1] = Compress(v, SubSeq(m, 1, 64))
  BY <1>0, <1>1, <1>2, <1>5, <1>8, <1>9 DEF HashChain
<1>12. f[n + 1] \in Hash
  BY <1>0, <1>2, <1>5 DEF HashChain
<1>13. Rest(s, n + 1) \in Seq(Byte)
  BY <1>2, <1>5, RestFacts
<1>14. HashUnderWay(s, SubSeq(m, 65, Len(m)), Compress(v, SubSeq(m, 1, 64)))
  BY <1>0, <1>2, <1>5, <1>8, <1>10, <1>11 DEF HashUnderWay
<1> DEFINE more == SubSeq(m, 65, Len(m))
<1> DEFINE hash == Compress(v, SubSeq(m, 1, 64))
<1>15. HashUnderWay(s, more, hash) /\ more \in Seq(Byte) /\ hash \in Hash
  BY <1>8, <1>10, <1>11, <1>12, <1>13, <1>14
<1>16. SubSeq(m, BlockSize + 1, Len(m)) = more /\ SubSeq(m, 1, BlockSize) = SubSeq(m, 1, 64)
  BY DEF BlockSize
<1> QED BY <1>15, <1>16

\* With no block left the hash value is that of the message.
LEMMA HashEnds ==
  ASSUME NEW s \in Seq(Byte), NEW v, HashUnderWay(s, <<>>, v)
  PROVE  v = Sha256(s)
<1>0. PICK f : HashChain(s, f) /\ \E n \in 0 .. Blocks(s) : v = f[n] /\ <<>> = Rest(s, n)
  BY DEF HashUnderWay
<1>1. PICK n \in 0 .. Blocks(s) : v = f[n] /\ <<>> = Rest(s, n)
  BY <1>0
<1>2. PICK b \in Nat \ {0} : b = Blocks(s)
  BY BlocksFacts
<1>3. Len(Rest(s, n)) = 64 * (b - n)
  BY <1>1, <1>2, RestFacts
<1>4. n = b
  <2>1. 0 = 64 * (b - n)
    BY <1>1, <1>3
  <2> QED BY <1>1, <1>2, <2>1
<1> QED BY <1>0, <1>1, <1>2, <1>4 DEF HashChain
-----------------------------------------------------------------------------
\* The calls.

\* The key and the text of the hmac_sha256 call under way.
CallKey ==
  IF Len(given) = 2 THEN given[1]
  ELSE IF next = <<1>> THEN Zeros(32) ELSE Hmac(Zeros(32), given[1])
CallText ==
  IF Len(given) = 2 THEN given[2] ELSE IF next = <<1>> THEN given[1] ELSE <<1>>

\* Its key, hashed if it is too long, and resized to one block.
ShortKey(k) == IF Len(k) > BlockSize THEN Sha256(k) ELSE k
KeyBlock(k) == [b \in 1 .. BlockSize |-> IF b <= Len(ShortKey(k)) THEN ShortKey(k)[b] ELSE 0]
InnerText(k, text) == Pad(KeyBlock(k), 54) \o text
OuterText(k, text) == Pad(KeyBlock(k), 92) \o Sha256(InnerText(k, text))

TypeInv ==
  /\ pc \in {"key", "pad", "compress", "done"}
  /\ caller \in {"key", "inner", "outer"}
  /\ \/ next = <<>> /\ \E k, text \in Seq(Byte) : given = <<k, text>>
     \/ next \in {<<>>, <<1>>} /\ \E pass \in Seq(Byte) : given = <<pass>>
  /\ key \in Seq(Byte) /\ data \in Seq(Byte) /\ input \in Seq(Byte) /\ msg \in Seq(Byte)
  /\ h \in Hash

\* Each call of sha256 has the argument the standard gives it.
CallInv ==
  /\ pc = "key" => key = CallKey /\ data = CallText
  /\ pc \in {"pad", "compress"} =>
       /\ caller = "key" => input = CallKey /\ Len(CallKey) > BlockSize /\ data = CallText
       /\ caller = "inner" => key = KeyBlock(CallKey) /\ input = InnerText(CallKey, CallText)
       /\ caller = "outer" => input = OuterText(CallKey, CallText)
  /\ pc = "done" => next = <<>> /\ h = Hmac(CallKey, CallText)

\* And is on its way through the padding or through the blocks.
HashInv ==
  /\ pc = "pad" => h = SHA256_IV /\ PaddingUnderWay(input, msg)
  /\ pc = "compress" => HashUnderWay(input, msg, h)

IInv == TypeInv /\ CallInv /\ HashInv

\* hmac_sha256 in two calls of sha256.
LEMMA HmacIs ==
  ASSUME NEW k, NEW text
  PROVE  Hmac(k, text) = Sha256(OuterText(k, text))
  BY DEF Hmac, OuterText, InnerText, KeyBlock, ShortKey

\* A resized key is a block.
LEMMA KeyBlockFacts ==
  ASSUME CompressReturnsHash, NEW k \in Seq(Byte)
  PROVE  KeyBlock(k) \in Seq(Byte) /\ Len(KeyBlock(k)) = BlockSize
<1>1. ShortKey(k) \in Seq(Byte)
  <2>1. Sha256(k) \in Seq(Byte)
    BY Sha256Type, HashIsSeq
  <2> QED BY <2>1 DEF ShortKey
<1>2. ASSUME NEW b \in 1 .. BlockSize
      PROVE  (IF b <= Len(ShortKey(k)) THEN ShortKey(k)[b] ELSE 0) \in Byte
  <2>1. CASE b <= Len(ShortKey(k))
    <3>1. b \in 1 .. Len(ShortKey(k))
      BY <1>1, <2>1
    <3>2. ShortKey(k)[b] \in Byte
      BY <1>1, <3>1, ElementOfSeq
    <3> QED BY <2>1, <3>2
  <2>2. CASE ~(b <= Len(ShortKey(k)))
    BY <2>2 DEF Byte
  <2> QED BY <2>1, <2>2
<1>3. KeyBlock(k) \in Block
  BY <1>2 DEF KeyBlock, Block
<1> QED BY <1>3, BlockIsSeq DEF BlockSize

\* The texts of the two calls of sha256, and their value, have their types.
LEMMA HmacTypes ==
  ASSUME CompressReturnsHash, NEW k \in Seq(Byte), NEW text \in Seq(Byte)
  PROVE  /\ InnerText(k, text) \in Seq(Byte)
         /\ OuterText(k, text) \in Seq(Byte)
         /\ Hmac(k, text) \in Hash
<1>1. 54 \in Byte /\ 92 \in Byte
  BY DEF Byte
<1>2. Pad(KeyBlock(k), 54) \in Seq(Byte) /\ Pad(KeyBlock(k), 92) \in Seq(Byte)
  BY <1>1, KeyBlockFacts, PadFacts
<1>3. InnerText(k, text) \in Seq(Byte)
  BY <1>2, ConcatProperties DEF InnerText
<1>4. Sha256(InnerText(k, text)) \in Seq(Byte)
  BY <1>3, Sha256Type, HashIsSeq
<1>5. OuterText(k, text) \in Seq(Byte)
  BY <1>2, <1>4, ConcatProperties DEF OuterText
<1> QED BY <1>3, <1>5, HmacIs, Sha256Type

\* key.resize gives the block the standard defines with a condition.
LEMMA ResizedIsKeyBlock ==
  ASSUME NEW k \in Seq(Byte), ShortKey(k) \in Seq(Byte), Len(ShortKey(k)) <= BlockSize
  PROVE  ShortKey(k) \o Zeros(BlockSize - Len(ShortKey(k))) = KeyBlock(k)
<1> DEFINE s == ShortKey(k)
<1>0. s \in Seq(Byte) /\ Len(s) <= BlockSize
  OBVIOUS
<1> HIDE DEF s
<1> DEFINE n == Len(s)
<1> DEFINE d == 64 - n
<1>2. n \in Nat /\ n <= 64
  BY <1>0, LenProperties DEF BlockSize
<1> HIDE DEF n
<1>1. n \in 0 .. 64 /\ n = Len(s) /\ d \in Nat /\ d = 64 - n
  <2>1. n \in 0 .. 64 /\ d \in Nat /\ d = 64 - n
    BY <1>2
  <2> QED BY <2>1 DEF n
<1> HIDE DEF d
<1> DEFINE z == Zeros(d)
<1>3. z \in Seq(Byte) /\ Len(z) = d /\ \A b \in 1 .. d : z[b] = 0
  BY <1>1, ZerosFacts DEF Zeros
<1> HIDE DEF z
<1> DEFINE x == s \o z
<1>4. /\ x \in Seq(Byte) /\ Len(x) = 64
      /\ \A b \in 1 .. 64 : x[b] = IF b <= n THEN s[b] ELSE z[b - n]
  <2>1. /\ x \in Seq(Byte)
        /\ Len(x) = Len(s) + Len(z)
        /\ \A b \in 1 .. Len(s) + Len(z) : x[b] = IF b <= Len(s) THEN s[b] ELSE z[b - Len(s)]
    BY <1>0, <1>3, ConcatProperties
  <2> HIDE DEF x
  <2>2. Len(s) + Len(z) = 64 /\ Len(s) = n
    BY <1>1, <1>3
  <2> QED BY <2>1, <2>2
<1>5. x \in [1 .. 64 -> Byte]
  BY <1>4, LenProperties
<1>6. ASSUME NEW b \in 1 .. 64 PROVE x[b] = IF b <= n THEN s[b] ELSE 0
  <2>1. CASE b <= n
    BY <1>4, <2>1
  <2>2. CASE ~(b <= n)
    <3>1. b - n \in 1 .. d
      BY <1>1, <2>2
    <3> QED BY <1>3, <1>4, <2>2, <3>1
  <2> QED BY <2>1, <2>2
<1> HIDE DEF x
<1>7. x = [b \in 1 .. 64 |-> IF b <= n THEN s[b] ELSE 0]
  BY <1>5, <1>6
<1>8. KeyBlock(k) = [b \in 1 .. 64 |-> IF b <= n THEN s[b] ELSE 0]
  BY <1>1 DEF KeyBlock, BlockSize, s
<1>9. s \o Zeros(BlockSize - Len(s)) = x
  BY <1>1 DEF x, z, BlockSize
<1> QED BY <1>7, <1>8, <1>9 DEF s

\* The key and the text of a call are sequences of bytes.
LEMMA CallTypes ==
  ASSUME CompressReturnsHash, TypeInv
  PROVE  CallKey \in Seq(Byte) /\ CallText \in Seq(Byte)
<1>1. Zeros(32) \in Seq(Byte) /\ <<1>> \in Seq(Byte)
  BY ZerosFacts DEF Byte
<1>2. ASSUME NEW k \in Seq(Byte), NEW text \in Seq(Byte), given = <<k, text>>
      PROVE  CallKey \in Seq(Byte) /\ CallText \in Seq(Byte)
  BY <1>2 DEF CallKey, CallText
<1>3. ASSUME NEW pass \in Seq(Byte), given = <<pass>>
      PROVE  CallKey \in Seq(Byte) /\ CallText \in Seq(Byte)
  <2>1. Hmac(Zeros(32), pass) \in Seq(Byte)
    BY <1>1, HmacTypes, HashIsSeq
  <2>2. Len(given) = 1 /\ given[1] = pass
    BY <1>3
  <2> QED BY <1>1, <2>1, <2>2 DEF CallKey, CallText
<1> QED BY <1>2, <1>3 DEF TypeInv

-----------------------------------------------------------------------------
\* The induction.

\* Before the first call there is only its key and its text.
LEMMA Initially ==
  ASSUME CompressReturnsHash, Init
  PROVE  IInv
<1>1. /\ Zeros(32) \in Seq(Byte) /\ <<>> \in Seq(Byte) /\ SHA256_IV \in Hash
      /\ MacKeys \subseteq Seq(Byte) /\ MacTexts \subseteq Seq(Byte) /\ Passphrases \subseteq Seq(Byte)
  <2>1. Zeros(32) \in Seq(Byte) /\ <<>> \in Seq(Byte)
    BY ZerosFacts
  <2> QED BY <2>1, InputAssumption DEF Hash
<1>2. pc = "key" /\ caller = "key" /\ input = <<>> /\ msg = <<>> /\ h = SHA256_IV
  BY DEF Init
<1>3. CASE \E k \in MacKeys, text \in MacTexts :
             key = k /\ data = text /\ next = <<>> /\ given = <<k, text>>
  <2>1. PICK k \in MacKeys : \E text \in MacTexts :
          key = k /\ data = text /\ next = <<>> /\ given = <<k, text>>
    BY <1>3
  <2>2. PICK text \in MacTexts : key = k /\ data = text /\ next = <<>> /\ given = <<k, text>>
    BY <2>1
  <2>3. k \in Seq(Byte) /\ text \in Seq(Byte)
    BY <1>1
  <2>4. CallKey = k /\ CallText = text
    BY <2>2 DEF CallKey, CallText
  <2>5. TypeInv
    BY <1>1, <1>2, <2>2, <2>3 DEF TypeInv
  <2> QED BY <1>2, <2>2, <2>4, <2>5 DEF IInv, CallInv, HashInv
<1>4. CASE \E pass \in Passphrases :
             key = Zeros(32) /\ data = pass /\ next = <<1>> /\ given = <<pass>>
  <2>1. PICK pass \in Passphrases : key = Zeros(32) /\ data = pass /\ next = <<1>> /\ given = <<pass>>
    BY <1>4
  <2>2. pass \in Seq(Byte)
    BY <1>1
  <2>3. Len(given) = 1 /\ given[1] = pass
    BY <2>1
  <2>4. CallKey = Zeros(32) /\ CallText = pass
    BY <2>1, <2>3 DEF CallKey, CallText
  <2>5. TypeInv
    BY <1>1, <1>2, <2>1, <2>2 DEF TypeInv
  <2> QED BY <1>2, <2>1, <2>4, <2>5 DEF IInv, CallInv, HashInv
<1> QED BY <1>3, <1>4 DEF Init

\* A call of sha256 begins its padding with the argument it is given.
LEMMA CallBegins ==
  ASSUME NEW who, NEW slice \in Seq(Byte), CallSha256(who, slice)
  PROVE  /\ pc' = "pad" /\ caller' = who /\ input' = slice /\ h' = SHA256_IV
         /\ PaddingUnderWay(input', msg')
         /\ input' \in Seq(Byte) /\ msg' \in Seq(Byte) /\ h' \in Hash
         /\ HashInv'
<1>1. /\ pc' = "pad" /\ caller' = who /\ input' = slice /\ h' = SHA256_IV
      /\ msg' = Append(slice, 128)
  BY DEF CallSha256
<1>2. PaddingUnderWay(slice, Append(slice, 128))
  BY PaddingBegins
<1>3. Append(slice, 128) \in Seq(Byte)
  BY DEF Byte
<1>4. PaddingUnderWay(input', msg')
  BY <1>1, <1>2 DEF PaddingUnderWay, Missing
<1>5. h' \in Hash
  BY <1>1, InputAssumption DEF Hash
<1> QED BY <1>1, <1>3, <1>4, <1>5 DEF HashInv

\* The first call of an hmac_sha256 that has its key: the key becomes a block,
\* and the text is the standard's.
LEMMA KeyUsed ==
  ASSUME CompressReturnsHash, IInv, data = CallText, UNCHANGED <<next, data, given>>,
         UseKey(ShortKey(CallKey)), Len(ShortKey(CallKey)) <= BlockSize
  PROVE  IInv'
<1>1. CallKey \in Seq(Byte) /\ CallText \in Seq(Byte)
  BY CallTypes DEF IInv
<1>2. ShortKey(CallKey) \in Seq(Byte)
  <2>1. Sha256(CallKey) \in Seq(Byte)
    BY <1>1, Sha256Type, HashIsSeq
  <2> QED BY <1>1, <2>1 DEF ShortKey
<1>3. ShortKey(CallKey) \o Zeros(BlockSize - Len(ShortKey(CallKey))) = KeyBlock(CallKey)
  BY <1>1, <1>2, ResizedIsKeyBlock
<1>4. key' = KeyBlock(CallKey) /\ CallSha256("inner", InnerText(CallKey, CallText))
  BY <1>3 DEF UseKey, InnerText
<1>5. InnerText(CallKey, CallText) \in Seq(Byte) /\ KeyBlock(CallKey) \in Seq(Byte)
  BY <1>1, HmacTypes, KeyBlockFacts
<1>6. /\ pc' = "pad" /\ caller' = "inner" /\ input' = InnerText(CallKey, CallText)
      /\ input' \in Seq(Byte) /\ msg' \in Seq(Byte) /\ h' \in Hash
      /\ HashInv'
  BY <1>4, <1>5, CallBegins
<1>7. CallKey' = CallKey /\ CallText' = CallText
  BY DEF CallKey, CallText
<1>8. TypeInv'
  BY <1>4, <1>5, <1>6 DEF IInv, TypeInv
<1>9. CallInv'
  BY <1>4, <1>6, <1>7 DEF CallInv
<1> QED BY <1>6, <1>8, <1>9 DEF IInv

\* A key that is too long goes to sha256 first; another is used at once.
LEMMA ChooseKeyPreserves ==
  ASSUME CompressReturnsHash, IInv, ChooseKey
  PROVE  IInv'
<1>1. key = CallKey /\ data = CallText /\ key \in Seq(Byte)
  BY DEF ChooseKey, IInv, CallInv, TypeInv
<1>2. CASE Len(key) > BlockSize
  <2>1. CallSha256("key", key) /\ UNCHANGED <<key, next, data, given>>
    BY <1>2 DEF ChooseKey
  <2>2. /\ pc' = "pad" /\ caller' = "key" /\ input' = key
        /\ input' \in Seq(Byte) /\ msg' \in Seq(Byte) /\ h' \in Hash
        /\ HashInv'
    BY <1>1, <2>1, CallBegins
  <2>3. CallKey' = CallKey /\ CallText' = CallText
    BY <2>1 DEF CallKey, CallText
  <2>4. TypeInv'
    BY <2>1, <2>2 DEF IInv, TypeInv
  <2>5. CallInv'
    BY <1>1, <1>2, <2>1, <2>2, <2>3 DEF CallInv
  <2> QED BY <2>2, <2>4, <2>5 DEF IInv
<1>3. CASE ~(Len(key) > BlockSize)
  <2>1. UseKey(key) /\ UNCHANGED <<next, data, given>>
    BY <1>3 DEF ChooseKey
  <2>2. ShortKey(CallKey) = key /\ Len(key) <= BlockSize
    <3>1. Len(key) \in Nat
      BY <1>1, LenProperties
    <3>2. Len(key) <= BlockSize
      BY <1>3, <3>1 DEF BlockSize
    <3> QED BY <1>1, <1>3, <3>2 DEF ShortKey
  <2> QED BY <1>1, <2>1, <2>2, KeyUsed
<1> QED BY <1>2, <1>3

\* A zero more is still padding.
LEMMA PushZeroPreserves ==
  ASSUME CompressReturnsHash, IInv, PushZero
  PROVE  IInv'
<1>1. /\ pc = "pad" /\ Len(msg) % BlockSize # 56 /\ msg' = Append(msg, 0)
      /\ UNCHANGED <<pc, caller, next, key, data, input, h, given>>
  BY DEF PushZero
<1>2. input \in Seq(Byte) /\ PaddingUnderWay(input, msg) /\ h = SHA256_IV
  BY <1>1 DEF IInv, TypeInv, HashInv
<1>3. PaddingUnderWay(input, Append(msg, 0)) /\ Append(msg, 0) \in Seq(Byte)
  BY <1>1, <1>2, PaddingGoesOn
<1>4. HashInv'
  BY <1>1, <1>2, <1>3 DEF HashInv, PaddingUnderWay, Missing
<1>5. TypeInv'
  BY <1>1, <1>3 DEF IInv, TypeInv
<1>6. CallInv'
  <2>1. CallKey' = CallKey /\ CallText' = CallText
    BY <1>1 DEF CallKey, CallText
  <2> QED BY <1>1, <2>1 DEF IInv, CallInv
<1> QED BY <1>4, <1>5, <1>6 DEF IInv

\* What the length makes of the buffer is the padded message.
LEMMA LengthCompletes ==
  ASSUME IInv, AppendLength
  PROVE  msg' = Padded(input) /\ h' = SHA256_IV
<1>1. /\ pc = "pad" /\ Len(msg) % BlockSize = 56 /\ msg' = msg \o BeBytes(8 * Len(input))
      /\ h' = h
  BY DEF AppendLength
<1>2. input \in Seq(Byte) /\ PaddingUnderWay(input, msg) /\ h = SHA256_IV
  BY <1>1 DEF IInv, TypeInv, HashInv
<1> QED BY <1>1, <1>2, PaddingEnds

\* The padded message begins its chain.
LEMMA AppendLengthPreserves ==
  ASSUME CompressReturnsHash, IInv, AppendLength
  PROVE  IInv'
<1>1. /\ pc = "pad" /\ pc' = "compress"
      /\ UNCHANGED <<caller, next, key, data, input, h, given>>
  BY DEF AppendLength
<1>2. msg' = Padded(input) /\ h' = SHA256_IV /\ input \in Seq(Byte)
  BY LengthCompletes DEF IInv, TypeInv
<1>3. HashUnderWay(input, Padded(input), SHA256_IV) /\ Padded(input) \in Seq(Byte)
  BY <1>2, HashBegins, PaddedFacts
<1>4. HashUnderWay(input, msg, h)'
  BY <1>1, <1>2, <1>3
<1>5. HashInv'
  BY <1>1, <1>4 DEF HashInv
<1>6. TypeInv'
  BY <1>1, <1>2, <1>3 DEF IInv, TypeInv
<1>7. CallInv'
  <2>1. CallKey' = CallKey /\ CallText' = CallText
    BY <1>1 DEF CallKey, CallText
  <2> QED BY <1>1, <2>1 DEF IInv, CallInv
<1> QED BY <1>5, <1>6, <1>7 DEF IInv

\* A block is one step of the chain.
LEMMA CompressBlockPreserves ==
  ASSUME CompressReturnsHash, IInv, CompressBlock
  PROVE  IInv'
<1>1. /\ pc = "compress" /\ msg # <<>>
      /\ UNCHANGED <<pc, caller, next, key, data, input, given>>
  BY DEF CompressBlock
<1>2. input \in Seq(Byte) /\ HashUnderWay(input, msg, h)
  BY <1>1 DEF IInv, TypeInv, HashInv
<1> DEFINE more == SubSeq(msg, BlockSize + 1, Len(msg))
<1> DEFINE hash == Compress(h, SubSeq(msg, 1, BlockSize))
<1>3. msg' = more /\ h' = hash
  BY DEF CompressBlock
<1>4. HashUnderWay(input, more, hash) /\ more \in Seq(Byte) /\ hash \in Hash
  BY <1>1, <1>2, HashGoesOn
<1> HIDE DEF more, hash
<1>5. HashUnderWay(input, msg, h)'
  BY <1>1, <1>3, <1>4
<1>6. HashInv'
  BY <1>1, <1>5 DEF HashInv
<1>7. TypeInv'
  BY <1>1, <1>3, <1>4 DEF IInv, TypeInv
<1>8. CallInv'
  <2>1. CallKey' = CallKey /\ CallText' = CallText
    BY <1>1 DEF CallKey, CallText
  <2> QED BY <1>1, <2>1 DEF IInv, CallInv
<1> QED BY <1>6, <1>7, <1>8 DEF IInv

\* When sha256 returns, its value is that of its argument.
LEMMA Returned ==
  ASSUME IInv, pc = "compress", msg = <<>>
  PROVE  h = Sha256(input)
<1>1. input \in Seq(Byte) /\ HashUnderWay(input, <<>>, h)
  BY DEF IInv, TypeInv, HashInv
<1> QED BY <1>1, HashEnds

\* The hashed key is the short one.
LEMMA ReturnKeyPreserves ==
  ASSUME CompressReturnsHash, IInv, ReturnKey
  PROVE  IInv'
<1>1. pc = "compress" /\ msg = <<>> /\ caller = "key" /\ UseKey(h) /\ UNCHANGED <<next, data, given>>
  BY DEF ReturnKey
<1>2. input = CallKey /\ Len(CallKey) > BlockSize /\ data = CallText /\ h \in Hash
  BY <1>1 DEF IInv, CallInv, TypeInv
<1>3. h = ShortKey(CallKey)
  BY <1>1, <1>2, Returned DEF ShortKey
<1>4. Len(h) <= BlockSize
  <2>1. Len(h) = 32
    BY <1>2, HashIsSeq
  <2> QED BY <2>1 DEF BlockSize
<1> QED BY <1>1, <1>2, <1>3, <1>4, KeyUsed

\* The inner value completes the text of the outer call.
LEMMA ReturnInnerPreserves ==
  ASSUME CompressReturnsHash, IInv, ReturnInner
  PROVE  IInv'
<1>1. /\ pc = "compress" /\ msg = <<>> /\ caller = "inner"
      /\ CallSha256("outer", Pad(key, 92) \o h) /\ UNCHANGED <<next, key, data, given>>
  BY DEF ReturnInner
<1>2. key = KeyBlock(CallKey) /\ input = InnerText(CallKey, CallText)
  BY <1>1 DEF IInv, CallInv
<1>3. Pad(key, 92) \o h = OuterText(CallKey, CallText)
  BY <1>1, <1>2, Returned DEF OuterText
<1>4. OuterText(CallKey, CallText) \in Seq(Byte)
  BY CallTypes, HmacTypes DEF IInv
<1>5. /\ pc' = "pad" /\ caller' = "outer" /\ input' = OuterText(CallKey, CallText)
      /\ input' \in Seq(Byte) /\ msg' \in Seq(Byte) /\ h' \in Hash
      /\ HashInv'
  BY <1>1, <1>3, <1>4, CallBegins
<1>6. CallKey' = CallKey /\ CallText' = CallText
  BY <1>1 DEF CallKey, CallText
<1>7. TypeInv'
  BY <1>1, <1>5 DEF IInv, TypeInv
<1>8. CallInv'
  BY <1>5, <1>6 DEF CallInv
<1> QED BY <1>5, <1>7, <1>8 DEF IInv

\* The outer value is the result, or the key of the second hmac_sha256.
LEMMA ReturnOuterPreserves ==
  ASSUME CompressReturnsHash, IInv, ReturnOuter
  PROVE  IInv'
<1>1. /\ pc = "compress" /\ msg = <<>> /\ caller = "outer" /\ next' = <<>>
      /\ UNCHANGED <<caller, input, msg, h, given>>
      /\ IF next = <<>> THEN pc' = "done" /\ UNCHANGED <<key, data>>
                        ELSE pc' = "key" /\ key' = h /\ data' = next
  BY DEF ReturnOuter
<1>2. input = OuterText(CallKey, CallText)
  BY <1>1 DEF IInv, CallInv
<1>3. h = Hmac(CallKey, CallText) /\ h \in Hash
  BY <1>1, <1>2, Returned, HmacIs DEF IInv, TypeInv
<1>4. CASE next = <<>>
  <2>1. CallKey' = CallKey /\ CallText' = CallText
    BY <1>1, <1>4 DEF CallKey, CallText
  <2>2. pc' = "done" /\ next' = <<>> /\ h' = Hmac(CallKey', CallText')
    BY <1>1, <1>3, <1>4, <2>1
  <2>3. TypeInv'
    BY <1>1, <1>4 DEF IInv, TypeInv
  <2> QED BY <2>2, <2>3 DEF IInv, CallInv, HashInv
<1>5. CASE next # <<>>
  <2>1. PICK pass \in Seq(Byte) : given = <<pass>> /\ next = <<1>>
    BY <1>5 DEF IInv, TypeInv
  <2>2. Len(given) = 1 /\ given[1] = pass /\ <<1>> # <<>> /\ <<1>> \in Seq(Byte)
    BY <2>1 DEF Byte
  <2>3. CallKey = Zeros(32) /\ CallText = pass
    BY <2>1, <2>2 DEF CallKey, CallText
  <2>4. CallKey' = Hmac(Zeros(32), pass) /\ CallText' = <<1>>
    BY <1>1, <2>2 DEF CallKey, CallText
  <2>5. pc' = "key" /\ key' = CallKey' /\ data' = CallText'
    BY <1>1, <1>3, <1>5, <2>1, <2>3, <2>4
  <2>6. h \in Seq(Byte)
    BY <1>3, HashIsSeq
  <2>7. TypeInv'
    BY <1>1, <1>5, <2>1, <2>2, <2>6 DEF IInv, TypeInv
  <2> QED BY <2>5, <2>7 DEF IInv, CallInv, HashInv
<1> QED BY <1>4, <1>5

\* Every step preserves the invariant.
LEMMA Preserved ==
  ASSUME CompressReturnsHash, IInv, [Next]_vars
  PROVE  IInv'
<1>1. CASE ChooseKey
  BY <1>1, ChooseKeyPreserves
<1>2. CASE PushZero
  BY <1>2, PushZeroPreserves
<1>3. CASE AppendLength
  BY <1>3, AppendLengthPreserves
<1>4. CASE CompressBlock
  BY <1>4, CompressBlockPreserves
<1>5. CASE ReturnKey
  BY <1>5, ReturnKeyPreserves
<1>6. CASE ReturnInner
  BY <1>6, ReturnInnerPreserves
<1>7. CASE ReturnOuter
  BY <1>7, ReturnOuterPreserves
<1>8. CASE UNCHANGED vars
  BY <1>8 DEF vars, IInv, TypeInv, CallInv, HashInv, CallKey, CallText
<1> QED BY <1>1, <1>2, <1>3, <1>4, <1>5, <1>6, <1>7, <1>8 DEF Next

\* What is handed to the compression, and what the last call ends with.
Handed ==
  pc = "pad" /\ pc' = "compress" =>
    h' = SHA256_IV /\ (Fits(input) => IsPadding(msg', input))

\* The step that ends the padding is the one that has completed it.
LEMMA HandsOnPadding ==
  ASSUME IInv, Next
  PROVE  Handed
<1> SUFFICES ASSUME pc = "pad", pc' = "compress"
             PROVE  h' = SHA256_IV /\ (Fits(input) => IsPadding(msg', input))
  BY DEF Handed
<1>1. AppendLength
  BY DEF Next, ChooseKey, PushZero, CompressBlock, ReturnKey, ReturnInner, ReturnOuter
<1>2. msg' = Padded(input) /\ h' = SHA256_IV /\ input \in Seq(Byte)
  BY <1>1, LengthCompletes DEF IInv, TypeInv
<1> QED BY <1>2, OnlyPadding

\* The result is the standard's for the key and the text of the call.
LEMMA ResultIsStandard ==
  ASSUME IInv
  PROVE  StandardResult
<1> SUFFICES ASSUME pc = "done"
             PROVE  h = IF Len(given) = 2 THEN Hmac(given[1], given[2])
                        ELSE Hmac(Hmac(Zeros(32), given[1]), <<1>>)
  BY DEF StandardResult
<1>1. next = <<>> /\ h = Hmac(CallKey, CallText)
  BY DEF IInv, CallInv
<1> QED BY <1>1 DEF CallKey, CallText

\* Whatever the length of its argument, sha256 hands the compression FIPS 180-4's
\* padding of it, from the initial value: the loop that pushes zeros neither stops
\* early nor goes round the block once more, and the eight bytes after them spell
\* the bit length of the argument and not of the buffer, for all the lengths whose
\* number of bits is below 2^64, the only ones the standard pads.
THEOREM PadsEveryLength == ASSUME CompressReturnsHash PROVE Spec => PaddedToBlocks
<1>1. IInv /\ [Next]_vars => [Handed]_vars
  BY HandsOnPadding
<1>2. Init => IInv
  BY Initially
<1>3. IInv /\ [Next]_vars => IInv'
  BY Preserved
<1>4. Spec => [][Handed]_vars
  BY <1>1, <1>2, <1>3, PTL DEF Spec
<1> QED BY <1>4 DEF PaddedToBlocks, Handed

\* For every compression that takes a hash value and a block to a hash value,
\* every key, text and passphrase: the value hmac_sha256 ends with is RFC 2104's,
\* and the value derive_256bit_key ends with is RFC 5869's extraction under a
\* salt of zeros followed by one expansion with the counter 1.  The keys on both
\* sides of a block, and all lengths at which the padding adds a block, are cases
\* of it.  The hash in them is over Padded, the standard's padding of every message
\* that has one (OnlyPadding).
THEOREM DerivesTheStandardKey == ASSUME CompressReturnsHash PROVE Spec => []StandardResult
<1>1. Init => IInv
  BY Initially
<1>2. IInv /\ [Next]_vars => IInv'
  BY Preserved
<1>3. IInv => StandardResult
  BY ResultIsStandard
<1> QED BY <1>1, <1>2, <1>3, PTL DEF Spec

-----------------------------------------------------------------------------
\* The key schedule.

\* t[i] is what has been added up to the byte i, with the carry into it.
Carries(column, t) ==
  /\ t \in [ByteIndex -> Nat]
  /\ t[0] = column[0]
  /\ \A i \in 1 .. 15 : t[i] = column[i] + (t[i - 1] \div 256)
  /\ Carried(column) = [i \in ByteIndex |-> t[i] % 256]

\* Carrying runs through every column.
LEMMA CarriesExist ==
  ASSUME NEW column \in [ByteIndex -> Nat]
  PROVE  \E t : Carries(column, t)
<1> DEFINE step == [a \in Nat \X Nat |->
                      IF a[1] + 1 \in 1 .. 15 THEN column[a[1] + 1] + (a[2] \div 256) ELSE 0]
<1> DEFINE Body(u) == [i \in ByteIndex |-> column[i] + (IF i = 0 THEN 0 ELSE u[i - 1] \div 256)]
<1> DEFINE total == CHOOSE u : u = Body(u)
<1> DEFINE T == Nat
<1>0. ByteIndex = 0 .. 15 /\ T = Nat
  BY DEF ByteIndex
<1>n. PICK n \in Nat : n = 15
  OBVIOUS
<1>1. Carried(column) = [i \in ByteIndex |-> total[i] % 256]
  BY DEF Carried
<1>2. step \in [Nat \X T -> T]
  <2>1. ASSUME NEW k \in Nat, NEW v \in Nat, k + 1 \in 1 .. 15
        PROVE  column[k + 1] + (v \div 256) \in Nat
    <3>1. column[k + 1] \in Nat
      BY <1>0, <2>1
    <3> QED BY <3>1
  <2> QED BY <2>1
<1>3. \A k \in 1 .. 15, v \in Nat : step[<<k - 1, v>>] = column[k] + (v \div 256)
  <2> SUFFICES ASSUME NEW k \in 1 .. 15, NEW v \in Nat
               PROVE  step[<<k - 1, v>>] = column[k] + (v \div 256)
    OBVIOUS
  <2>1. k - 1 \in Nat /\ (k - 1) + 1 = k
    OBVIOUS
  <2> QED BY <2>1
<1> HIDE DEF step, T
<1>4. column[0] \in T
  BY <1>0
<1>5a. PICK f \in [0 .. n -> T] : f[0] = column[0] /\ Follows(f, T, step, n)
  BY <1>2, <1>4, LoopExists
<1>5. f \in [0 .. 15 -> Nat] /\ f[0] = column[0] /\ Follows(f, Nat, step, 15)
  BY <1>0, <1>n, <1>5a
<1>6. ASSUME NEW k \in 1 .. 15 PROVE f[k] = column[k] + (f[k - 1] \div 256)
  <2>1. k - 1 \in 0 .. 15
    OBVIOUS
  <2>2. f[k - 1] \in Nat
    BY <1>5, <2>1
  <2>3. f[k] = step[<<k - 1, f[k - 1]>>]
    BY <1>5, <2>2 DEF Follows
  <2> QED BY <1>3, <2>2, <2>3
<1>7. f = Body(f)
  <2>1. ASSUME NEW i \in 0 .. 15 PROVE f[i] = Body(f)[i]
    <3>1. CASE i = 0
      BY <1>0, <1>4, <1>5, <3>1
    <3>2. CASE i # 0
      <4>1. i \in 1 .. 15
        BY <3>2
      <4> QED BY <1>0, <1>6, <3>2, <4>1
    <3> QED BY <3>1, <3>2
  <2>2. f = [i \in 0 .. 15 |-> Body(f)[i]]
    BY <1>5, <2>1
  <2> QED BY <1>0, <2>2
<1>8. total = Body(total)
  BY <1>7
<1> HIDE DEF total
<1>9. total[0] = column[0] /\ \A k \in 1 .. 15 : total[k] = column[k] + (total[k - 1] \div 256)
  <2>1. Body(total)[0] = column[0]
    BY <1>0, <1>4
  <2>2. ASSUME NEW k \in 1 .. 15 PROVE total[k] = column[k] + (total[k - 1] \div 256)
    <3>1. k \in ByteIndex /\ k # 0
      BY <1>0
    <3>2. Body(total)[k] = column[k] + (total[k - 1] \div 256)
      BY <3>1
    <3> QED BY <1>8, <3>2
  <2> QED BY <1>8, <2>1, <2>2
<1>10. Follows(total, T, step, n)
  <2> SUFFICES ASSUME NEW k \in 1 .. n, total[k - 1] \in T
               PROVE  total[k] = step[<<k - 1, total[k - 1]>>]
    BY DEF Follows
  <2> QED BY <1>0, <1>n, <1>3, <1>9
<1>11. \A k \in 0 .. 15 : f[k] = total[k]
  <2>1. f[0] = total[0]
    BY <1>5, <1>9
  <2>2. \A k \in 0 .. n : f[k] = total[k]
    BY <1>5a, <1>10, <2>1, LoopUnique
  <2> QED BY <1>n, <2>2
<1>12. [i \in ByteIndex |-> total[i] % 256] = [i \in ByteIndex |-> f[i] % 256]
  BY <1>0, <1>11
<1>13. Carries(column, f)
  BY <1>0, <1>1, <1>5, <1>6, <1>12 DEF Carries
<1> QED BY <1>13

\* s[k] is the sum of f[0] to f[k].
PartialSums(f, s) ==
  /\ f \in [0 .. 15 -> Nat] /\ s \in [0 .. 15 -> Nat]
  /\ s[0] = f[0]
  /\ \A k \in 1 .. 15 : s[k] = f[k] + s[k - 1]

\* The last of them has sixteen terms.
LEMMA SumOfSixteen ==
  ASSUME NEW f, NEW s, PartialSums(f, s)
  PROVE  s[15] = f[0] + f[1] + f[2] + f[3] + f[4] + f[5] + f[6] + f[7] + f[8] + f[9]
                   + f[10] + f[11] + f[12] + f[13] + f[14] + f[15]
<1>12. \A i \in 0 .. 15 : f[i] \in Nat /\ s[i] \in Nat
  BY DEF PartialSums
<1>11. s[0] = f[0]
  BY DEF PartialSums
<1>13. s[3] = f[0] + f[1] + f[2] + f[3]
  <2>1. s[1] = f[1] + s[0] /\ s[2] = f[2] + s[1] /\ s[3] = f[3] + s[2]
    BY DEF PartialSums
  <2>2. f[0] \in Nat /\ f[1] \in Nat /\ f[2] \in Nat /\ f[3] \in Nat
    BY <1>12
  <2>3. s[0] \in Nat /\ s[1] \in Nat /\ s[2] \in Nat /\ s[3] \in Nat
    BY <1>12
  <2> QED BY <1>11, <2>1, <2>2, <2>3
<1>14. s[7] = f[0] + f[1] + f[2] + f[3] + f[4] + f[5] + f[6] + f[7]
  <2>1. s[4] = f[4] + s[3] /\ s[5] = f[5] + s[4] /\ s[6] = f[6] + s[5] /\ s[7] = f[7] + s[6]
    BY DEF PartialSums
  <2>2. f[0] \in Nat /\ f[1] \in Nat /\ f[2] \in Nat /\ f[3] \in Nat /\ f[4] \in Nat /\ f[5] \in Nat /\ f[6] \in Nat /\ f[7] \in Nat
    BY <1>12
  <2>3. s[3] \in Nat /\ s[4] \in Nat /\ s[5] \in Nat /\ s[6] \in Nat /\ s[7] \in Nat
    BY <1>12
  <2> QED BY <1>13, <2>1, <2>2, <2>3
<1>15. s[11] = s[7] + f[8] + f[9] + f[10] + f[11]
  <2>1. s[8] = f[8] + s[7] /\ s[9] = f[9] + s[8] /\ s[10] = f[10] + s[9] /\ s[11] = f[11] + s[10]
    BY DEF PartialSums
  <2>2. f[7] \in Nat /\ f[8] \in Nat /\ f[9] \in Nat /\ f[10] \in Nat /\ f[11] \in Nat
    BY <1>12
  <2>3. s[7] \in Nat /\ s[8] \in Nat /\ s[9] \in Nat /\ s[10] \in Nat /\ s[11] \in Nat
    BY <1>12
  <2> QED BY <2>1, <2>2, <2>3
<1>16. s[15] = s[11] + f[12] + f[13] + f[14] + f[15]
  <2>1. s[12] = f[12] + s[11] /\ s[13] = f[13] + s[12] /\ s[14] = f[14] + s[13] /\ s[15] = f[15] + s[14]
    BY DEF PartialSums
  <2>2. f[11] \in Nat /\ f[12] \in Nat /\ f[13] \in Nat /\ f[14] \in Nat /\ f[15] \in Nat
    BY <1>12
  <2>3. s[11] \in Nat /\ s[12] \in Nat /\ s[13] \in Nat /\ s[14] \in Nat /\ s[15] \in Nat
    BY <1>12
  <2> QED BY <2>1, <2>2, <2>3
<1>17. f[0] \in Nat /\ f[1] \in Nat /\ f[2] \in Nat /\ f[3] \in Nat /\ f[4] \in Nat /\ f[5] \in Nat /\ f[6] \in Nat /\ f[7] \in Nat /\ f[8] \in Nat /\ f[9] \in Nat /\ f[10] \in Nat /\ f[11] \in Nat /\ f[12] \in Nat /\ f[13] \in Nat /\ f[14] \in Nat /\ f[15] \in Nat
  BY <1>12
<1>18. s[7] \in Nat /\ s[11] \in Nat
  BY <1>12
<1> QED BY <1>17, <1>18, <1>14, <1>15, <1>16

\* The sixteen terms of a column.
LEMMA SumUnrolled ==
  ASSUME NEW f \in [ByteIndex -> Nat]
  PROVE  SumOf(f) = f[0] + f[1] + f[2] + f[3] + f[4] + f[5] + f[6] + f[7] + f[8] + f[9]
                      + f[10] + f[11] + f[12] + f[13] + f[14] + f[15]
<1> DEFINE step == [a \in Nat \X Nat |-> IF a[1] + 1 \in 1 .. 15 THEN f[a[1] + 1] + a[2] ELSE 0]
<1> DEFINE Body(u) == [i \in ByteIndex |-> f[i] + (IF i = 0 THEN 0 ELSE u[i - 1])]
<1> DEFINE sum == CHOOSE u : u = Body(u)
<1> DEFINE T == Nat
<1>0. ByteIndex = 0 .. 15 /\ T = Nat
  BY DEF ByteIndex
<1>n. PICK n \in Nat : n = 15
  OBVIOUS
<1>1. SumOf(f) = sum[15]
  BY DEF SumOf
<1>2. step \in [Nat \X T -> T]
  <2>1. ASSUME NEW k \in Nat, NEW v \in Nat, k + 1 \in 1 .. 15
        PROVE  f[k + 1] + v \in Nat
    <3>1. f[k + 1] \in Nat
      BY <1>0, <2>1
    <3> QED BY <3>1
  <2> QED BY <2>1
<1>3. \A k \in 1 .. 15, v \in Nat : step[<<k - 1, v>>] = f[k] + v
  <2> SUFFICES ASSUME NEW k \in 1 .. 15, NEW v \in Nat
               PROVE  step[<<k - 1, v>>] = f[k] + v
    OBVIOUS
  <2>1. k - 1 \in Nat /\ (k - 1) + 1 = k
    OBVIOUS
  <2> QED BY <2>1
<1> HIDE DEF step, T
<1>4. f[0] \in T
  BY <1>0
<1>5a. PICK s \in [0 .. n -> T] : s[0] = f[0] /\ Follows(s, T, step, n)
  BY <1>2, <1>4, LoopExists
<1>5. s \in [0 .. 15 -> Nat] /\ s[0] = f[0] /\ Follows(s, Nat, step, 15)
  BY <1>0, <1>n, <1>5a
<1>6. ASSUME NEW k \in 1 .. 15 PROVE s[k] = f[k] + s[k - 1]
  <2>1. k - 1 \in 0 .. 15
    OBVIOUS
  <2>2. s[k - 1] \in Nat
    BY <1>5, <2>1
  <2>3. s[k] = step[<<k - 1, s[k - 1]>>]
    BY <1>5, <2>2 DEF Follows
  <2> QED BY <1>3, <2>2, <2>3
<1>7. s = Body(s)
  <2>1. ASSUME NEW i \in 0 .. 15 PROVE s[i] = Body(s)[i]
    <3>1. CASE i = 0
      BY <1>0, <1>4, <1>5, <3>1
    <3>2. CASE i # 0
      <4>1. i \in 1 .. 15
        BY <3>2
      <4> QED BY <1>0, <1>6, <3>2, <4>1
    <3> QED BY <3>1, <3>2
  <2>2. s = [i \in 0 .. 15 |-> Body(s)[i]]
    BY <1>5, <2>1
  <2> QED BY <1>0, <2>2
<1>8. sum = Body(sum)
  BY <1>7
<1> HIDE DEF sum
<1>9. sum[0] = f[0] /\ \A k \in 1 .. 15 : sum[k] = f[k] + sum[k - 1]
  <2>1. Body(sum)[0] = f[0]
    BY <1>0, <1>4
  <2>2. ASSUME NEW k \in 1 .. 15 PROVE sum[k] = f[k] + sum[k - 1]
    <3>1. k \in ByteIndex /\ k # 0
      BY <1>0
    <3>2. Body(sum)[k] = f[k] + sum[k - 1]
      BY <3>1
    <3> QED BY <1>8, <3>2
  <2> QED BY <1>8, <2>1, <2>2
<1>10. Follows(sum, T, step, n)
  <2> SUFFICES ASSUME NEW k \in 1 .. n, sum[k - 1] \in T
               PROVE  sum[k] = step[<<k - 1, sum[k - 1]>>]
    BY DEF Follows
  <2> QED BY <1>0, <1>n, <1>3, <1>9
<1>11. s[15] = sum[15]
  <2>1. s[0] = sum[0]
    BY <1>5, <1>9
  <2>2. \A k \in 0 .. n : s[k] = sum[k]
    BY <1>5a, <1>10, <2>1, LoopUnique
  <2> QED BY <1>n, <2>2
<1>12. PartialSums(f, s)
  BY <1>0, <1>5, <1>6 DEF PartialSums
<1>13. s[15] = f[0] + f[1] + f[2] + f[3] + f[4] + f[5] + f[6] + f[7] + f[8] + f[9]
                 + f[10] + f[11] + f[12] + f[13] + f[14] + f[15]
  BY <1>12, SumOfSixteen
<1> QED BY <1>1, <1>11, <1>13

\* The four copies of a word x that reach its byte i.
Reach(x, i, k) == IF i < k THEN 0 ELSE x[i - k]
Copies(x, i) == Reach(x, i, 0) + Reach(x, i, 2) + Reach(x, i, 4) + Reach(x, i, 6)

\* The bytes of a word reach others as bytes.
LEMMA ReachType ==
  ASSUME NEW x \in Word128, NEW i \in -1 .. 15, NEW k \in Nat
  PROVE  Reach(x, i, k) \in 0 .. 255
<1>1. CASE i < k
  BY <1>1 DEF Reach
<1>2. CASE ~(i < k)
  <2>1. i - k \in ByteIndex
    BY <1>2 DEF ByteIndex
  <2> QED BY <1>2, <2>1 DEF Reach, Word128, Byte
<1> QED BY <1>1, <1>2

\* Four copies of a word, sixteen bits apart, add up to a number in every column.
LEMMA CopiesType ==
  ASSUME NEW x \in Word128, NEW i \in -1 .. 15
  PROVE  Copies(x, i) \in Nat
<1>1. Reach(x, i, 0) \in Nat /\ Reach(x, i, 2) \in Nat /\ Reach(x, i, 4) \in Nat /\ Reach(x, i, 6) \in Nat
  <2>1. Reach(x, i, 0) \in 0 .. 255 /\ Reach(x, i, 2) \in 0 .. 255
    BY ReachType
  <2>2. Reach(x, i, 4) \in 0 .. 255 /\ Reach(x, i, 6) \in 0 .. 255
    BY ReachType
  <2> QED BY <2>1, <2>2
<1> QED BY <1>1 DEF Copies

\* What reaches the byte before through k bytes reaches this one through k + 1.
LEMMA ReachShifts ==
  ASSUME NEW x \in Word128, NEW i \in ByteIndex, NEW k \in Nat
  PROVE  Reach(x, i - 1, k) = Reach(x, i, k + 1)
<1>1. i \in Nat /\ (i - 1) - k = i - (k + 1) /\ (i - 1 < k <=> i < k + 1)
  BY DEF ByteIndex
<1> QED BY <1>1 DEF Reach

\* The constants that can be written with two bytes and no sign.
Constants == 0 .. 32767

\* The upper byte of a constant below 2^15.
LEMMA ConstantHalves ==
  ASSUME NEW c \in Constants
  PROVE  c \div 256 \in 0 .. 127
<1> DEFINE q == c \div 256
<1> DEFINE r == c % 256
<1>1. q \in Nat /\ r \in 0 .. 255 /\ c = 256 * q + r
  <2>1. c \in Nat /\ 256 \in Nat \ {0} /\ 256 - 1 = 255
    BY DEF Constants
  <2> QED BY <2>1, DivMod
<1> HIDE DEF q, r
<1>2. q \in 0 .. 127
  BY <1>1 DEF Constants
<1> QED BY <1>2 DEF q

\* The byte j of an expanded constant.
ConstantByte(c, j) == IF j < 8 THEN (IF j % 2 = 0 THEN c % 256 ELSE c \div 256) ELSE 0

\* The bytes of an expanded constant that is below 2^15.
LEMMA ConstantBytes ==
  ASSUME NEW c \in Constants, NEW j \in ByteIndex
  PROVE  SignExtended(p(c))[j] = ConstantByte(c, j)
<1>1. AsI64(c)[0] = c % 256 /\ AsI64(c)[1] = c \div 256
  <2>1. 256 ^ 0 = 1 /\ 256 ^ 1 = 256
    OBVIOUS
  <2>2. AsI64(c)[0] = (c \div 256 ^ 0) % 256 /\ AsI64(c)[1] = (c \div 256 ^ 1) % 256
    BY DEF AsI64
  <2> DEFINE q == c \div 256
  <2>3. q \in 0 .. 127
    BY ConstantHalves
  <2> HIDE DEF q
  <2>4. q % 256 = q
    BY <2>3
  <2>5. c \div 1 = c
    <3>1. c = 1 * (c \div 1) + (c % 1) /\ c % 1 \in 0 .. 1 - 1 /\ c \div 1 \in Nat
      BY DivMod DEF Constants
    <3> QED BY <3>1 DEF Constants
  <2> QED BY <2>1, <2>2, <2>4, <2>5 DEF q
<1> DEFINE a == AsI64(c)
<1> HIDE DEF a
<1>2. p(c) = [i \in 0 .. 7 |-> a[i % 2]]
  BY DEF p, a
<1>3. \A k \in 0 .. 7 : p(c)[k] = IF k % 2 = 0 THEN c % 256 ELSE c \div 256
  <2> SUFFICES ASSUME NEW k \in 0 .. 7
               PROVE  p(c)[k] = IF k % 2 = 0 THEN c % 256 ELSE c \div 256
    OBVIOUS
  <2>1. p(c)[k] = a[k % 2]
    BY <1>2
  <2>2. a[0] = c % 256 /\ a[1] = c \div 256
    BY <1>1 DEF a
  <2>3. k % 2 = 0 \/ k % 2 = 1
    OBVIOUS
  <2> QED BY <2>1, <2>2, <2>3
<1> DEFINE rc == p(c)
<1> HIDE DEF rc
<1>4. ~(rc[7] >= 128)
  <2>1. 7 \in 0 .. 7 /\ 7 % 2 = 1
    OBVIOUS
  <2>2. rc[7] = c \div 256
    BY <1>3, <2>1 DEF rc
  <2>3. c \div 256 \in 0 .. 127
    BY ConstantHalves
  <2> QED BY <2>2, <2>3
<1>5. SignExtended(rc) = [i \in ByteIndex |-> IF i < 8 THEN rc[i] ELSE 0]
  BY <1>4 DEF SignExtended
<1>6. SignExtended(rc)[j] =
        IF j < 8 THEN (IF j % 2 = 0 THEN c % 256 ELSE c \div 256) ELSE 0
  <2>1. SignExtended(rc)[j] = IF j < 8 THEN rc[j] ELSE 0
    BY <1>5
  <2>2. j < 8 => j \in 0 .. 7
    BY DEF ByteIndex
  <2> QED BY <1>3, <2>1, <2>2 DEF rc
<1> QED BY <1>6 DEF rc, ConstantByte

\* A sum of products by either byte of the constant.
LEMMA TwoFactors ==
  ASSUME NEW a \in Int, NEW b \in Int,
         NEW r0 \in Int, NEW r1 \in Int, NEW r2 \in Int, NEW r3 \in Int,
         NEW r4 \in Int, NEW r5 \in Int, NEW r6 \in Int, NEW r7 \in Int
  PROVE  r0 * a + r1 * b + r2 * a + r3 * b + r4 * a + r5 * b + r6 * a + r7 * b
           = a * (r0 + r2 + r4 + r6) + b * (r1 + r3 + r5 + r7)
  BY Z3

\* A column of the product with an expanded constant: four copies for either byte.
LEMMA ColumnOfProduct ==
  ASSUME NEW x \in Word128, NEW c \in Constants, NEW i \in ByteIndex
  PROVE  SumOf([j \in ByteIndex |-> IF i < j THEN 0 ELSE x[i - j] * SignExtended(p(c))[j]])
           = (c % 256) * Copies(x, i) + (c \div 256) * Copies(x, i - 1)
<1> DEFINE e == SignExtended(p(c))
<1>1. ASSUME NEW j \in ByteIndex
      PROVE  e[j] = IF j < 8 THEN (IF j % 2 = 0 THEN c % 256 ELSE c \div 256) ELSE 0
  <2>1. e[j] = ConstantByte(c, j)
    BY ConstantBytes
  <2> HIDE DEF e
  <2> QED BY <2>1 DEF ConstantByte
<1> HIDE DEF e
<1> DEFINE f == [j \in ByteIndex |-> IF i < j THEN 0 ELSE x[i - j] * e[j]]
<1>0. ByteIndex = 0 .. 15 /\ i \in -1 .. 15 /\ i \in 0 .. 15
  BY DEF ByteIndex
<1>2. PICK a \in Nat, b \in Nat : a = c % 256 /\ b = c \div 256
  <2>1. c % 256 \in Nat /\ c \div 256 \in Nat
    BY DEF Constants
  <2> QED BY <2>1
<1>3. ASSUME NEW j \in ByteIndex PROVE e[j] \in Nat /\ f[j] = Reach(x, i, j) * e[j]
  <2>1. e[j] \in Nat
    BY <1>1, <1>2
  <2>2. CASE i < j
    <3>1. f[j] = 0 /\ Reach(x, i, j) = 0
      BY <2>2 DEF Reach
    <3>2. 0 * e[j] = 0
      BY <2>1
    <3> QED BY <2>1, <3>1, <3>2
  <2>3. CASE ~(i < j)
    BY <2>1, <2>3 DEF Reach
  <2> QED BY <2>2, <2>3
<1> HIDE DEF f
<1>4. ASSUME NEW j \in ByteIndex PROVE Reach(x, i, j) \in Nat
  <2>1. j \in Nat
    BY <1>0
  <2>2. Reach(x, i, j) \in 0 .. 255
    BY <1>0, <2>1, ReachType
  <2> QED BY <2>2
<1>5. f \in [ByteIndex -> Nat]
  <2>1. f = [j \in ByteIndex |-> IF i < j THEN 0 ELSE x[i - j] * e[j]]
    BY DEF f
  <2>2. ASSUME NEW j \in ByteIndex PROVE f[j] \in Nat
    <3>1. PICK r \in Nat, v \in Nat : r = Reach(x, i, j) /\ v = e[j]
      BY <1>3, <1>4
    <3>2. f[j] = r * v
      BY <1>3, <3>1
    <3> QED BY <3>2
  <2> QED BY <2>1, <2>2
<1>6. PICK r0 \in Nat : r0 = Reach(x, i, 0)
  BY <1>0, <1>4
<1>7. PICK r1 \in Nat : r1 = Reach(x, i, 1)
  BY <1>0, <1>4
<1>8. PICK r2 \in Nat : r2 = Reach(x, i, 2)
  BY <1>0, <1>4
<1>9. PICK r3 \in Nat : r3 = Reach(x, i, 3)
  BY <1>0, <1>4
<1>10. PICK r4 \in Nat : r4 = Reach(x, i, 4)
  BY <1>0, <1>4
<1>11. PICK r5 \in Nat : r5 = Reach(x, i, 5)
  BY <1>0, <1>4
<1>12. PICK r6 \in Nat : r6 = Reach(x, i, 6)
  BY <1>0, <1>4
<1>13. PICK r7 \in Nat : r7 = Reach(x, i, 7)
  BY <1>0, <1>4
<1>14. /\ f[0] = r0 * a /\ f[1] = r1 * b /\ f[2] = r2 * a /\ f[3] = r3 * b
  <2>1. e[0] = a /\ e[1] = b /\ e[2] = a /\ e[3] = b
    BY <1>0, <1>1, <1>2
  <2>2. /\ f[0] = Reach(x, i, 0) * e[0] /\ f[1] = Reach(x, i, 1) * e[1]
        /\ f[2] = Reach(x, i, 2) * e[2] /\ f[3] = Reach(x, i, 3) * e[3]
    BY <1>0, <1>3
  <2> QED BY <1>6, <1>7, <1>8, <1>9, <2>1, <2>2
<1>15. /\ f[4] = r4 * a /\ f[5] = r5 * b /\ f[6] = r6 * a /\ f[7] = r7 * b
  <2>1. e[4] = a /\ e[5] = b /\ e[6] = a /\ e[7] = b
    BY <1>0, <1>1, <1>2
  <2>2. /\ f[4] = Reach(x, i, 4) * e[4] /\ f[5] = Reach(x, i, 5) * e[5]
        /\ f[6] = Reach(x, i, 6) * e[6] /\ f[7] = Reach(x, i, 7) * e[7]
    BY <1>0, <1>3
  <2> QED BY <1>10, <1>11, <1>12, <1>13, <2>1, <2>2
<1>16. ASSUME NEW j \in 8 .. 15 PROVE f[j] = 0
  <2>1. j \in ByteIndex
    BY <1>0
  <2>2. e[j] = 0
    BY <1>1, <2>1
  <2>3. PICK r \in Nat : r = Reach(x, i, j)
    BY <1>4, <2>1
  <2>4. f[j] = r * 0
    BY <1>3, <2>1, <2>2, <2>3
  <2> QED BY <2>3, <2>4
<1>17. SumOf(f) = r0 * a + r1 * b + r2 * a + r3 * b + r4 * a + r5 * b + r6 * a + r7 * b
  <2>1. /\ f[8] = 0 /\ f[9] = 0 /\ f[10] = 0 /\ f[11] = 0
        /\ f[12] = 0 /\ f[13] = 0 /\ f[14] = 0 /\ f[15] = 0
    BY <1>16
  <2>2. SumOf(f) = f[0] + f[1] + f[2] + f[3] + f[4] + f[5] + f[6] + f[7] + f[8] + f[9]
                     + f[10] + f[11] + f[12] + f[13] + f[14] + f[15]
    BY <1>5, SumUnrolled
  <2>3. /\ r0 * a \in Nat /\ r1 * b \in Nat /\ r2 * a \in Nat /\ r3 * b \in Nat
        /\ r4 * a \in Nat /\ r5 * b \in Nat /\ r6 * a \in Nat /\ r7 * b \in Nat
    OBVIOUS
  <2> QED BY <1>14, <1>15, <2>1, <2>2, <2>3
<1>18. /\ Copies(x, i) = r0 + r2 + r4 + r6
       /\ Copies(x, i - 1) = r1 + r3 + r5 + r7
  <2>1. /\ Reach(x, i - 1, 0) = Reach(x, i, 0 + 1) /\ Reach(x, i - 1, 2) = Reach(x, i, 2 + 1)
        /\ Reach(x, i - 1, 4) = Reach(x, i, 4 + 1) /\ Reach(x, i - 1, 6) = Reach(x, i, 6 + 1)
    BY ReachShifts
  <2>2. 0 + 1 = 1 /\ 2 + 1 = 3 /\ 4 + 1 = 5 /\ 6 + 1 = 7
    OBVIOUS
  <2> QED BY <1>6, <1>7, <1>8, <1>9, <1>10, <1>11, <1>12, <1>13, <2>1, <2>2 DEF Copies
<1>19. SumOf(f) = a * (r0 + r2 + r4 + r6) + b * (r1 + r3 + r5 + r7)
  BY <1>17, TwoFactors
<1>20. SumOf(f) = a * Copies(x, i) + b * Copies(x, i - 1)
  BY <1>18, <1>19
<1> QED BY <1>2, <1>20 DEF f, e

\* The carries of a sum are a word.
LEMMA CarriedType ==
  ASSUME NEW column \in [ByteIndex -> Nat]
  PROVE  Carried(column) \in Word128
<1>1. PICK t : Carries(column, t)
  BY CarriesExist
<1>2. t \in [ByteIndex -> Nat] /\ Carried(column) = [i \in ByteIndex |-> t[i] % 256]
  BY <1>1 DEF Carries
<1>3. ASSUME NEW i \in ByteIndex PROVE t[i] % 256 \in 0 .. 255
  <2>1. t[i] \in Nat
    BY <1>2
  <2> QED BY <2>1
<1> QED BY <1>2, <1>3 DEF Word128, Byte

\* Carrying a multiple of 256 over is adding it to the next column.
LEMMA CarryOver ==
  ASSUME NEW a \in Nat, NEW m \in Nat
  PROVE  (a + 256 * m) % 256 = a % 256 /\ (a + 256 * m) \div 256 = (a \div 256) + m
  OBVIOUS

\* One column, whole or with the upper half left to the next one.
LEMMA ColumnsAgree ==
  ASSUME NEW c0 \in Int, NEW c1 \in Int, NEW t \in Int, NEW u \in Int, NEW v \in Int
  PROVE  (256 * c1 + c0) * t + (v + c1 * u) = (c0 * t + c1 * u + v) + 256 * (c1 * t)
  BY Z3

\* The product with an expanded constant is the sum of four copies of the word,
\* each times the constant: where the constant has two bytes the product carries
\* the upper one's part into the next column by itself.
LEMMA ProductIsSum ==
  ASSUME NEW x \in Word128, NEW c \in Constants
  PROVE  WrappingMul(x, SignExtended(p(c))) = Carried([i \in ByteIndex |-> c * Copies(x, i)])
<1> DEFINE byByte == [i \in ByteIndex |->
             SumOf([j \in ByteIndex |-> IF i < j THEN 0 ELSE x[i - j] * SignExtended(p(c))[j]])]
<1> DEFINE whole == [i \in ByteIndex |-> c * Copies(x, i)]
<1> DEFINE T == [i \in -1 .. 15 |-> Copies(x, i)]
<1> DEFINE c0 == c % 256
<1> DEFINE c1 == c \div 256
<1>0. ByteIndex = 0 .. 15
  BY DEF ByteIndex
<1>1. WrappingMul(x, SignExtended(p(c))) = Carried(byByte)
  BY DEF WrappingMul
<1>2. c0 \in Nat /\ c1 \in Nat /\ c = 256 * c1 + c0 /\ c \in Nat
  BY DEF Constants
<1>3. T \in [-1 .. 15 -> Nat] /\ T[-1] = 0
  <2>1. T \in [-1 .. 15 -> Nat]
    BY CopiesType
  <2>2. Copies(x, -1) = 0
    BY DEF Copies, Reach
  <2> QED BY <2>1, <2>2
<1>4. \A i \in ByteIndex : byByte[i] = c0 * T[i] + c1 * T[i - 1]
  <2> SUFFICES ASSUME NEW i \in ByteIndex PROVE byByte[i] = c0 * T[i] + c1 * T[i - 1]
    OBVIOUS
  <2>1. T[i] = Copies(x, i) /\ T[i - 1] = Copies(x, i - 1)
    BY <1>0
  <2>2. byByte[i] = SumOf([j \in ByteIndex |-> IF i < j THEN 0 ELSE x[i - j] * SignExtended(p(c))[j]])
    OBVIOUS
  <2> QED BY <2>1, <2>2, ColumnOfProduct
<1>5. \A i \in ByteIndex : whole[i] = c * T[i]
  BY <1>0
<1>6. byByte = [i \in ByteIndex |-> byByte[i]] /\ whole = [i \in ByteIndex |-> whole[i]]
  OBVIOUS
<1> HIDE DEF byByte, whole, T, c0, c1
<1>7. byByte \in [ByteIndex -> Nat] /\ whole \in [ByteIndex -> Nat]
  <2>1. ASSUME NEW i \in ByteIndex PROVE byByte[i] \in Nat /\ whole[i] \in Nat
    <3>1. T[i] \in Nat /\ T[i - 1] \in Nat
      BY <1>0, <1>3
    <3>2. c0 * T[i] \in Nat /\ c1 * T[i - 1] \in Nat /\ c * T[i] \in Nat
      BY <1>2, <3>1
    <3> QED BY <1>4, <1>5, <3>2
  <2> QED BY <1>6, <2>1
<1>8. PICK a : Carries(byByte, a)
  BY <1>7, CarriesExist
<1>9. PICK b : Carries(whole, b)
  BY <1>7, CarriesExist
<1>10. /\ a \in [ByteIndex -> Nat] /\ a[0] = byByte[0]
       /\ \A i \in 1 .. 15 : a[i] = byByte[i] + (a[i - 1] \div 256)
       /\ b \in [ByteIndex -> Nat] /\ b[0] = whole[0]
       /\ \A i \in 1 .. 15 : b[i] = whole[i] + (b[i - 1] \div 256)
  BY <1>8, <1>9 DEF Carries
<1> DEFINE S == {k \in Nat : k \in ByteIndex => b[k] = a[k] + 256 * (c1 * T[k])}
<1>11. 0 \in S
  <2>1. PICK t \in Nat : t = T[0]
    BY <1>3
  <2>2. 0 \in ByteIndex /\ 0 - 1 = -1
    BY <1>0
  <2>3. a[0] = c0 * t + c1 * 0 /\ b[0] = c * t
    BY <1>3, <1>4, <1>5, <1>10, <2>1, <2>2
  <2>4. (256 * c1 + c0) * t + (0 + c1 * 0) = (c0 * t + c1 * 0 + 0) + 256 * (c1 * t)
    BY <1>2, ColumnsAgree
  <2>5. c1 * 0 = 0 /\ c0 * t \in Nat /\ (256 * c1 + c0) * t \in Nat /\ 256 * (c1 * t) \in Nat
    BY <1>2
  <2>6. b[0] = a[0] + 256 * (c1 * t)
    BY <1>2, <2>3, <2>4, <2>5
  <2> QED BY <2>1, <2>6
<1>12. ASSUME NEW k \in S PROVE k + 1 \in S
  <2>1. CASE k + 1 \in ByteIndex
    <3>1. k \in ByteIndex /\ k + 1 \in 1 .. 15 /\ (k + 1) - 1 = k
      BY <1>0, <2>1
    <3>2. PICK t \in Nat, u \in Nat : t = T[k + 1] /\ u = T[k]
      <4>1. T[k + 1] \in Nat /\ T[k] \in Nat
        BY <1>3, <3>1
      <4> QED BY <4>1
    <3>3. PICK v \in Nat : v = a[k]
      BY <1>10, <3>1
    <3>4. PICK m \in Nat : m = c1 * u
      BY <1>2
    <3>5. PICK d \in Nat : d = v \div 256
      <4>1. v \div 256 \in Nat
        OBVIOUS
      <4> QED BY <4>1
    <3>6. b[k] = v + 256 * m
      BY <3>1, <3>2, <3>3, <3>4
    <3>7. (v + 256 * m) \div 256 = d + m
      BY <3>5, CarryOver
    <3>8. a[k + 1] = (c0 * t + c1 * u) + d
      BY <1>4, <1>10, <2>1, <3>1, <3>2, <3>3, <3>5
    <3>9. b[k + 1] = c * t + (d + m)
      BY <1>5, <1>10, <2>1, <3>1, <3>2, <3>6, <3>7
    <3>10. (256 * c1 + c0) * t + (d + c1 * u) = (c0 * t + c1 * u + d) + 256 * (c1 * t)
      BY <1>2, ColumnsAgree
    <3>11. b[k + 1] = a[k + 1] + 256 * (c1 * t)
      BY <1>2, <3>4, <3>8, <3>9, <3>10
    <3> QED BY <3>2, <3>11
  <2> QED BY <2>1
<1>13. S \in SUBSET Nat
  OBVIOUS
<1> HIDE DEF S
<1>14. S = Nat
  BY <1>11, <1>12, <1>13, Induction
<1>15. ASSUME NEW i \in ByteIndex PROVE a[i] % 256 = b[i] % 256
  <2>1. i \in Nat
    BY <1>0
  <2>2. b[i] = a[i] + 256 * (c1 * T[i])
    BY <1>14, <2>1 DEF S
  <2>3. PICK v \in Nat, m \in Nat : v = a[i] /\ m = c1 * T[i]
    <3>1. T[i] \in Nat
      BY <1>0, <1>3
    <3>2. a[i] \in Nat /\ c1 * T[i] \in Nat
      BY <1>2, <1>10, <3>1
    <3> QED BY <3>2
  <2> QED BY <2>2, <2>3, CarryOver
<1>16. Carried(byByte) = [i \in ByteIndex |-> a[i] % 256] /\ Carried(whole) = [i \in ByteIndex |-> b[i] % 256]
  BY <1>8, <1>9 DEF Carries
<1>17. Carried(byByte) = Carried(whole)
  BY <1>15, <1>16
<1> QED BY <1>1, <1>17 DEF whole

\* The two rotations of g that are not of whole bytes, byte by byte.
LEMMA RotatedBySeven ==
  ASSUME NEW x \in Word128, NEW i \in ByteIndex
  PROVE  RotateLeft(x, 7)[i] = ((x[i] * 128) % 256) + (x[(i - 1) % 16] \div 2)
<1>1. 7 \div 8 = 0 /\ 7 % 8 = 7 /\ 8 - 7 = 1 /\ 2 ^ 7 = 128 /\ 2 ^ 1 = 2
  OBVIOUS
<1>2. RotateLeft(x, 7)[i] = ((x[(i - (7 \div 8)) % 16] * 2 ^ (7 % 8)) % 256)
                              + (x[(i - (7 \div 8) - 1) % 16] \div 2 ^ (8 - (7 % 8)))
  BY DEF RotateLeft
<1>3. (i - 0) % 16 = i /\ i - 0 - 1 = i - 1
  BY DEF ByteIndex
<1> QED BY <1>1, <1>2, <1>3

\* And the one by half a byte.
LEMMA RotatedByFour ==
  ASSUME NEW x \in Word128, NEW i \in ByteIndex
  PROVE  RotateLeft(x, 4)[i] = ((x[i] * 16) % 256) + (x[(i - 1) % 16] \div 16)
<1>1. 4 \div 8 = 0 /\ 4 % 8 = 4 /\ 8 - 4 = 4 /\ 2 ^ 4 = 16
  OBVIOUS
<1>2. RotateLeft(x, 4)[i] = ((x[(i - (4 \div 8)) % 16] * 2 ^ (4 % 8)) % 256)
                              + (x[(i - (4 \div 8) - 1) % 16] \div 2 ^ (8 - (4 % 8)))
  BY DEF RotateLeft
<1>3. (i - 0) % 16 = i /\ i - 0 - 1 = i - 1
  BY DEF ByteIndex
<1> QED BY <1>1, <1>2, <1>3

\* Half a byte to the right is fifteen and a half to the left.
LEMMA RotatedBack ==
  ASSUME NEW x \in Word128, NEW i \in ByteIndex
  PROVE  RotateRight(x, 4)[i] = ((x[(i + 1) % 16] * 16) % 256) + (x[i] \div 16)
<1>1. 128 - 4 = 124 /\ 124 \div 8 = 15 /\ 124 % 8 = 4 /\ 8 - 4 = 4 /\ 2 ^ 4 = 16
  OBVIOUS
<1>2. RotateLeft(x, 124)[i] = ((x[(i - (124 \div 8)) % 16] * 2 ^ (124 % 8)) % 256)
                                + (x[(i - (124 \div 8) - 1) % 16] \div 2 ^ (8 - (124 % 8)))
  BY DEF RotateLeft
<1>3. (i - 15) % 16 = (i + 1) % 16 /\ (i - 15 - 1) % 16 = i
  BY DEF ByteIndex
<1> QED BY <1>1, <1>2, <1>3 DEF RotateRight

\* Two parts of bytes make a byte.
LEMMA PartsOfBytes ==
  ASSUME NEW a \in 0 .. 255, NEW b \in 0 .. 255
  PROVE  /\ ((a * 128) % 256) + (b \div 2) \in 0 .. 255
         /\ (a * 16) % 256 = 16 * (a % 16) /\ b \div 16 \in 0 .. 15
         /\ ((a * 16) % 256) + (b \div 16) \in 0 .. 255
         /\ (16 * (a % 16) + (b \div 16)) % 16 = b \div 16
         /\ (16 * (a % 16) + (b \div 16)) \div 16 = a % 16
         /\ b = 16 * (b \div 16) + (b % 16)
  OBVIOUS

\* A word rotated by seven is a word.
LEMMA TurnedType ==
  ASSUME NEW x \in Word128
  PROVE  RotateLeft(x, 7) \in Word128
<1>1. ASSUME NEW i \in ByteIndex PROVE RotateLeft(x, 7)[i] \in 0 .. 255
  <2>1. (i - 1) % 16 \in ByteIndex
    BY DEF ByteIndex
  <2>2. x[i] \in 0 .. 255 /\ x[(i - 1) % 16] \in 0 .. 255
    BY <2>1 DEF Word128, Byte
  <2>3. ((x[i] * 128) % 256) + (x[(i - 1) % 16] \div 2) \in 0 .. 255
    BY <2>2, PartsOfBytes
  <2> QED BY <2>3, RotatedBySeven
<1>2. RotateLeft(x, 7) = [i \in ByteIndex |-> RotateLeft(x, 7)[i]]
  BY DEF RotateLeft
<1> QED BY <1>1, <1>2 DEF Word128, Byte

\* The S-box takes bytes to bytes.
LEMMA SboxType == Kernels!SBOX \in [0 .. 255 -> 0 .. 255]
<1>1. \A b \in 0 .. 255 : Kernels!SboxTable[b + 1] \in 0 .. 255
  BY DEF Kernels!SboxTable
<1> QED BY <1>1 DEF Kernels!SBOX, Kernels!Byte

\* The S-box between two rotations that cancel, on the byte that holds the last
\* half of one byte of the word and the first half of the next.
LEMMA BoxedBetween ==
  ASSUME NEW x \in Word128
  PROVE  LET y == RotateRight(x, 4)
             boxed == Kernels!SBOX[(x[14] \div 16) + 16 * (x[15] % 16)]
         IN  RotateLeft([y EXCEPT ![14] = Kernels!SBOX[@]], 4)
               = [x EXCEPT ![14] = (@ % 16) + 16 * (boxed % 16),
                           ![15] = 16 * (@ \div 16) + (boxed \div 16)]
<1> DEFINE y == RotateRight(x, 4)
<1> DEFINE boxed == Kernels!SBOX[(x[14] \div 16) + 16 * (x[15] % 16)]
<1> DEFINE z == [y EXCEPT ![14] = Kernels!SBOX[@]]
<1>0. ByteIndex = 0 .. 15
  BY DEF ByteIndex
<1>1. \A i \in ByteIndex : x[i] \in 0 .. 255
  BY DEF Word128, Byte
<1>2. ASSUME NEW i \in ByteIndex
      PROVE  y[i] = 16 * (x[(i + 1) % 16] % 16) + (x[i] \div 16) /\ y[i] \in 0 .. 255
  <2>1. (i + 1) % 16 \in ByteIndex
    BY <1>0
  <2>2. PICK a \in 0 .. 255, b \in 0 .. 255 : a = x[(i + 1) % 16] /\ b = x[i]
    BY <1>1, <2>1
  <2>3. y[i] = ((a * 16) % 256) + (b \div 16)
    BY <2>2, RotatedBack
  <2>4. (a * 16) % 256 = 16 * (a % 16) /\ ((a * 16) % 256) + (b \div 16) \in 0 .. 255
    BY PartsOfBytes
  <2>5. y[i] = 16 * (a % 16) + (b \div 16) /\ y[i] \in 0 .. 255
    BY <2>3, <2>4
  <2> HIDE DEF y
  <2> QED BY <2>2, <2>5
<1>3. y = [i \in ByteIndex |-> y[i]]
  BY DEF RotateRight, RotateLeft
<1>4. boxed \in 0 .. 255 /\ Kernels!SBOX[y[14]] = boxed
  <2>1. PICK a \in 0 .. 255, b \in 0 .. 255 : a = x[15] /\ b = x[14]
    <3>1. x[15] \in 0 .. 255 /\ x[14] \in 0 .. 255
      BY <1>0, <1>1
    <3> QED BY <3>1
  <2>2. 14 \in ByteIndex /\ (14 + 1) % 16 = 15
    BY <1>0
  <2>3. y[14] = 16 * (a % 16) + (b \div 16) /\ y[14] \in 0 .. 255
    BY <1>2, <2>1, <2>2
  <2>4. (b \div 16) + 16 * (a % 16) = y[14]
    BY <2>3
  <2>5. (x[14] \div 16) + 16 * (x[15] % 16) = y[14]
    BY <2>1, <2>4
  <2> QED BY <2>3, <2>5, SboxType
<1> HIDE DEF y, boxed
<1>5. y \in Word128
  BY <1>2, <1>3 DEF Word128, Byte
<1>6. z = [i \in ByteIndex |-> IF i = 14 THEN boxed ELSE y[i]] /\ z \in Word128
  <2>1. z = [i \in ByteIndex |-> IF i = 14 THEN boxed ELSE y[i]]
    BY <1>3, <1>4
  <2> QED BY <1>2, <1>4, <2>1 DEF Word128, Byte
<1>7. /\ \A i \in ByteIndex : i # 14 => z[i] = 16 * (x[(i + 1) % 16] % 16) + (x[i] \div 16)
      /\ z[14] = boxed
  BY <1>0, <1>2, <1>6
<1> HIDE DEF z
<1> DEFINE r == RotateLeft(z, 4)
<1> DEFINE e == [x EXCEPT ![14] = (@ % 16) + 16 * (boxed % 16), ![15] = 16 * (@ \div 16) + (boxed \div 16)]
<1>8. r = [i \in ByteIndex |-> r[i]] /\ e = [i \in ByteIndex |-> e[i]]
  <2>1. r = [i \in ByteIndex |-> r[i]]
    BY DEF RotateLeft
  <2> QED BY <2>1 DEF Word128, Byte
<1>9. /\ \A i \in ByteIndex : i \notin {14, 15} => e[i] = x[i]
      /\ e[14] = (x[14] % 16) + 16 * (boxed % 16) /\ e[15] = 16 * (x[15] \div 16) + (boxed \div 16)
  BY <1>0 DEF Word128, Byte
<1> HIDE DEF e
<1>10. ASSUME NEW i \in ByteIndex PROVE r[i] = 16 * (z[i] % 16) + (z[(i - 1) % 16] \div 16)
  <2>1. (i - 1) % 16 \in ByteIndex
    BY <1>0
  <2>2. PICK a \in 0 .. 255, b \in 0 .. 255 : a = z[i] /\ b = z[(i - 1) % 16]
    BY <1>6, <2>1 DEF Word128, Byte
  <2>3. r[i] = ((a * 16) % 256) + (b \div 16)
    BY <1>6, <2>2, RotatedByFour
  <2> QED BY <2>2, <2>3, PartsOfBytes
<1> HIDE DEF r
<1>11. ASSUME NEW i \in ByteIndex PROVE r[i] = e[i]
  <2> DEFINE j == (i - 1) % 16
  <2> DEFINE l == (i + 1) % 16
  <2>1. j \in ByteIndex /\ (j + 1) % 16 = i /\ (j = 14 <=> i = 15) /\ l \in ByteIndex
    BY <1>0
  <2>2. r[i] = 16 * (z[i] % 16) + (z[j] \div 16)
    BY <1>10
  <2> HIDE DEF j, l
  <2>3. PICK a \in 0 .. 255 : a = x[i]
    BY <1>1
  <2>4. PICK b \in 0 .. 255 : b = x[j]
    BY <1>1, <2>1
  <2>5. PICK d \in 0 .. 255 : d = x[l]
    BY <1>1, <2>1
  <2>6. a = 16 * (a \div 16) + (a % 16)
    BY PartsOfBytes
  <2>7. i # 14 => z[i] % 16 = a \div 16
    <3>1. i # 14 => z[i] = 16 * (d % 16) + (a \div 16)
      BY <1>7, <2>3, <2>5 DEF l
    <3>2. (16 * (d % 16) + (a \div 16)) % 16 = a \div 16
      <4> DEFINE u == d % 16
      <4> DEFINE v == a \div 16
      <4>1. u \in Nat /\ v \in 0 .. 15
        OBVIOUS
      <4> HIDE DEF u, v
      <4>2. (16 * u + v) % 16 = v
        BY <4>1
      <4> QED BY <4>2 DEF u, v
    <3> QED BY <3>1, <3>2
  <2>8. j # 14 => z[j] \div 16 = a % 16
    <3>1. j # 14 => z[j] = 16 * (a % 16) + (b \div 16)
      BY <1>7, <2>1, <2>3, <2>4
    <3>2. (16 * (a % 16) + (b \div 16)) \div 16 = a % 16
      BY PartsOfBytes
    <3> QED BY <3>1, <3>2
  <2>9. CASE i = 14
    <3>1. r[i] = 16 * (boxed % 16) + (a % 16)
      BY <1>7, <2>1, <2>2, <2>8, <2>9
    <3>2. e[i] = (a % 16) + 16 * (boxed % 16)
      BY <1>9, <2>3, <2>9
    <3>3. a % 16 \in Nat /\ boxed % 16 \in Nat
      BY <1>4
    <3> QED BY <3>1, <3>2, <3>3
  <2>10. CASE i = 15
    <3>1. r[i] = 16 * (a \div 16) + (boxed \div 16)
      BY <1>7, <2>1, <2>2, <2>7, <2>10
    <3> QED BY <1>9, <2>3, <2>10, <3>1
  <2>11. CASE i \notin {14, 15}
    <3>1. r[i] = 16 * (a \div 16) + (a % 16)
      BY <2>1, <2>2, <2>7, <2>8, <2>11
    <3> QED BY <1>9, <2>3, <2>6, <2>11, <3>1
  <2> QED BY <2>9, <2>10, <2>11
<1>12. r = e
  BY <1>8, <1>11
<1> QED BY <1>12 DEF r, e, z, y, boxed

\* The table of constants holds the Fibonacci numbers, all of them positive in
\* the two bytes they are written with.
LEMMA ConstantsAreFibonacci ==
  ASSUME NEW x \in 0 .. 15
  PROVE  Fibonacci[x] = Rcs(x) /\ Rcs(x) \in Constants
<1> DEFINE Body(f) == [k \in 0 .. 15 |-> IF k < 2 THEN 1 ELSE f[k - 2] + f[k - 1]]
<1> DEFINE table == [k \in 0 .. 15 |-> Rcs(k)]
<1>1. /\ Rcs(0) = 1 /\ Rcs(1) = 1 /\ Rcs(2) = 2 /\ Rcs(3) = 3 /\ Rcs(4) = 5 /\ Rcs(5) = 8
      /\ Rcs(6) = 13 /\ Rcs(7) = 21 /\ Rcs(8) = 34 /\ Rcs(9) = 55 /\ Rcs(10) = 89 /\ Rcs(11) = 144
      /\ Rcs(12) = 233 /\ Rcs(13) = 377 /\ Rcs(14) = 610 /\ Rcs(15) = 987
  BY DEF Rcs, RCS
<1>2. ASSUME NEW k \in 0 .. 15 PROVE Rcs(k) = IF k < 2 THEN 1 ELSE Rcs(k - 2) + Rcs(k - 1)
  <2>1. \/ k = 0 \/ k = 1 \/ k = 2 \/ k = 3 \/ k = 4 \/ k = 5 \/ k = 6 \/ k = 7
        \/ k = 8 \/ k = 9 \/ k = 10 \/ k = 11 \/ k = 12 \/ k = 13 \/ k = 14 \/ k = 15
    OBVIOUS
  <2> QED BY <1>1, <2>1
<1>3. table = Body(table)
  <2>1. ASSUME NEW k \in 0 .. 15
        PROVE  table[k] = IF k < 2 THEN 1 ELSE table[k - 2] + table[k - 1]
    <3>1. ~(k < 2) => k - 2 \in 0 .. 15 /\ k - 1 \in 0 .. 15
      OBVIOUS
    <3> QED BY <1>2, <3>1
  <2>2. table = [k \in 0 .. 15 |-> table[k]]
    OBVIOUS
  <2> HIDE DEF table
  <2> QED BY <2>1, <2>2
<1> DEFINE fib == CHOOSE f : f = Body(f)
<1>4. Fibonacci = fib
  BY DEF Fibonacci
<1> HIDE DEF table
<1>5. fib = Body(fib)
  BY <1>3
<1> HIDE DEF fib
<1>6. fib[0] = 1 /\ fib[1] = 1
  <2>1. Body(fib)[0] = 1 /\ Body(fib)[1] = 1
    OBVIOUS
  <2> QED BY <1>5, <2>1
<1>7. ASSUME NEW k \in 2 .. 15 PROVE fib[k] = fib[k - 2] + fib[k - 1]
  <2>1. Body(fib)[k] = fib[k - 2] + fib[k - 1]
    OBVIOUS
  <2> QED BY <1>5, <2>1
<1>8. fib[2] = 2 /\ fib[3] = 3 /\ fib[4] = 5 /\ fib[5] = 8
  <2>1. /\ fib[2] = fib[0] + fib[1] /\ fib[3] = fib[1] + fib[2]
        /\ fib[4] = fib[2] + fib[3] /\ fib[5] = fib[3] + fib[4]
    BY <1>7
  <2> QED BY <1>6, <2>1
<1>9. fib[6] = 13 /\ fib[7] = 21 /\ fib[8] = 34 /\ fib[9] = 55
  <2>1. /\ fib[6] = fib[4] + fib[5] /\ fib[7] = fib[5] + fib[6]
        /\ fib[8] = fib[6] + fib[7] /\ fib[9] = fib[7] + fib[8]
    BY <1>7
  <2> QED BY <1>8, <2>1
<1>10. fib[10] = 89 /\ fib[11] = 144 /\ fib[12] = 233 /\ fib[13] = 377
  <2>1. /\ fib[10] = fib[8] + fib[9] /\ fib[11] = fib[9] + fib[10]
        /\ fib[12] = fib[10] + fib[11] /\ fib[13] = fib[11] + fib[12]
    BY <1>7
  <2> QED BY <1>9, <2>1
<1>11. fib[14] = 610 /\ fib[15] = 987
  <2>1. fib[14] = fib[12] + fib[13] /\ fib[15] = fib[13] + fib[14]
    BY <1>7
  <2> QED BY <1>10, <2>1
<1>12. /\ \/ x = 0 \/ x = 1 \/ x = 2 \/ x = 3 \/ x = 4 \/ x = 5 \/ x = 6 \/ x = 7
          \/ x = 8 \/ x = 9 \/ x = 10 \/ x = 11 \/ x = 12 \/ x = 13 \/ x = 14 \/ x = 15
  OBVIOUS
<1>13. fib[x] = Rcs(x)
  BY <1>1, <1>6, <1>8, <1>9, <1>10, <1>11, <1>12
<1>14. Rcs(x) \in Constants
  BY <1>1, <1>12 DEF Constants
<1> QED BY <1>4, <1>13, <1>14

\* gen_sub_keys' g, under the constant it is given for the key x, is the closed
\* form: the sign extension is of a positive number, the carries are those of the
\* sum, and the two rotations by half a byte cancel but for the byte between.
LEMMA GIsFollowing ==
  ASSUME NEW word \in Word128, NEW x \in 0 .. 15
  PROVE  /\ g(word, p(Rcs(x))) = Following(word, x)
         /\ Following(word, x) \in Word128
         /\ Rcs(x) = Fibonacci[x]
<1> DEFINE c == Rcs(x)
<1>1. c \in Constants /\ Fibonacci[x] = c
  BY ConstantsAreFibonacci
<1> HIDE DEF c
<1> DEFINE turned == RotateLeft(word, 7)
<1>2. turned \in Word128
  BY TurnedType
<1> DEFINE sum == Carried([i \in ByteIndex |-> c * Copies(turned, i)])
<1> DEFINE boxed == Kernels!SBOX[(sum[14] \div 16) + 16 * (sum[15] % 16)]
<1> DEFINE after == [sum EXCEPT ![14] = (@ % 16) + 16 * (boxed % 16), ![15] = 16 * (@ \div 16) + (boxed \div 16)]
<1>3. WrappingMul(turned, SignExtended(p(c))) = sum
  BY <1>1, <1>2, ProductIsSum
<1>4. sum \in Word128
  <2>1. ASSUME NEW i \in ByteIndex PROVE c * Copies(turned, i) \in Nat
    <3>1. i \in -1 .. 15 /\ c \in Nat
      BY <1>1 DEF ByteIndex, Constants
    <3>2. Copies(turned, i) \in Nat
      BY <1>2, <3>1, CopiesType
    <3> QED BY <3>1, <3>2
  <2> QED BY <2>1, CarriedType
<1>5. Following(word, x) = after
  <2> DEFINE copy(i, k) == IF i < k THEN 0 ELSE turned[i - k]
  <2>1. [i \in ByteIndex |-> Fibonacci[x] * (copy(i, 0) + copy(i, 2) + copy(i, 4) + copy(i, 6))]
          = [i \in ByteIndex |-> c * Copies(turned, i)]
    <3> HIDE DEF turned
    <3> QED BY <1>1 DEF Copies, Reach
  <2> QED BY <2>1 DEF Following
<1>6. g(word, p(c)) = RotateLeft([RotateRight(sum, 4) EXCEPT ![14] = Kernels!SBOX[@]], 4)
  BY <1>3 DEF g
<1> HIDE DEF sum
<1>7. RotateLeft([RotateRight(sum, 4) EXCEPT ![14] = Kernels!SBOX[@]], 4) = after
  BY <1>4, BoxedBetween
<1>8. after \in Word128
  <2>1. PICK a \in 0 .. 255, b \in 0 .. 255 : a = sum[14] /\ b = sum[15]
    <3>1. sum[14] \in 0 .. 255 /\ sum[15] \in 0 .. 255
      BY <1>4 DEF Word128, Byte, ByteIndex
    <3> QED BY <3>1
  <2>2. boxed \in 0 .. 255
    <3>1. (a \div 16) + 16 * (b % 16) \in 0 .. 255
      OBVIOUS
    <3> QED BY <2>1, <3>1, SboxType
  <2> HIDE DEF boxed
  <2>3. (a % 16) + 16 * (boxed % 16) \in 0 .. 255 /\ 16 * (b \div 16) + (boxed \div 16) \in 0 .. 255
    BY <2>2
  <2>4. ASSUME NEW i \in ByteIndex PROVE after[i] \in 0 .. 255
    <3>1. CASE i = 14
      BY <1>4, <2>1, <2>3, <3>1 DEF Word128, Byte
    <3>2. CASE i = 15
      BY <1>4, <2>1, <2>3, <3>2 DEF Word128, Byte
    <3>3. CASE i # 14 /\ i # 15
      BY <1>4, <3>3 DEF Word128, Byte
    <3> QED BY <3>1, <3>2, <3>3
  <2>5. after = [i \in ByteIndex |-> after[i]]
    BY <1>4 DEF Word128, Byte
  <2> HIDE DEF after
  <2> QED BY <2>4, <2>5 DEF Word128, Byte
<1> HIDE DEF after
<1> QED BY <1>1, <1>5, <1>6, <1>7, <1>8 DEF c

-----------------------------------------------------------------------------
\* The fields of State.

\* The constants as they are kept in the round keys.
RcBytes == {AsI64(Rcs(0))} \cup {p(Rcs(x)) : x \in 1 .. 15}
KeyRecords == [id : Nat, sub_key : Word128, rc : RcBytes]

\* Either nothing is derived, or the derivation is on its way.
Derivation ==
  \/ pc = "none" /\ given = <<>>
  \/ IInv

\* Every key but the first is made from the one before it.
Chained ==
  /\ sub_keys \in Seq(KeyRecords) /\ Len(sub_keys) <= 16
  /\ \A k \in 2 .. Len(sub_keys) :
       sub_keys[k] = Roundkey(k - 1, Following(sub_keys[k - 1].sub_key, k - 1), p(Fibonacci[k - 1]))

\* Once there is a word the derivation is over, and until the first round its
\* result is the word followed by the first key.
Roles ==
  /\ w = <<>> <=> sub_keys = <<>>
  /\ w # <<>> =>
       /\ w \in Word128
       /\ pc = "none" \/ Derived
       /\ given # <<>> /\ rounds = 0 /\ stage \in {"setup", "new"} =>
            BigEndian(w) \o BigEndian(sub_keys[1].sub_key) = h

\* A word is not the empty sequence.
LEMMA WordNotEmpty ==
  ASSUME NEW x \in Word128
  PROVE  x # <<>>
<1>1. 0 \in DOMAIN x
  BY DEF Word128, ByteIndex
<1>2. ~(0 \in DOMAIN <<>>)
  OBVIOUS
<1> QED BY <1>1, <1>2

\* The two halves of a hash value are words, and spell it.
LEMMA HalvesOfHash ==
  ASSUME NEW v \in Hash
  PROVE  /\ FromBigEndian(SubSeq(v, 1, 16)) \in Word128
         /\ FromBigEndian(SubSeq(v, 17, 32)) \in Word128
         /\ BigEndian(FromBigEndian(SubSeq(v, 1, 16))) \o BigEndian(FromBigEndian(SubSeq(v, 17, 32))) = v
<1> DEFINE upper == SubSeq(v, 1, 16)
<1> DEFINE lower == SubSeq(v, 17, 32)
<1>0. ByteIndex = 0 .. 15 /\ \A b \in 1 .. 32 : v[b] \in Byte
  BY DEF ByteIndex, Hash
<1>1. upper = [b \in 1 .. 16 |-> v[b]]
  OBVIOUS
<1>2. lower = [b \in 1 .. 16 |-> v[16 + b]]
  OBVIOUS
<1> HIDE DEF upper, lower
<1> DEFINE x == FromBigEndian(upper)
<1> DEFINE y == FromBigEndian(lower)
<1>3. x = [i \in ByteIndex |-> v[16 - i]] /\ y = [i \in ByteIndex |-> v[32 - i]]
  <2>1. ASSUME NEW i \in ByteIndex PROVE upper[16 - i] = v[16 - i] /\ lower[16 - i] = v[32 - i]
    <3>1. 16 - i \in 1 .. 16 /\ 16 + (16 - i) = 32 - i
      BY <1>0
    <3> QED BY <1>1, <1>2, <3>1
  <2> QED BY <2>1 DEF FromBigEndian
<1>4. x \in Word128 /\ y \in Word128
  <2>1. ASSUME NEW i \in ByteIndex PROVE v[16 - i] \in Byte /\ v[32 - i] \in Byte
    <3>1. 16 - i \in 1 .. 32 /\ 32 - i \in 1 .. 32
      BY <1>0
    <3> QED BY <1>0, <3>1
  <2> QED BY <1>3, <2>1 DEF Word128
<1> HIDE DEF x, y
<1> DEFINE a == BigEndian(x)
<1> DEFINE b == BigEndian(y)
<1>5. a = [k \in 1 .. 16 |-> v[k]] /\ b = [k \in 1 .. 16 |-> v[16 + k]]
  <2>1. ASSUME NEW k \in 1 .. 16 PROVE x[16 - k] = v[k] /\ y[16 - k] = v[16 + k]
    <3>1. 16 - k \in ByteIndex /\ 16 - (16 - k) = k /\ 32 - (16 - k) = 16 + k
      BY <1>0
    <3> QED BY <1>3, <3>1
  <2> QED BY <2>1 DEF BigEndian
<1>6. a \in [1 .. 16 -> Byte] /\ b \in [1 .. 16 -> Byte]
  <2>1. ASSUME NEW k \in 1 .. 16 PROVE v[k] \in Byte /\ v[16 + k] \in Byte
    <3>1. k \in 1 .. 32 /\ 16 + k \in 1 .. 32
      OBVIOUS
    <3> QED BY <1>0, <3>1
  <2> QED BY <1>5, <2>1
<1> HIDE DEF a, b
<1>7. a \in Seq(Byte) /\ Len(a) = 16 /\ b \in Seq(Byte) /\ Len(b) = 16
  BY <1>6, IndexedIsSeq
<1> DEFINE z == a \o b
<1>8. z \in Seq(Byte)
  BY <1>7, ConcatProperties
<1>9. Len(z) = 32
  <2>1. Len(z) = Len(a) + Len(b)
    BY <1>7, ConcatProperties
  <2> HIDE DEF z
  <2> QED BY <1>7, <2>1
<1>10. \A k \in 1 .. 32 : z[k] = v[k]
  <2>1. \A k \in 1 .. Len(a) + Len(b) : z[k] = IF k <= Len(a) THEN a[k] ELSE b[k - Len(a)]
    BY <1>7, ConcatProperties
  <2> HIDE DEF z
  <2>2. ASSUME NEW k \in 1 .. 32 PROVE z[k] = v[k]
    <3>1. z[k] = IF k <= 16 THEN a[k] ELSE b[k - 16]
      <4>1. Len(a) + Len(b) = 32 /\ Len(a) = 16
        BY <1>7
      <4>2. k \in 1 .. Len(a) + Len(b)
        BY <4>1
      <4> QED BY <2>1, <4>1, <4>2
    <3>2. CASE k <= 16
      BY <1>5, <3>1, <3>2
    <3>3. CASE ~(k <= 16)
      <4>1. k - 16 \in 1 .. 16 /\ 16 + (k - 16) = k
        BY <3>3
      <4> QED BY <1>5, <3>1, <3>3, <4>1
    <3> QED BY <3>2, <3>3
  <2> QED BY <2>2
<1> HIDE DEF z
<1>11. z = v
  <2>1. v \in Seq(Byte) /\ Len(v) = 32
    BY HashIsSeq
  <2> QED BY <1>8, <1>9, <1>10, <2>1, SeqEqual
<1> QED BY <1>4, <1>11 DEF x, y, z, a, b, upper, lower

\* A seed begins a chain, in the first state or after a step.
LEMMA ChainBegins ==
  ASSUME NEW ke \in Word128
  PROVE  /\ sub_keys = FirstKey(ke) => Chained
         /\ sub_keys' = FirstKey(ke) => Chained'
         /\ FirstKey(ke)[1].sub_key = ke /\ FirstKey(ke) # <<>>
<1> DEFINE r == Roundkey(0, ke, AsI64(Rcs(0)))
<1>1. r \in KeyRecords /\ r.sub_key = ke
  BY DEF Roundkey, KeyRecords, RcBytes
<1>2. FirstKey(ke) = <<r>>
  BY DEF FirstKey
<1> HIDE DEF r
<1>3. <<r>> \in Seq(KeyRecords) /\ Len(<<r>>) = 1 /\ <<r>>[1] = r /\ <<r>> # <<>>
  BY <1>1
<1>4. \A k \in 2 .. Len(<<r>>) : FALSE
  BY <1>3
<1>5. sub_keys = FirstKey(ke) => Chained
  BY <1>2, <1>3, <1>4 DEF Chained
<1>6. sub_keys' = FirstKey(ke) => Chained'
  BY <1>2, <1>3, <1>4 DEF Chained
<1> QED BY <1>1, <1>2, <1>3, <1>5, <1>6

\* A turn of gen_sub_keys makes the chain longer by the key that belongs there.
LEMMA ChainGrows ==
  ASSUME Chained, NextKey
  PROVE  /\ Chained'
         /\ Len(sub_keys') = Len(sub_keys) + 1
         /\ \A k \in 1 .. Len(sub_keys) : sub_keys'[k] = sub_keys[k]
<1>1. PICK x \in 1 .. 15 : x = Len(sub_keys)
  BY DEF NextKey
<1> DEFINE r == Roundkey(x, g(sub_keys[x].sub_key, p(Rcs(x))), p(Rcs(x)))
<1>2. sub_keys' = Append(sub_keys, r)
  BY <1>1 DEF NextKey
<1>3. sub_keys \in Seq(KeyRecords)
  BY DEF Chained
<1>4. sub_keys[x] \in KeyRecords
  <2>1. x \in 1 .. Len(sub_keys)
    BY <1>1
  <2> QED BY <1>3, <2>1, ElementOfSeq
<1> DEFINE word == sub_keys[x].sub_key
<1>5. word \in Word128
  BY <1>4 DEF KeyRecords
<1> HIDE DEF word
<1>6. /\ g(word, p(Rcs(x))) = Following(word, x)
      /\ Following(word, x) \in Word128
      /\ Rcs(x) = Fibonacci[x]
  BY <1>5, GIsFollowing
<1>7. r = Roundkey(x, Following(word, x), p(Fibonacci[x])) /\ r = Roundkey(x, Following(word, x), p(Rcs(x)))
  BY <1>6 DEF word
<1> HIDE DEF r
<1>8. r \in KeyRecords
  BY <1>6, <1>7 DEF Roundkey, KeyRecords, RcBytes
<1>9. /\ sub_keys' \in Seq(KeyRecords)
      /\ Len(sub_keys') = x + 1
      /\ \A k \in 1 .. x : sub_keys'[k] = sub_keys[k]
      /\ sub_keys'[x + 1] = r
  BY <1>1, <1>2, <1>3, <1>8, AppendProperties
<1>10. ASSUME NEW k \in 2 .. x + 1
       PROVE  sub_keys'[k] = Roundkey(k - 1, Following(sub_keys'[k - 1].sub_key, k - 1), p(Fibonacci[k - 1]))
  <2>1. k - 1 \in 1 .. x /\ sub_keys'[k - 1] = sub_keys[k - 1]
    BY <1>1, <1>9
  <2>2. CASE k = x + 1
    <3>1. k - 1 = x
      BY <1>1, <2>2
    <3> QED BY <1>7, <1>9, <2>1, <2>2, <3>1 DEF word
  <2>3. CASE k # x + 1
    <3>1. k \in 1 .. x /\ k \in 2 .. x
      BY <1>1, <2>3
    <3>2. sub_keys[k] = Roundkey(k - 1, Following(sub_keys[k - 1].sub_key, k - 1), p(Fibonacci[k - 1]))
      BY <1>1, <3>1 DEF Chained
    <3> QED BY <1>9, <2>1, <3>1, <3>2
  <2> QED BY <2>2, <2>3
<1>11. Chained'
  <2>1. Len(sub_keys') <= 16 /\ 2 .. Len(sub_keys') = 2 .. x + 1
    <3>1. x + 1 <= 16
      OBVIOUS
    <3>2. Len(sub_keys') = x + 1
      BY <1>9
    <3> QED BY <3>1, <3>2
  <2>2. \A k \in 2 .. Len(sub_keys') :
          sub_keys'[k] = Roundkey(k - 1, Following(sub_keys'[k - 1].sub_key, k - 1), p(Fibonacci[k - 1]))
    BY <1>10, <2>1
  <2> QED BY <1>9, <2>1, <2>2 DEF Chained
<1> QED BY <1>1, <1>9, <1>11

-----------------------------------------------------------------------------
\* The layers of a round at the code's size.

\* A word rotated by a whole round is a word.
LEMMA RotatedType ==
  ASSUME NEW x \in Word128
  PROVE  Rotated(x) \in Word128
<1>1. 128 - 7 = 121 /\ 121 \div 8 = 15 /\ 121 % 8 = 1 /\ 8 - 1 = 7 /\ 2 ^ 1 = 2 /\ 2 ^ 7 = 128
  OBVIOUS
<1> DEFINE r == RotateLeft(x, 121)
<1>2. ASSUME NEW i \in ByteIndex
      PROVE  r[i] = ((x[(i - 15) % 16] * 2) % 256) + (x[(i - 15 - 1) % 16] \div 128)
  <2>1. r[i] = ((x[(i - (121 \div 8)) % 16] * 2 ^ (121 % 8)) % 256)
                 + (x[(i - (121 \div 8) - 1) % 16] \div 2 ^ (8 - (121 % 8)))
    BY DEF RotateLeft
  <2> HIDE DEF r
  <2> QED BY <1>1, <2>1
<1>3. r = [i \in ByteIndex |-> r[i]]
  BY DEF RotateLeft
<1>4. Rotated(x) = r
  BY <1>1 DEF Rotated, RotateRight
<1> HIDE DEF r
<1>5. ASSUME NEW i \in ByteIndex PROVE r[i] \in 0 .. 255
  <2>1. (i - 15) % 16 \in ByteIndex /\ (i - 15 - 1) % 16 \in ByteIndex
    BY DEF ByteIndex
  <2>2. x[(i - 15) % 16] \in 0 .. 255 /\ x[(i - 15 - 1) % 16] \in 0 .. 255
    BY <2>1 DEF Word128, Byte
  <2>3. PICK a \in 0 .. 255, b \in 0 .. 255 : a = x[(i - 15) % 16] /\ b = x[(i - 15 - 1) % 16]
    BY <2>2
  <2>4. ((a * 2) % 256) + (b \div 128) \in 0 .. 255
    OBVIOUS
  <2> QED BY <1>2, <2>3, <2>4
<1> QED BY <1>3, <1>4, <1>5 DEF Word128, Byte

\* So are its substitution and its combination with a round key.
LEMMA SubstitutedType ==
  ASSUME NEW x \in Word128
  PROVE  Substituted(x) \in Word128
<1>1. ASSUME NEW i \in ByteIndex PROVE Kernels!SBOX[x[i]] \in 0 .. 255
  <2>1. x[i] \in 0 .. 255
    BY DEF Word128, Byte
  <2> QED BY <2>1, SboxType
<1> QED BY <1>1 DEF Substituted, Word128, Byte

\* And its combination with a round key.
LEMMA MixedType ==
  ASSUME NEW x \in Word128, NEW y \in Word128
  PROVE  Mixed128(x, y) \in Word128
<1>1. ASSUME NEW i \in ByteIndex PROVE XorBytes[<<x[i], y[i]>>] \in Byte
  <2>1. x[i] \in Byte /\ y[i] \in Byte
    BY DEF Word128
  <2> QED BY <2>1, InputAssumption
<1> QED BY <1>1 DEF Mixed128, Word128

\* A round takes words to a word.
LEMMA RoundType ==
  ASSUME NEW x \in Word128, NEW k \in Word128
  PROVE  Stream!Round(x, k) \in Word128
<1> DEFINE r == Rotated(x)
<1> DEFINE s == Substituted(r)
<1>1. r \in Word128
  BY RotatedType
<1>2. s \in Word128
  BY <1>1, SubstitutedType
<1>3. [v \in Word128 |-> Rotated(v)][x] = r
  OBVIOUS
<1>4. [v \in Word128 |-> Substituted(v)][r] = s
  BY <1>1
<1>5. [pair \in Word128 \X Word128 |-> Mixed128(pair[1], pair[2])][<<s, k>>] = Mixed128(s, k)
  BY <1>2
<1>6. Stream!Round(x, k) = Mixed128(s, k)
  <2> HIDE DEF r, s
  <2> QED BY <1>3, <1>4, <1>5 DEF Stream!Round
<1> HIDE DEF s
<1> QED BY <1>2, <1>6, MixedType

\* The byte tapped from a word is a byte.
LEMMA TapType ==
  ASSUME NEW x \in Word128
  PROVE  Stream!Tap(x) \in Byte
<1>1. [v \in Word128 |-> v][x] = x
  OBVIOUS
<1>2. 0 \in ByteIndex
  BY DEF ByteIndex
<1>3. PICK b \in 0 .. 255 : b = x[0]
  BY <1>2 DEF Word128, Byte
<1>4. [v \in Byte |-> v % 16][b] = b % 16 /\ b % 16 \in ByteIndex
  BY DEF Byte, ByteIndex
<1>5. Stream!Tap(x) = x[b % 16]
  BY <1>1, <1>3, <1>4 DEF Stream!Tap
<1> QED BY <1>4, <1>5 DEF Word128

\* The wrap point is a multiple of the number of round keys.
LEMMA WrapFacts == M \in Nat \ {0} /\ \E k \in Nat \ {0} : M = 16 * k
<1>1. M \in Nat \ {0} /\ M % 16 = 0
  BY CounterAssumption
<1> DEFINE q == M \div 16
<1>2. q \in Nat /\ M = 16 * q + (M % 16)
  BY <1>1
<1> HIDE DEF q
<1>3. q \in Nat \ {0} /\ M = 16 * q
  BY <1>1, <1>2
<1> QED BY <1>1, <1>3

\* Counters in their ranges.
LEMMA PositionType ==
  ASSUME NEW r \in Nat
  PROVE  (r % 16) \in 0 .. 15 /\ (r % M) \in 0 .. M - 1
<1>1. (r % M) \in 0 .. M - 1
  BY WrapFacts, DivMod
<1>2. (r % 16) \in 0 .. 15
  OBVIOUS
<1> QED BY <1>1, <1>2

\* A wrapped counter advanced by b is the unbounded one advanced by b.
LEMMA WrapStep ==
  ASSUME NEW r \in Nat, NEW b \in Nat
  PROVE  ((r % M) + b) % M = (r + b) % M
  BY WrapFacts, ModAdd

\* The round key under the wrapped counter is the one under the count of rounds.
LEMMA WrapKeepsPosition ==
  ASSUME NEW r \in Nat
  PROVE  (r % M) % 16 = r % 16
<1>1. 16 \in Nat \ {0}
  OBVIOUS
<1> QED BY <1>1, WrapFacts, ModOfMultiple

\* A position that returns to 0 after the last key is the count of rounds.
LEMMA PositionStep ==
  ASSUME NEW r \in Nat
  PROVE  (r + 1) % 16 = IF (r % 16) + 1 = 16 THEN 0 ELSE (r % 16) + 1
<1>1. 16 \in Nat \ {0}
  OBVIOUS
<1> QED BY <1>1, ModSucc

-----------------------------------------------------------------------------
\* The instance at work.

\* The schedule is the keys', and all of them are words.
Keyed ==
  /\ schedule = KeyWords(sub_keys)
  /\ schedule \in [0 .. 15 -> Word128]

\* What is true of an instance between any two of its steps.  The local word of
\* the loop is one only while the loop runs.
InstanceInv ==
  /\ stage \in {"new", "idle", "byte", "fill"}
  /\ w \in Word128 /\ round_index \in 0 .. M - 1
  /\ rounds \in Nat /\ turn \in Nat
  /\ out \in Seq(Byte) /\ emitted \in Seq(Byte)
  /\ stage = "fill" => state \in Word128
  /\ stage = "new" => turn < 62
  /\ stage = "byte" => turn = 1 /\ out = <<>>
  /\ Stream!TwoRoundsPerByte
  /\ Stream!CountersAgree

\* The two properties of Keystream in the names of this module.
LEMMA PairedRounds ==
  Stream!TwoRoundsPerByte <=>
    IF stage = "new"
      THEN rounds = turn /\ emitted = <<>> /\ out = <<>>
      ELSE /\ rounds = 62 + 2 * (Len(emitted) + Len(out)) + turn
           /\ turn \in {0, 1}
           /\ stage = "idle" => turn = 0 /\ out = <<>>
  BY DEF Stream!TwoRoundsPerByte, WARMUP_ROUNDS

\* Where each of the two counters stands.
LEMMA AgreeingCounters ==
  Stream!CountersAgree <=>
    /\ stage # "fill" => round_index = rounds % M
    /\ stage = "fill" => /\ index = (rounds - turn) % M
                         /\ pos = rounds % 16
  BY DEF Stream!CountersAgree

\* And after a step.
LEMMA PairedRoundsNext ==
  (Stream!TwoRoundsPerByte)' <=>
    IF stage' = "new"
      THEN rounds' = turn' /\ emitted' = <<>> /\ out' = <<>>
      ELSE /\ rounds' = 62 + 2 * (Len(emitted') + Len(out')) + turn'
           /\ turn' \in {0, 1}
           /\ stage' = "idle" => turn' = 0 /\ out' = <<>>
  BY DEF Stream!TwoRoundsPerByte, WARMUP_ROUNDS

\* And after a step.
LEMMA AgreeingCountersNext ==
  (Stream!CountersAgree)' <=>
    /\ stage' # "fill" => round_index' = rounds' % M
    /\ stage' = "fill" => /\ index' = (rounds' - turn') % M
                          /\ pos' = rounds' % 16
  BY DEF Stream!CountersAgree

\* A round on the fields: round(), with the key under the counter.
LEMMA FieldRound ==
  ASSUME Keyed, InstanceInv, stage # "fill", Stream!round
  PROVE  /\ w' = Stream!Round(w, schedule[rounds % 16]) /\ w' \in Word128
         /\ rounds' = rounds + 1
         /\ round_index' = rounds' % M /\ round_index' \in 0 .. M - 1
<1>1. /\ w' = Stream!Round(w, KeyWords(sub_keys)[round_index % 16])
      /\ round_index' = (round_index + 1) % M /\ rounds' = rounds + 1
  BY DEF Stream!round, Stream!next_rk
<1>2. round_index = rounds % M /\ rounds \in Nat /\ w \in Word128
  BY AgreeingCounters DEF InstanceInv
<1>3. round_index % 16 = rounds % 16
  BY <1>2, WrapKeepsPosition
<1>4. round_index' = (rounds + 1) % M
  BY <1>1, <1>2, WrapStep
<1>5. (rounds + 1) % M \in 0 .. M - 1
  <2>1. rounds + 1 \in Nat
    BY <1>2
  <2> QED BY <2>1, PositionType
<1>6. schedule[rounds % 16] \in Word128
  BY <1>2, PositionType DEF Keyed
<1> QED BY <1>1, <1>2, <1>3, <1>4, <1>5, <1>6, RoundType DEF Keyed

\* A round of the loop: the key at the position, which goes round by itself.
LEMMA LocalRound ==
  ASSUME Keyed, InstanceInv, stage = "fill", Stream!LoopRound
  PROVE  /\ state' = Stream!Round(state, schedule[rounds % 16]) /\ state' \in Word128
         /\ rounds' = rounds + 1
         /\ pos' = rounds' % 16
<1>1. /\ state' = Stream!Round(state, schedule[pos])
      /\ pos' = IF pos + 1 = 16 THEN 0 ELSE pos + 1
      /\ rounds' = rounds + 1
  BY DEF Stream!LoopRound
<1>2. pos = rounds % 16 /\ rounds \in Nat /\ state \in Word128
  BY AgreeingCounters DEF InstanceInv
<1>3. (rounds + 1) % 16 = IF (rounds % 16) + 1 = 16 THEN 0 ELSE (rounds % 16) + 1
  BY <1>2, PositionStep
<1>4. schedule[rounds % 16] \in Word128
  BY <1>2, PositionType DEF Keyed
<1> QED BY <1>1, <1>2, <1>3, <1>4, RoundType

\* What a step of the instance leaves true, and what it is to the reference: a
\* round of it, or nothing.  No step goes back to the time before the rounds.
StepOK ==
  /\ InstanceInv'
  /\ stage' = "new" => rounds' # 0
  /\ [Stream!Reference!Step]_(Stream!Reference!vars)

\* The running word and the bytes so far, as the reference names them.
RefWord == IF stage = "fill" THEN state ELSE w
RefStream == emitted \o out

\* Which rounds end a byte.
LEMMA ByteEnds ==
  ASSUME NEW k \in Nat
  PROVE  /\ \A r \in 0 .. 62 : ~Stream!Reference!EndsByte(r)
         /\ ~Stream!Reference!EndsByte(62 + 2 * k + 1)
         /\ Stream!Reference!EndsByte(62 + 2 * k + 2)
<1>1. ASSUME NEW r \in Int
      PROVE  Stream!Reference!EndsByte(r) <=> r > 62 /\ (r - 62) % 2 = 0
  BY DEF Stream!Reference!EndsByte, WARMUP_ROUNDS
<1>2. (2 * k + 1) % 2 = 1 /\ (2 * k + 2) % 2 = 0
  OBVIOUS
<1>3. 62 + 2 * k + 1 - 62 = 2 * k + 1 /\ 62 + 2 * k + 2 - 62 = 2 * k + 2
  OBVIOUS
<1>4. 62 + 2 * k + 1 \in Int /\ 62 + 2 * k + 2 \in Int /\ 62 + 2 * k + 2 > 62
  OBVIOUS
<1>5. ~Stream!Reference!EndsByte(62 + 2 * k + 1)
  BY <1>1, <1>2, <1>3, <1>4
<1>6. Stream!Reference!EndsByte(62 + 2 * k + 2)
  BY <1>1, <1>2, <1>3, <1>4
<1>7. \A r \in 0 .. 62 : ~Stream!Reference!EndsByte(r)
  BY <1>1
<1> QED BY <1>5, <1>6, <1>7

\* A round that ends no byte.
LEMMA QuietRound ==
  ASSUME RefWord' = Stream!Round(RefWord, schedule[rounds % 16]), rounds' = rounds + 1,
         Keyed, UNCHANGED sub_keys, RefStream' = RefStream,
         ~Stream!Reference!EndsByte(rounds + 1)
  PROVE  Stream!Reference!Step
<1>1. KeyWords(sub_keys)' = KeyWords(sub_keys)
  BY DEF KeyWords
<1>2. [schedule |-> KeyWords(sub_keys)].schedule = schedule
  BY DEF Keyed
<1> QED BY <1>1, <1>2
        DEF Stream!Reference!Step, Stream!Reference!Round, Stream!Round, RefWord, RefStream

\* A round that ends a byte.
LEMMA ByteRound ==
  ASSUME RefWord' = Stream!Round(RefWord, schedule[rounds % 16]), rounds' = rounds + 1,
         Keyed, UNCHANGED sub_keys, RefStream' = Append(RefStream, Stream!Tap(RefWord')),
         Stream!Reference!EndsByte(rounds + 1)
  PROVE  Stream!Reference!Step
<1>1. KeyWords(sub_keys)' = KeyWords(sub_keys)
  BY DEF KeyWords
<1>2. [schedule |-> KeyWords(sub_keys)].schedule = schedule
  BY DEF Keyed
<1> QED BY <1>1, <1>2
        DEF Stream!Reference!Step, Stream!Reference!Round, Stream!Round,
            Stream!Reference!Tap, Stream!Tap, RefWord, RefStream

\* A step that changes neither word nor bytes.
LEMMA NoRound ==
  ASSUME RefWord' = RefWord, rounds' = rounds, RefStream' = RefStream, UNCHANGED sub_keys
  PROVE  UNCHANGED Stream!Reference!vars
  BY DEF Stream!Reference!vars, KeyWords, RefWord, RefStream

\* What the step lemmas start from.
Working == Keyed /\ InstanceInv /\ UNCHANGED <<sub_keys, schedule>>

\* The types of an instance, one by one.
LEMMA InstanceTypes ==
  ASSUME InstanceInv
  PROVE  /\ w \in Word128 /\ round_index \in 0 .. M - 1 /\ rounds \in Nat /\ turn \in Nat
         /\ out \in Seq(Byte) /\ emitted \in Seq(Byte)
         /\ Len(out) \in Nat /\ Len(emitted) \in Nat
         /\ emitted \o <<>> = emitted
<1>1. out \in Seq(Byte) /\ emitted \in Seq(Byte)
  BY DEF InstanceInv
<1>2. Len(out) \in Nat /\ Len(emitted) \in Nat
  BY <1>1, LenProperties
<1>3. emitted \o <<>> = emitted
  BY <1>1, ConcatEmptySeq
<1> QED BY <1>1, <1>2, <1>3 DEF InstanceInv

\* A round of the warm-up adds no byte, the last one included.
LEMMA WarmUpOK ==
  ASSUME Working, Stream!WarmUp
  PROVE  StepOK
<1>1. /\ stage = "new" /\ Stream!round
      /\ turn' = IF turn + 1 = 62 THEN 0 ELSE turn + 1
      /\ stage' = IF turn + 1 = 62 THEN "idle" ELSE "new"
      /\ out' = out /\ emitted' = emitted
  BY DEF Stream!WarmUp, WARMUP_ROUNDS, Stream!locals, Stream!expanded
<1>2. rounds = turn /\ emitted = <<>> /\ out = <<>> /\ turn < 62 /\ turn \in Nat
  BY <1>1, PairedRounds DEF Working, InstanceInv
<1>3. /\ w' = Stream!Round(w, schedule[rounds % 16]) /\ w' \in Word128
      /\ rounds' = rounds + 1
      /\ round_index' = rounds' % M /\ round_index' \in 0 .. M - 1
  BY <1>1, FieldRound DEF Working
<1>4. Len(emitted') = 0 /\ Len(out') = 0 /\ emitted' = <<>> /\ out' = <<>>
  BY <1>1, <1>2
<1>5. (Stream!TwoRoundsPerByte)'
  <2>1. CASE turn + 1 = 62
    BY <1>1, <1>2, <1>3, <1>4, <2>1, PairedRoundsNext
  <2>2. CASE turn + 1 # 62
    BY <1>1, <1>2, <1>3, <1>4, <2>2, PairedRoundsNext
  <2> QED BY <2>1, <2>2
<1>6. (Stream!CountersAgree)'
  BY <1>1, <1>3, AgreeingCountersNext
<1>7. InstanceInv'
  BY <1>1, <1>2, <1>3, <1>5, <1>6 DEF Working, InstanceInv
<1>8. ~Stream!Reference!EndsByte(rounds + 1)
  <2>1. rounds + 1 \in 0 .. 62
    BY <1>2
  <2> QED BY <2>1, ByteEnds
<1>9. Stream!Reference!Step
  <2>1. RefWord' = w' /\ RefWord = w /\ RefStream' = RefStream
    BY <1>1 DEF RefWord, RefStream
  <2> QED BY <1>3, <1>8, <2>1, QuietRound DEF Working
<1> QED BY <1>2, <1>3, <1>7, <1>9 DEF StepOK

\* next_byte's first round adds no byte.
LEMMA NextByteFirstOK ==
  ASSUME Working, Stream!NextByteFirst
  PROVE  StepOK
<1>1. /\ stage = "idle" /\ Stream!round /\ stage' = "byte" /\ turn' = 1
      /\ out' = out /\ emitted' = emitted
  BY DEF Stream!NextByteFirst, Stream!locals, Stream!expanded
<1>2. /\ rounds = 62 + 2 * (Len(emitted) + Len(out)) + turn /\ turn = 0 /\ out = <<>>
      /\ Len(emitted) \in Nat /\ Len(out) \in Nat
  BY <1>1, PairedRounds, InstanceTypes DEF Working, InstanceInv
<1>3. /\ w' = Stream!Round(w, schedule[rounds % 16]) /\ w' \in Word128
      /\ rounds' = rounds + 1
      /\ round_index' = rounds' % M /\ round_index' \in 0 .. M - 1
  BY <1>1, FieldRound DEF Working
<1>4. (Stream!TwoRoundsPerByte)'
  BY <1>1, <1>2, <1>3, PairedRoundsNext
<1>5. (Stream!CountersAgree)'
  BY <1>1, <1>3, AgreeingCountersNext
<1>6. InstanceInv'
  BY <1>1, <1>2, <1>3, <1>4, <1>5 DEF Working, InstanceInv
<1>7. ~Stream!Reference!EndsByte(rounds + 1)
  <2>1. PICK k \in Nat : k = Len(emitted) + Len(out)
    BY <1>2
  <2>2. rounds + 1 = 62 + 2 * k + 1
    BY <1>2, <2>1
  <2> QED BY <2>2, ByteEnds
<1>8. Stream!Reference!Step
  <2>1. RefWord' = w' /\ RefWord = w /\ RefStream' = RefStream
    BY <1>1 DEF RefWord, RefStream
  <2> QED BY <1>3, <1>7, <2>1, QuietRound DEF Working
<1> QED BY <1>1, <1>6, <1>8 DEF StepOK

\* Its second round adds the byte the reference does.
LEMMA NextByteSecondOK ==
  ASSUME Working, Stream!NextByteSecond
  PROVE  StepOK
<1>1. /\ stage = "byte" /\ Stream!round /\ stage' = "idle" /\ turn' = 0
      /\ out' = out /\ emitted' = Append(emitted, Stream!Tap(w'))
  BY DEF Stream!NextByteSecond, Stream!locals, Stream!expanded
<1>2. /\ rounds = 62 + 2 * (Len(emitted) + Len(out)) + turn /\ turn = 1 /\ out = <<>>
      /\ Len(emitted) \in Nat /\ emitted \in Seq(Byte)
  BY <1>1, PairedRounds, InstanceTypes DEF Working, InstanceInv
<1>3. /\ w' = Stream!Round(w, schedule[rounds % 16]) /\ w' \in Word128
      /\ rounds' = rounds + 1
      /\ round_index' = rounds' % M /\ round_index' \in 0 .. M - 1
  BY <1>1, FieldRound DEF Working
<1>4. Stream!Tap(w') \in Byte
  BY <1>3, TapType
<1>5. emitted' \in Seq(Byte) /\ Len(emitted') = Len(emitted) + 1
  BY <1>1, <1>2, <1>4, AppendProperties
<1>6. Len(out) = 0 /\ Len(out') = 0 /\ out' = <<>>
  BY <1>1, <1>2
<1>7. (Stream!TwoRoundsPerByte)'
  BY <1>1, <1>2, <1>3, <1>5, <1>6, PairedRoundsNext
<1>8. (Stream!CountersAgree)'
  BY <1>1, <1>3, AgreeingCountersNext
<1>9. InstanceInv'
  BY <1>1, <1>2, <1>3, <1>5, <1>7, <1>8 DEF Working, InstanceInv
<1>10. Stream!Reference!EndsByte(rounds + 1)
  <2>1. PICK k \in Nat : k = Len(emitted)
    BY <1>2
  <2>2. rounds + 1 = 62 + 2 * k + 2
    BY <1>2, <1>6, <2>1
  <2> QED BY <2>2, ByteEnds
<1>11. Stream!Reference!Step
  <2>1. RefWord' = w' /\ RefWord = w
    BY <1>1 DEF RefWord
  <2>2. RefStream = emitted /\ RefStream' = emitted'
    <3>1. emitted \o <<>> = emitted /\ emitted' \o <<>> = emitted'
      BY <1>2, <1>5, ConcatEmptySeq
    <3> QED BY <1>2, <1>6, <3>1 DEF RefStream
  <2>3. RefStream' = Append(RefStream, Stream!Tap(RefWord'))
    BY <1>1, <2>1, <2>2
  <2> QED BY <1>3, <1>10, <2>1, <2>3, ByteRound DEF Working
<1> QED BY <1>1, <1>9, <1>11 DEF StepOK

\* Copying the fields out for the loop is no round.
LEMMA BeginFillOK ==
  ASSUME Working, NEW n \in 0 .. MaxBytes, Stream!BeginFill(n)
  PROVE  StepOK
<1>1. /\ stage = "idle" /\ stage' = "fill"
      /\ state' = w /\ index' = round_index /\ pos' = round_index % 16 /\ out' = <<>>
      /\ w' = w /\ round_index' = round_index /\ turn' = turn /\ rounds' = rounds
      /\ emitted' = emitted
  BY DEF Stream!BeginFill, Stream!fields, Stream!expanded
<1>2. /\ rounds = 62 + 2 * (Len(emitted) + Len(out)) + turn /\ turn = 0 /\ out = <<>>
      /\ rounds \in Nat /\ round_index = rounds % M
  BY <1>1, PairedRounds, AgreeingCounters DEF Working, InstanceInv
<1>3. (Stream!TwoRoundsPerByte)'
  BY <1>1, <1>2, PairedRoundsNext
<1>4. (Stream!CountersAgree)'
  <2>1. (rounds % M) % 16 = rounds % 16
    BY <1>2, WrapKeepsPosition
  <2>2. rounds - 0 = rounds
    BY <1>2
  <2> QED BY <1>1, <1>2, <2>1, <2>2, AgreeingCountersNext
<1>5. InstanceInv'
  BY <1>1, <1>2, <1>3, <1>4 DEF Working, InstanceInv
<1>6. UNCHANGED Stream!Reference!vars
  <2>1. RefWord' = RefWord /\ RefStream' = RefStream
    BY <1>1, <1>2 DEF RefWord, RefStream
  <2> QED BY <1>1, <2>1, NoRound DEF Working
<1> QED BY <1>1, <1>5, <1>6 DEF StepOK

\* The first round of a slot adds no byte.
LEMMA FillFirstOK ==
  ASSUME Working, Stream!FillFirst
  PROVE  StepOK
<1>1. /\ stage = "fill" /\ turn = 0 /\ Stream!LoopRound /\ turn' = 1
      /\ stage' = stage /\ w' = w /\ round_index' = round_index /\ index' = index
      /\ out' = out /\ emitted' = emitted
  BY DEF Stream!FillFirst, Stream!fields, Stream!expanded
<1>2. /\ rounds = 62 + 2 * (Len(emitted) + Len(out)) + turn /\ index = (rounds - turn) % M
      /\ rounds \in Nat /\ Len(emitted) \in Nat /\ Len(out) \in Nat
  BY <1>1, PairedRounds, AgreeingCounters, InstanceTypes DEF Working, InstanceInv
<1>3. /\ state' = Stream!Round(state, schedule[rounds % 16]) /\ state' \in Word128
      /\ rounds' = rounds + 1 /\ pos' = rounds' % 16
  BY <1>1, LocalRound DEF Working
<1>4. (Stream!TwoRoundsPerByte)'
  BY <1>1, <1>2, <1>3, PairedRoundsNext
<1>5. (Stream!CountersAgree)'
  <2>1. rounds' - turn' = rounds - turn
    BY <1>1, <1>2, <1>3
  <2> QED BY <1>1, <1>2, <1>3, <2>1, AgreeingCountersNext
<1>6. InstanceInv'
  BY <1>1, <1>2, <1>3, <1>4, <1>5 DEF Working, InstanceInv
<1>7. ~Stream!Reference!EndsByte(rounds + 1)
  <2>1. PICK k \in Nat : k = Len(emitted) + Len(out)
    BY <1>2
  <2>2. rounds + 1 = 62 + 2 * k + 1
    BY <1>1, <1>2, <2>1
  <2> QED BY <2>2, ByteEnds
<1>8. Stream!Reference!Step
  <2>1. RefWord' = state' /\ RefWord = state /\ RefStream' = RefStream
    BY <1>1 DEF RefWord, RefStream
  <2> QED BY <1>3, <1>7, <2>1, QuietRound DEF Working
<1> QED BY <1>1, <1>6, <1>8 DEF StepOK

\* Appending to the buffer appends to the stream it continues.
LEMMA StreamAppend ==
  ASSUME NEW s \in Seq(Byte), NEW t \in Seq(Byte), NEW b \in Byte
  PROVE  s \o Append(t, b) = Append(s \o t, b)
<1>1. <<b>> \in Seq(Byte)
  OBVIOUS
<1>2. Append(t, b) = t \o <<b>>
  BY AppendIsConcat
<1>3. s \o t \in Seq(Byte)
  BY ConcatProperties
<1>4. Append(s \o t, b) = (s \o t) \o <<b>>
  BY <1>3, AppendIsConcat
<1> QED BY <1>1, <1>2, <1>4, ConcatAssociative

\* The second round of a slot adds the reference's byte.
LEMMA FillSecondOK ==
  ASSUME Working, Stream!FillSecond
  PROVE  StepOK
<1>1. /\ stage = "fill" /\ turn = 1 /\ Stream!LoopRound /\ turn' = 0
      /\ index' = (index + 2) % M /\ out' = Append(out, Stream!Tap(state'))
      /\ stage' = stage /\ w' = w /\ round_index' = round_index /\ emitted' = emitted
  BY DEF Stream!FillSecond, Stream!fields, Stream!expanded
<1>2. /\ rounds = 62 + 2 * (Len(emitted) + Len(out)) + turn /\ index = (rounds - turn) % M
      /\ rounds \in Nat /\ Len(emitted) \in Nat /\ Len(out) \in Nat
      /\ emitted \in Seq(Byte) /\ out \in Seq(Byte)
  BY <1>1, PairedRounds, AgreeingCounters, InstanceTypes DEF Working, InstanceInv
<1>3. /\ state' = Stream!Round(state, schedule[rounds % 16]) /\ state' \in Word128
      /\ rounds' = rounds + 1 /\ pos' = rounds' % 16
  BY <1>1, LocalRound DEF Working
<1>4. Stream!Tap(state') \in Byte
  BY <1>3, TapType
<1>5. out' \in Seq(Byte) /\ Len(out') = Len(out) + 1
  BY <1>1, <1>2, <1>4, AppendProperties
<1>6. (Stream!TwoRoundsPerByte)'
  BY <1>1, <1>2, <1>3, <1>5, PairedRoundsNext
<1>7. (Stream!CountersAgree)'
  <2>1. PICK r \in Nat : r = rounds - 1
    <3>1. rounds - 1 \in Nat
      BY <1>1, <1>2
    <3> QED BY <3>1
  <2>2. index' = ((r % M) + 2) % M
    BY <1>1, <1>2, <2>1
  <2>3. index' = (r + 2) % M
    BY <2>1, <2>2, WrapStep
  <2>4. r + 2 = rounds' - turn'
    BY <1>1, <1>2, <1>3, <2>1
  <2> QED BY <1>1, <1>3, <2>3, <2>4, AgreeingCountersNext
<1>8. InstanceInv'
  BY <1>1, <1>2, <1>3, <1>5, <1>6, <1>7 DEF Working, InstanceInv
<1>9. Stream!Reference!EndsByte(rounds + 1)
  <2>1. PICK k \in Nat : k = Len(emitted) + Len(out)
    BY <1>2
  <2>2. rounds + 1 = 62 + 2 * k + 2
    BY <1>1, <1>2, <2>1
  <2> QED BY <2>2, ByteEnds
<1>10. Stream!Reference!Step
  <2>1. RefWord' = state' /\ RefWord = state
    BY <1>1 DEF RefWord
  <2>2. RefStream' = Append(RefStream, Stream!Tap(RefWord'))
    BY <1>1, <1>2, <1>4, <2>1, StreamAppend DEF RefStream
  <2> QED BY <1>3, <1>9, <2>1, <2>2, ByteRound DEF Working
<1> QED BY <1>1, <1>8, <1>10 DEF StepOK

\* Writing the fields back is no round, and moves no byte.
LEMMA EndFillOK ==
  ASSUME Working, Stream!EndFill
  PROVE  StepOK
<1>1. /\ stage = "fill" /\ turn = 0 /\ stage' = "idle"
      /\ w' = state /\ round_index' = index /\ emitted' = emitted \o out /\ out' = <<>>
      /\ turn' = turn /\ rounds' = rounds
  BY DEF Stream!EndFill, Stream!locals, Stream!expanded
<1>2. /\ rounds = 62 + 2 * (Len(emitted) + Len(out)) + turn /\ index = (rounds - turn) % M
      /\ rounds \in Nat /\ Len(emitted) \in Nat /\ Len(out) \in Nat
      /\ emitted \in Seq(Byte) /\ out \in Seq(Byte) /\ state \in Word128
  BY <1>1, PairedRounds, AgreeingCounters, InstanceTypes DEF Working, InstanceInv
<1>3. emitted' \in Seq(Byte) /\ Len(emitted') = Len(emitted) + Len(out) /\ Len(out') = 0
  <2>1. emitted \o out \in Seq(Byte)
    BY <1>2, ConcatProperties
  <2>2. Len(emitted \o out) = Len(emitted) + Len(out)
    BY <1>2, ConcatProperties
  <2> QED BY <1>1, <2>1, <2>2
<1>4. (Stream!TwoRoundsPerByte)'
  BY <1>1, <1>2, <1>3, PairedRoundsNext
<1>5. round_index' = rounds' % M /\ round_index' \in 0 .. M - 1
  <2>1. rounds - turn = rounds
    BY <1>1, <1>2
  <2> QED BY <1>1, <1>2, <2>1, PositionType
<1>6. (Stream!CountersAgree)'
  BY <1>1, <1>5, AgreeingCountersNext
<1>7. InstanceInv'
  BY <1>1, <1>2, <1>3, <1>4, <1>5, <1>6 DEF Working, InstanceInv
<1>8. UNCHANGED Stream!Reference!vars
  <2>1. RefStream' = RefStream
    <3>1. emitted' \o <<>> = emitted'
      BY <1>3, ConcatEmptySeq
    <3> QED BY <1>1, <3>1 DEF RefStream
  <2>2. RefWord' = RefWord
    BY <1>1 DEF RefWord
  <2> QED BY <1>1, <2>1, <2>2, NoRound DEF Working
<1> QED BY <1>1, <1>7, <1>8 DEF StepOK

\* Every step of an instance.
LEMMA UseOK ==
  ASSUME Working, Stream!Next
  PROVE  StepOK
<1>1. CASE Stream!WarmUp
  BY <1>1, WarmUpOK
<1>2. CASE Stream!NextByteFirst
  BY <1>2, NextByteFirstOK
<1>3. CASE Stream!NextByteSecond
  BY <1>3, NextByteSecondOK
<1>4. CASE \E n \in 0 .. MaxBytes : Stream!BeginFill(n)
  BY <1>4, BeginFillOK
<1>5. CASE Stream!FillFirst
  BY <1>5, FillFirstOK
<1>6. CASE Stream!FillSecond
  BY <1>6, FillSecondOK
<1>7. CASE Stream!EndFill
  BY <1>7, EndFillOK
<1> QED BY <1>1, <1>2, <1>3, <1>4, <1>5, <1>6, <1>7 DEF Stream!Next

-----------------------------------------------------------------------------
\* The whole: one invariant from the passphrase to the last byte.

\* Before the struct is made nothing of it has moved, and afterwards its keys are
\* complete.
Made ==
  IF stage = "setup"
    THEN /\ schedule = <<>> /\ round_index = 0 /\ turn = 0
         /\ out = <<>> /\ rounds = 0 /\ emitted = <<>>
    ELSE Len(sub_keys) = 16 /\ Keyed /\ InstanceInv

Inv256 == Derivation /\ Chained /\ Roles /\ Made

\* No key, and nothing to be said of a chain.
LEMMA NoChain ==
  ASSUME sub_keys = <<>>
  PROVE  Chained
<1>1. <<>> \in Seq(KeyRecords) /\ Len(<<>>) = 0
  OBVIOUS
<1>2. \A k \in 2 .. Len(<<>>) : FALSE
  BY <1>1
<1> QED BY <1>1, <1>2 DEF Chained

\* Both ways in.
LEMMA Initially256 ==
  ASSUME CompressReturnsHash, Init256
  PROVE  Inv256
<1>1. Made
  BY DEF Init256, SetupInit, Made
<1>2. CASE Init /\ w = <<>> /\ sub_keys = <<>>
  <2>1. Derivation
    BY <1>2, Initially DEF Derivation
  <2> QED BY <1>1, <1>2, <2>1, NoChain DEF Inv256, Roles
<1>3. CASE \E pair \in Seeds : CalledWith(pair[1], pair[2])
  <2>1. PICK pair \in Seeds : CalledWith(pair[1], pair[2])
    BY <1>3
  <2>2. pair \in Word128 \X Word128
    BY SeedAssumption DEF Word128
  <2>3. pair[1] \in Word128 /\ pair[2] \in Word128
    BY <2>2
  <2>4. pc = "none" /\ given = <<>> /\ w = pair[1] /\ sub_keys = FirstKey(pair[2])
    BY <2>1 DEF CalledWith
  <2>5. Chained /\ sub_keys # <<>>
    BY <2>3, <2>4, ChainBegins
  <2>6. w # <<>>
    BY <2>3, <2>4, WordNotEmpty
  <2>7. Roles
    BY <2>3, <2>4, <2>5, <2>6 DEF Roles
  <2> QED BY <1>1, <2>4, <2>5, <2>7 DEF Inv256, Derivation
<1> QED BY <1>2, <1>3 DEF Init256, SetupInit

\* A derivation that is over takes no step.
LEMMA NothingAfterDerivation ==
  ASSUME pc \in {"none", "done"}
  PROVE  ~Next
  BY DEF Next, ChooseKey, PushZero, AppendLength, CompressBlock, ReturnKey, ReturnInner, ReturnOuter

\* A state with a word is past the derivation.
LEMMA WordIsLate ==
  ASSUME Roles, w # <<>>
  PROVE  pc \in {"none", "done"}
  BY DEF Roles, Derived

\* An instance that is made has a word and its keys.
LEMMA MadeHasWord ==
  ASSUME Inv256, stage # "setup"
  PROVE  Len(sub_keys) = 16 /\ Keyed /\ InstanceInv /\ sub_keys # <<>> /\ w # <<>>
<1>1. Len(sub_keys) = 16 /\ Keyed /\ InstanceInv
  BY DEF Inv256, Made
<1>2. sub_keys # <<>>
  BY <1>1
<1> QED BY <1>1, <1>2 DEF Inv256, Roles

\* A step of the derivation.
LEMMA DeriveKeeps ==
  ASSUME CompressReturnsHash, Inv256, Derive, UNCHANGED instance
  PROVE  Inv256' /\ stage = "setup"
<1>1. Next /\ UNCHANGED <<sub_keys, w, schedule>>
  BY DEF Derive
<1>2. ~(pc \in {"none", "done"})
  BY <1>1, NothingAfterDerivation
<1>3. w = <<>> /\ sub_keys = <<>>
  BY <1>2, WordIsLate DEF Inv256, Roles
<1>4. stage = "setup"
  BY <1>3, MadeHasWord
<1>5. IInv'
  BY <1>1, <1>2, Preserved DEF Inv256, Derivation
<1>6. Chained'
  BY <1>1 DEF Inv256, Chained
<1>7. Roles'
  BY <1>1, <1>3 DEF Roles
<1>8. Made'
  BY <1>1, <1>4 DEF Inv256, Made, instance
<1> QED BY <1>4, <1>5, <1>6, <1>7, <1>8 DEF Inv256, Derivation

\* What has not changed of the derivation is as it was.
LEMMA DerivationStays ==
  ASSUME Derivation, UNCHANGED vars
  PROVE  Derivation'
  BY DEF Derivation, vars, IInv, TypeInv, CallInv, HashInv, CallKey, CallText

\* The cut of the derived key.
LEMMA SplitKeeps ==
  ASSUME Inv256, Split, UNCHANGED instance
  PROVE  Inv256' /\ stage = "setup"
<1> DEFINE start == FromBigEndian(SubSeq(h, 1, 16))
<1> DEFINE ke == FromBigEndian(SubSeq(h, 17, 32))
<1>1. Derived /\ w = <<>> /\ w' = start /\ sub_keys' = FirstKey(ke) /\ UNCHANGED <<vars, schedule>>
  BY DEF Split
<1>2. h \in Hash
  BY <1>1 DEF Inv256, Derivation, Derived, IInv, TypeInv
<1>3. start \in Word128 /\ ke \in Word128 /\ BigEndian(start) \o BigEndian(ke) = h
  BY <1>2, HalvesOfHash
<1> HIDE DEF start, ke
<1>4. stage = "setup"
  BY <1>1, MadeHasWord
<1>5. Derivation'
  BY <1>1, DerivationStays DEF Inv256
<1>6. Chained' /\ sub_keys'[1].sub_key = ke /\ sub_keys' # <<>>
  BY <1>1, <1>3, ChainBegins
<1>7. w' # <<>> /\ w' \in Word128
  BY <1>1, <1>3, WordNotEmpty
<1>8. Derived' /\ h' = h
  BY <1>1 DEF Derived, vars
<1>9. Roles'
  BY <1>1, <1>3, <1>6, <1>7, <1>8 DEF Roles
<1>10. Made'
  BY <1>1, <1>4 DEF Inv256, Made, instance
<1> QED BY <1>4, <1>5, <1>6, <1>9, <1>10 DEF Inv256

\* A turn of gen_sub_keys.
LEMMA ExpandKeeps ==
  ASSUME Inv256, Expand, UNCHANGED instance
  PROVE  Inv256' /\ stage = "setup"
<1>1. NextKey /\ UNCHANGED <<vars, w, schedule>>
  BY DEF Expand
<1>2. Len(sub_keys) \in 1 .. 15
  BY <1>1 DEF NextKey
<1>3. stage = "setup"
  <2>1. ASSUME stage # "setup" PROVE Len(sub_keys) = 16
    BY <2>1, MadeHasWord
  <2> QED BY <1>2, <2>1
<1>4. /\ Chained'
      /\ Len(sub_keys') = Len(sub_keys) + 1
      /\ \A k \in 1 .. Len(sub_keys) : sub_keys'[k] = sub_keys[k]
  BY <1>1, ChainGrows DEF Inv256
<1>5. sub_keys'[1] = sub_keys[1]
  BY <1>2, <1>4
<1>6. sub_keys # <<>> /\ sub_keys' # <<>>
  <2>1. Len(sub_keys) # 0 /\ Len(sub_keys') # 0
    BY <1>2, <1>4
  <2> QED BY <2>1
<1>7. Derivation'
  BY <1>1, DerivationStays DEF Inv256
<1>8. UNCHANGED <<pc, given, h, w, rounds, stage>>
  BY <1>1 DEF vars, instance
<1>9. Roles'
  BY <1>5, <1>6, <1>8 DEF Inv256, Roles, Derived
<1>10. Made'
  BY <1>1, <1>3 DEF Inv256, Made, instance
<1> QED BY <1>3, <1>4, <1>7, <1>9, <1>10 DEF Inv256

\* The words of a complete chain are the schedule.
LEMMA KeyWordsType ==
  ASSUME Chained, Len(sub_keys) = 16
  PROVE  KeyWords(sub_keys) \in [0 .. 15 -> Word128]
<1>1. ASSUME NEW k \in 0 .. 15 PROVE sub_keys[k + 1].sub_key \in Word128
  <2>1. k + 1 \in 1 .. Len(sub_keys)
    OBVIOUS
  <2>2. sub_keys \in Seq(KeyRecords)
    BY DEF Chained
  <2>3. sub_keys[k + 1] \in KeyRecords
    BY <2>1, <2>2, ElementOfSeq
  <2> QED BY <2>3 DEF KeyRecords
<1>2. 0 .. Len(sub_keys) - 1 = 0 .. 15
  OBVIOUS
<1> QED BY <1>1, <1>2 DEF KeyWords

\* The struct is made.
LEMMA ConstructKeeps ==
  ASSUME Inv256, Construct
  PROVE  Inv256' /\ stage = "setup"
<1>1. /\ Len(sub_keys) = 16 /\ schedule = <<>> /\ schedule' = KeyWords(sub_keys)
      /\ UNCHANGED <<vars, sub_keys, w>>
      /\ stage' = "new"
      /\ UNCHANGED <<round_index, state, index, pos, turn, want, out, rounds, emitted>>
  BY DEF Construct, Flatten
<1>2. stage = "setup"
  <2>1. SUFFICES ASSUME stage # "setup" PROVE FALSE
    OBVIOUS
  <2>2. schedule \in [0 .. 15 -> Word128]
    BY <2>1, MadeHasWord DEF Keyed
  <2>3. 0 \in DOMAIN schedule
    BY <2>2
  <2>4. ~(0 \in DOMAIN <<>>)
    OBVIOUS
  <2> QED BY <1>1, <2>3, <2>4
<1>3. sub_keys # <<>>
  <2>1. Len(sub_keys) = 16
    BY <1>1
  <2>2. sub_keys \in Seq(KeyRecords)
    BY DEF Inv256, Chained
  <2> QED BY <2>1, <2>2, EmptySeq
<1>4. w # <<>> /\ w \in Word128
  BY <1>3 DEF Inv256, Roles
<1>5. Keyed'
  <2>1. KeyWords(sub_keys) \in [0 .. 15 -> Word128]
    BY <1>1, KeyWordsType DEF Inv256
  <2>2. KeyWords(sub_keys)' = KeyWords(sub_keys)
    BY <1>1 DEF KeyWords
  <2> QED BY <1>1, <2>1, <2>2 DEF Keyed
<1>6. round_index' = 0 /\ turn' = 0 /\ out' = <<>> /\ rounds' = 0 /\ emitted' = <<>>
  BY <1>1, <1>2 DEF Inv256, Made
<1>7. 0 % M = 0 /\ 0 \in 0 .. M - 1
  <2>1. M \in Nat \ {0}
    BY CounterAssumption
  <2> QED BY <2>1
<1>8. (Stream!TwoRoundsPerByte)' /\ (Stream!CountersAgree)'
  BY <1>1, <1>6, <1>7, PairedRoundsNext, AgreeingCountersNext
<1>9. <<>> \in Seq(Byte)
  OBVIOUS
<1>10. InstanceInv'
  BY <1>1, <1>4, <1>6, <1>7, <1>8, <1>9 DEF InstanceInv
<1>11. Made'
  BY <1>1, <1>5, <1>10 DEF Made
<1>12. Derivation'
  BY <1>1, DerivationStays DEF Inv256
<1>13. Chained'
  BY <1>1 DEF Inv256, Chained
<1>14. Roles'
  <2>1. UNCHANGED <<pc, given, h, w, rounds, sub_keys>> /\ stage' \in {"setup", "new"}
    BY <1>1 DEF vars
  <2> QED BY <1>2, <2>1 DEF Inv256, Roles, Derived
<1> QED BY <1>2, <1>11, <1>12, <1>13, <1>14 DEF Inv256

\* A step of the instance.
LEMMA UseKeeps ==
  ASSUME Inv256, Use
  PROVE  Inv256' /\ StepOK
<1>1. UNCHANGED <<vars, sub_keys, schedule>> /\ Stream!Next
  BY DEF Use
<1>2. stage # "setup"
  BY <1>1 DEF Stream!Next, Stream!WarmUp, Stream!NextByteFirst, Stream!NextByteSecond,
              Stream!BeginFill, Stream!FillFirst, Stream!FillSecond, Stream!EndFill
<1>3. Len(sub_keys) = 16 /\ Keyed /\ InstanceInv /\ sub_keys # <<>> /\ w # <<>>
  BY <1>2, MadeHasWord
<1>4. Working
  BY <1>1, <1>3 DEF Working
<1>5. StepOK
  BY <1>1, <1>4, UseOK
<1>6. InstanceInv' /\ (stage' = "new" => rounds' # 0)
  BY <1>5 DEF StepOK
<1>7. stage' # "setup" /\ w' \in Word128
  BY <1>6 DEF InstanceInv
<1>8. w' # <<>>
  BY <1>7, WordNotEmpty
<1>9. Roles'
  <2>1. UNCHANGED <<pc, given, sub_keys>>
    BY <1>1 DEF vars
  <2> QED BY <1>3, <1>6, <1>7, <1>8, <2>1 DEF Inv256, Roles, Derived
<1>10. Made'
  BY <1>1, <1>3, <1>6, <1>7 DEF Made, Keyed, KeyWords
<1>11. Derivation'
  BY <1>1, DerivationStays DEF Inv256
<1>12. Chained'
  BY <1>1 DEF Inv256, Chained
<1> QED BY <1>5, <1>9, <1>10, <1>11, <1>12 DEF Inv256

\* A step that changes nothing.
LEMMA StutterKeeps ==
  ASSUME Inv256, UNCHANGED <<setup, instance>>
  PROVE  Inv256' /\ UNCHANGED Stream!Reference!vars
<1>1. UNCHANGED <<vars, sub_keys, w, schedule>> /\ UNCHANGED instance
  BY DEF setup
<1>2. UNCHANGED <<pc, given, h, stage, round_index, state, index, pos, turn, out, rounds, emitted>>
  BY <1>1 DEF vars, instance
<1>3. Derivation'
  BY <1>1, DerivationStays DEF Inv256
<1>4. Chained'
  BY <1>1 DEF Inv256, Chained
<1>5. Roles'
  BY <1>1, <1>2 DEF Inv256, Roles, Derived
<1>6. InstanceInv => InstanceInv'
  BY <1>1, <1>2, PairedRounds, PairedRoundsNext, AgreeingCounters, AgreeingCountersNext DEF InstanceInv
<1>7. Made'
  BY <1>1, <1>2, <1>6 DEF Inv256, Made, Keyed, KeyWords
<1>8. RefWord' = RefWord /\ RefStream' = RefStream
  BY <1>1, <1>2 DEF RefWord, RefStream
<1> QED BY <1>1, <1>2, <1>3, <1>4, <1>5, <1>7, <1>8, NoRound DEF Inv256

\* Every step preserves the invariant, and is a round of the reference keystream
\* or nothing once there is an instance.
LEMMA Preserved256 ==
  ASSUME CompressReturnsHash, Inv256, [Next256]_<<setup, instance>>
  PROVE  /\ Inv256'
         /\ stage = "setup" \/ [Stream!Reference!Step]_(Stream!Reference!vars)
<1>1. CASE SetUp
  BY <1>1, DeriveKeeps, SplitKeeps, ExpandKeeps DEF SetUp
<1>2. CASE Construct
  BY <1>2, ConstructKeeps
<1>3. CASE Use
  BY <1>3, UseKeeps DEF StepOK
<1>4. CASE UNCHANGED <<setup, instance>>
  BY <1>4, StutterKeeps
<1> QED BY <1>1, <1>2, <1>3, <1>4 DEF Next256

\* Both results hold of the derivation where Pich256::new makes it, with the rest
\* of the constructor and the instance's whole life after it: nothing of them moves
\* the result again, and the padding is the standard's in all five calls.
THEOREM DerivesWithinNew ==
  ASSUME CompressReturnsHash PROVE Spec256 => []StandardResult /\ PaddedToBlocks
<1>1. Init256 => Inv256
  BY Initially256
<1>2. Inv256 /\ [Next256]_<<setup, instance>> => Inv256'
  BY Preserved256
<1>3. Inv256 => StandardResult
  <2> SUFFICES ASSUME Inv256 PROVE StandardResult
    OBVIOUS
  <2>1. CASE IInv
    BY <2>1, ResultIsStandard
  <2>2. CASE ~IInv
    BY <2>2 DEF Inv256, Derivation, StandardResult
  <2> QED BY <2>1, <2>2
<1>4. Inv256 /\ [Next256]_<<setup, instance>> => [Handed]_vars
  <2> SUFFICES ASSUME Inv256, [Next256]_<<setup, instance>>, ~(UNCHANGED vars)
               PROVE  Handed
    OBVIOUS
  <2>1. Next
    BY DEF Next256, SetUp, Derive, Split, Expand, Construct, Flatten, Use, setup
  <2>2. IInv
    BY <2>1, NothingAfterDerivation DEF Inv256, Derivation
  <2> QED BY <2>1, <2>2, HandsOnPadding
<1>5. Spec256 => []StandardResult /\ [][Handed]_vars
  BY <1>1, <1>2, <1>3, <1>4, PTL DEF Spec256
<1> QED BY <1>5 DEF PaddedToBlocks, Handed

\* The chain of round keys, at every length it has while it is built and for as
\* long as the instance lives: each key is the closed form of the one before it.
\* It is about g's 128-bit product, its carries and the sign carried out of the
\* constant, for every word a seed can be.
THEOREM ChainOfKeys == ASSUME CompressReturnsHash PROVE Spec256 => []ChainInClosedForm
<1>1. Init256 => Inv256
  BY Initially256
<1>2. Inv256 /\ [Next256]_<<setup, instance>> => Inv256'
  BY Preserved256
<1>3. Inv256 => ChainInClosedForm
  <2> SUFFICES ASSUME Inv256, Len(sub_keys) > 1
               PROVE  /\ Len(sub_keys) <= 16
                      /\ sub_keys[Len(sub_keys)] =
                           Roundkey(Len(sub_keys) - 1,
                                    Following(sub_keys[Len(sub_keys) - 1].sub_key, Len(sub_keys) - 1),
                                    p(Fibonacci[Len(sub_keys) - 1]))
    BY DEF ChainInClosedForm
  <2>1. sub_keys \in Seq(KeyRecords) /\ Len(sub_keys) <= 16
    BY DEF Inv256, Chained
  <2>2. Len(sub_keys) \in 2 .. Len(sub_keys)
    BY <2>1, LenProperties
  <2> QED BY <2>1, <2>2 DEF Inv256, Chained
<1> QED BY <1>1, <1>2, <1>3, PTL DEF Spec256

\* A State begins where the passphrase puts it: the word and the first key are the
\* two halves of the standard derivation in the documented order, and the flattened
\* schedule is all sixteen keys of the chain, for every passphrase (short of the
\* 2^61 bytes from which SHA-256 is undefined, it is the standard's derivation by
\* OnlyPadding) and every compression that returns hash values.
THEOREM PassphraseMakesState == ASSUME CompressReturnsHash PROVE Spec256 => []StateFromPassphrase
<1>1. Init256 => Inv256
  BY Initially256
<1>2. Inv256 /\ [Next256]_<<setup, instance>> => Inv256'
  BY Preserved256
<1>3. Inv256 => StateFromPassphrase
  <2> SUFFICES ASSUME Inv256, stage = "new", rounds = 0 PROVE StateFromPassphrase
    BY DEF StateFromPassphrase
  <2>1. Len(sub_keys) = 16 /\ Keyed /\ w # <<>>
    BY MadeHasWord
  <2>2. /\ schedule \in [0 .. 15 -> Word128]
        /\ \A k \in 0 .. 15 : schedule[k] = sub_keys[k + 1].sub_key
    BY <2>1 DEF Keyed, KeyWords
  <2>3. ASSUME given # <<>>
        PROVE  BigEndian(w) \o BigEndian(schedule[0]) = StandardKey
    <3>1. IInv
      BY <2>3 DEF Inv256, Derivation
    <3>2. pc = "done" /\ Len(given) = 1
      BY <2>1, <3>1 DEF Inv256, Roles, Derived, IInv, TypeInv
    <3>3. next = <<>> /\ h = Hmac(CallKey, CallText)
      BY <3>1, <3>2 DEF IInv, CallInv
    <3>4. <<>> # <<1>>
      OBVIOUS
    <3>5. h = StandardKey
      BY <3>2, <3>3, <3>4 DEF CallKey, CallText, StandardKey
    <3>6. BigEndian(w) \o BigEndian(sub_keys[1].sub_key) = h
      BY <2>1, <2>3 DEF Inv256, Roles
    <3>7. schedule[0] = sub_keys[1].sub_key
      BY <2>2
    <3> QED BY <3>5, <3>6, <3>7
  <2>4. ASSUME NEW k \in 1 .. 15
        PROVE  schedule[k] = Following(schedule[k - 1], k)
    <3>1. k + 1 \in 2 .. Len(sub_keys) /\ (k + 1) - 1 = k /\ k - 1 \in 0 .. 15 /\ (k - 1) + 1 = k
      BY <2>1
    <3>2. sub_keys[k + 1] = Roundkey(k, Following(sub_keys[k].sub_key, k), p(Fibonacci[k]))
      BY <3>1 DEF Inv256, Chained
    <3>3. schedule[k] = sub_keys[k + 1].sub_key
      <4>1. k \in 0 .. 15
        OBVIOUS
      <4> QED BY <2>2, <4>1
    <3>4. schedule[k - 1] = sub_keys[k].sub_key
      <4>1. schedule[k - 1] = sub_keys[(k - 1) + 1].sub_key
        BY <2>2, <3>1
      <4> QED BY <3>1, <4>1
    <3> QED BY <3>2, <3>3, <3>4 DEF Roundkey
  <2> QED BY <2>2, <2>3, <2>4 DEF StateFromPassphrase
<1> QED BY <1>1, <1>2, <1>3, PTL DEF Spec256

\* From then on every step of the instance is a round of the reference keystream
\* under those keys, or gives nothing: next_byte under the wrapped counter and
\* fill_keystream under a position of its own, over two copies of the keys, are
\* one stream, however a caller mixes them and at every width of round_index that
\* the number of keys divides.
THEOREM KeystreamOfTheKeys == ASSUME CompressReturnsHash PROVE Spec256 => StreamOfTheKeys
<1> DEFINE InStream == stage = "setup" \/ Stream!Reference!Step
<1>1. Init256 => Inv256
  BY Initially256
<1>2. Inv256 /\ [Next256]_<<setup, instance>> => Inv256'
  BY Preserved256
<1>3. Inv256 /\ [Next256]_<<setup, instance>> => [InStream]_(Stream!Reference!vars)
  BY Preserved256
<1> HIDE DEF InStream
<1>4. Spec256 => [][InStream]_(Stream!Reference!vars)
  BY <1>1, <1>2, <1>3, PTL DEF Spec256
<1> QED BY <1>4 DEF StreamOfTheKeys, InStream
=============================================================================
