--------------------------- MODULE Kernels_proof ---------------------------
(***************************************************************************)
(* The vector kernels do what the portable code does, for every length and *)
(* content of memory, every schedule and any number of rounds.             *)
(***************************************************************************)
EXTENDS SubBytes, VectorRounds, XorInto, NumberFacts, TLAPS

-----------------------------------------------------------------------------
\* Bits of bytes.

\* The entries of the table are bytes.
LEMMA TableType == SBOX \in [Byte -> Byte]
<1>1. \A x \in 0 .. 255 : SboxTable[x + 1] \in Byte
  BY DEF SboxTable, Byte
<1> QED BY <1>1 DEF SBOX, Byte

\* A bit is 0 or 1, and a byte is the sum of its bits.
LEMMA BitsOfByte ==
  ASSUME NEW a \in Byte
  PROVE  /\ \A i \in 0 .. 7 : Bit(a, i) \in {0, 1} /\ Bit(0, i) = 0
         /\ FromBits([i \in 0 .. 7 |-> Bit(a, i)]) = a
<1>1. /\ Bit(a, 0) = a % 2 /\ Bit(a, 1) = (a \div 2) % 2
      /\ Bit(a, 2) = (a \div 4) % 2 /\ Bit(a, 3) = (a \div 8) % 2
      /\ Bit(a, 4) = (a \div 16) % 2 /\ Bit(a, 5) = (a \div 32) % 2
      /\ Bit(a, 6) = (a \div 64) % 2 /\ Bit(a, 7) = (a \div 128) % 2
  BY DEF Bit, Byte
<1>2. /\ Bit(0, 0) = 0 /\ Bit(0, 1) = 0 /\ Bit(0, 2) = 0 /\ Bit(0, 3) = 0
      /\ Bit(0, 4) = 0 /\ Bit(0, 5) = 0 /\ Bit(0, 6) = 0 /\ Bit(0, 7) = 0
  BY DEF Bit
<1>3. \A i \in 0 .. 7 : Bit(a, i) \in {0, 1} /\ Bit(0, i) = 0
  BY <1>1, <1>2 DEF Byte
<1>4. a = (a % 2) + 2 * ((a \div 2) % 2) + 4 * ((a \div 4) % 2) + 8 * ((a \div 8) % 2)
            + 16 * ((a \div 16) % 2) + 32 * ((a \div 32) % 2)
            + 64 * ((a \div 64) % 2) + 128 * ((a \div 128) % 2)
  BY DEF Byte
<1>5. FromBits([i \in 0 .. 7 |-> Bit(a, i)]) = a
  BY <1>1, <1>4 DEF FromBits
<1> QED BY <1>3, <1>5

\* Zero changes nothing, in either operation.
LEMMA WithZero ==
  ASSUME NEW a \in Byte
  PROVE  Or(a, 0) = a /\ Or(0, a) = a /\ Xor(a, 0) = a
<1>1. \A i \in 0 .. 7 : Bit(a, i) \in {0, 1} /\ Bit(0, i) = 0
  BY BitsOfByte
<1>2. [i \in 0 .. 7 |-> IF Bit(a, i) + Bit(0, i) = 0 THEN 0 ELSE 1] = [i \in 0 .. 7 |-> Bit(a, i)]
  BY <1>1
<1>3. [i \in 0 .. 7 |-> IF Bit(0, i) + Bit(a, i) = 0 THEN 0 ELSE 1] = [i \in 0 .. 7 |-> Bit(a, i)]
  BY <1>1
<1>4. [i \in 0 .. 7 |-> (Bit(a, i) + Bit(0, i)) % 2] = [i \in 0 .. 7 |-> Bit(a, i)]
  BY <1>1
<1> QED BY <1>2, <1>3, <1>4, BitsOfByte DEF Or, Xor

\* An exclusive or of bytes is a byte.
LEMMA XorType ==
  ASSUME NEW a \in Byte, NEW b \in Byte
  PROVE  Xor(a, b) \in Byte
<1>1. \A i \in 0 .. 7 : Bit(a, i) \in {0, 1} /\ Bit(b, i) \in {0, 1}
  BY BitsOfByte
<1>2. \A i \in 0 .. 7 : (Bit(a, i) + Bit(b, i)) % 2 \in {0, 1}
  BY <1>1
<1>3. ASSUME NEW f \in [0 .. 7 -> {0, 1}] PROVE FromBits(f) \in Byte
  BY DEF FromBits, Byte
<1>4. [i \in 0 .. 7 |-> (Bit(a, i) + Bit(b, i)) % 2] \in [0 .. 7 -> {0, 1}]
  BY <1>2
<1> QED BY <1>3, <1>4 DEF Xor

\* Disjoint bits: the lowest one, and an even number.
LEMMA OrOfParts ==
  ASSUME NEW a \in {0, 1}, NEW b \in Byte, b % 2 = 0
  PROVE  Or(a, b) = a + b
<1>1. \A i \in 1 .. 7 : Bit(a, i) = 0
  <2>1. /\ Bit(a, 1) = (a \div 2) % 2 /\ Bit(a, 2) = (a \div 4) % 2
        /\ Bit(a, 3) = (a \div 8) % 2 /\ Bit(a, 4) = (a \div 16) % 2
        /\ Bit(a, 5) = (a \div 32) % 2 /\ Bit(a, 6) = (a \div 64) % 2
        /\ Bit(a, 7) = (a \div 128) % 2
    BY DEF Bit
  <2> QED BY <2>1
<1>2. Bit(a, 0) = a /\ Bit(b, 0) = 0
  <2>1. Bit(a, 0) = a % 2 /\ Bit(b, 0) = b % 2
    BY DEF Bit, Byte
  <2> QED BY <2>1
<1>3. \A i \in 0 .. 7 : Bit(b, i) \in {0, 1}
  BY BitsOfByte
<1>4. FromBits([i \in 0 .. 7 |-> Bit(b, i)]) = b
  BY BitsOfByte
<1>5. Or(a, b) = FromBits([i \in 0 .. 7 |-> IF i = 0 THEN a ELSE Bit(b, i)])
  <2>1. \A i \in 0 .. 7 : (IF Bit(a, i) + Bit(b, i) = 0 THEN 0 ELSE 1)
                            = (IF i = 0 THEN a ELSE Bit(b, i))
    BY <1>1, <1>2, <1>3
  <2> QED BY <2>1 DEF Or
<1> QED BY <1>2, <1>3, <1>4, <1>5 DEF FromBits, Byte

-----------------------------------------------------------------------------
\* The five ways of computing the table.

\* Merging entries of which at most one, v at m, is not zero leaves that one.
LEMMA MergedHit ==
  ASSUME NEW k \in Nat, NEW f, NEW m \in Nat, NEW v \in Byte,
         \A j \in 0 .. k - 1 : f[j] = IF j = m THEN v ELSE 0
  PROVE  Merged(f, k) = IF m < k THEN v ELSE 0
<1> DEFINE Body(g) == [j \in 0 .. k |-> IF j = 0 THEN 0 ELSE Or(g[j - 1], f[j - 1])]
<1> DEFINE or == CHOOSE g : g = Body(g)
<1> DEFINE hit == [j \in 0 .. k |-> IF m < j THEN v ELSE 0]
<1>1. Merged(f, k) = or[k]
  BY DEF Merged
<1>2. ASSUME NEW j \in 0 .. k, j # 0
      PROVE  Or(IF m < j - 1 THEN v ELSE 0, f[j - 1]) = IF m < j THEN v ELSE 0
  <2>1. j - 1 \in 0 .. k - 1 /\ 0 \in Byte
    BY <1>2 DEF Byte
  <2>2. CASE m = j - 1
    <3>1. f[j - 1] = v /\ ~ (m < j - 1) /\ m < j
      BY <2>1, <2>2
    <3> QED BY <3>1, WithZero
  <2>3. CASE m # j - 1
    <3>1. f[j - 1] = 0 /\ (m < j - 1 <=> m < j)
      BY <2>1, <2>3
    <3> QED BY <2>1, <3>1, WithZero
  <2> QED BY <2>2, <2>3
<1>3. hit = Body(hit)
  <2>1. ASSUME NEW j \in 0 .. k PROVE hit[j] = Body(hit)[j]
    <3>1. CASE j = 0
      BY <3>1
    <3>2. CASE j # 0
      <4>1. j - 1 \in 0 .. k
        BY <3>2
      <4>2. hit[j - 1] = IF m < j - 1 THEN v ELSE 0
        BY <4>1
      <4>3. Body(hit)[j] = Or(hit[j - 1], f[j - 1])
        BY <3>2
      <4> QED BY <1>2, <3>2, <4>2, <4>3
    <3> QED BY <3>1, <3>2
  <2> HIDE DEF hit
  <2>2. hit = [j \in 0 .. k |-> hit[j]]
    BY DEF hit
  <2> QED BY <2>1, <2>2
<1>4. or = Body(or)
  <2> HIDE DEF hit
  <2> QED BY <1>3
<1> HIDE DEF or, hit
<1> DEFINE S == {j \in Nat : j <= k => or[j] = IF m < j THEN v ELSE 0}
<1>5. 0 \in S
  <2>1. Body(or)[0] = 0
    OBVIOUS
  <2> QED BY <1>4, <2>1
<1>6. ASSUME NEW j \in S PROVE j + 1 \in S
  <2>1. CASE j + 1 <= k
    <3>1. j \in Nat /\ j + 1 \in 0 .. k /\ j + 1 # 0 /\ (j + 1) - 1 = j /\ j <= k
      BY <2>1
    <3>2. or[j] = IF m < j THEN v ELSE 0
      BY <3>1
    <3>3. Body(or)[j + 1] = Or(or[j], f[j])
      BY <3>1
    <3>4. Or(IF m < j THEN v ELSE 0, f[j]) = IF m < j + 1 THEN v ELSE 0
      BY <1>2, <3>1
    <3> QED BY <1>4, <3>1, <3>2, <3>3, <3>4
  <2> QED BY <2>1
<1>7. S \in SUBSET Nat
  OBVIOUS
<1> HIDE DEF S
<1>8. S = Nat
  BY <1>5, <1>6, <1>7, Induction
<1> QED BY <1>1, <1>8 DEF S

\* A row of pshufb answers for its sixteen bytes and no others.
LEMMA RowAnswers ==
  ASSUME NEW x \in Byte, NEW r \in 0 .. 15
  PROVE  RowHit(r, x) = IF r = x \div 16 THEN SBOX[x] ELSE 0
<1>1. CASE r = x \div 16
  <2>1. x - 16 * r \in 0 .. 15 /\ (x - 16 * r) % 256 = x - 16 * r
    BY <1>1 DEF Byte
  <2>2. AddSaturating(x - 16 * r, 112) = x - 16 * r + 112
    BY <2>1 DEF AddSaturating
  <2>3. (x - 16 * r + 112) % 16 = x - 16 * r
    BY <2>1
  <2>4. RowHit(r, x) = Row(r)[x - 16 * r]
    BY <2>1, <2>2, <2>3 DEF RowHit, Pshufb, PSHUFB_BIAS
  <2>5. 16 * r + (x - 16 * r) = x
    BY DEF Byte
  <2> QED BY <1>1, <2>1, <2>4, <2>5 DEF Row, Lane
<1>2. CASE r # x \div 16
  <2>1. (x - 16 * r) % 256 \in 16 .. 255
    BY <1>2 DEF Byte
  <2>2. AddSaturating((x - 16 * r) % 256, 112) >= 128
    BY <2>1 DEF AddSaturating
  <2> QED BY <1>2, <2>2 DEF RowHit, Pshufb, PSHUFB_BIAS
<1> QED BY <1>1, <1>2

\* Sixteen rows, or the even and the odd ones merged, are the table.
LEMMA RowsAreTable ==
  ASSUME NEW x \in Byte
  PROVE  /\ AllRows[x] = SBOX[x]
         /\ EvenRows[x] = IF (x \div 16) % 2 = 0 THEN SBOX[x] ELSE 0
         /\ OddRows[x] = IF (x \div 16) % 2 = 0 THEN 0 ELSE SBOX[x]
         /\ EvenRows[x] \in Byte /\ OddRows[x] \in Byte
         /\ Or(EvenRows[x], OddRows[x]) = SBOX[x]
<1> DEFINE row == x \div 16
<1>1. row \in 0 .. 15
  BY DEF Byte
<1>2. SBOX[x] \in Byte /\ 0 \in Byte
  <2>1. SBOX[x] \in Byte
    BY TableType
  <2> QED BY <2>1 DEF Byte
<1>3. \A r \in 0 .. 15 : RowHit(r, x) = IF r = row THEN SBOX[x] ELSE 0
  BY RowAnswers
<1> HIDE DEF row
<1>4. AllRows[x] = SBOX[x]
  <2> DEFINE f == [r \in 0 .. 15 |-> RowHit(r, x)]
  <2>1. \A j \in 0 .. 16 - 1 : f[j] = IF j = row THEN SBOX[x] ELSE 0
    BY <1>3
  <2>2. AllRows[x] = Merged(f, 16)
    BY DEF AllRows
  <2> HIDE DEF f
  <2>0. row \in Nat
    BY <1>1
  <2>3. Merged(f, 16) = IF row < 16 THEN SBOX[x] ELSE 0
    BY <2>0, <1>2, <2>1, MergedHit
  <2> QED BY <1>1, <2>2, <2>3
<1>5. EvenRows[x] = IF row % 2 = 0 THEN SBOX[x] ELSE 0
  <2> DEFINE f == [p \in 0 .. 7 |-> RowHit(2 * p, x)]
  <2> DEFINE m == IF row % 2 = 0 THEN row \div 2 ELSE 8
  <2>1. m \in Nat /\ (m < 8 <=> row % 2 = 0)
    BY <1>1
  <2>2. ASSUME NEW j \in 0 .. 8 - 1 PROVE f[j] = IF j = m THEN SBOX[x] ELSE 0
    <3>1. 2 * j \in 0 .. 15 /\ (2 * j = row <=> j = m)
      BY <1>1
    <3> QED BY <1>3, <3>1
  <2>3. EvenRows[x] = Merged(f, 8)
    BY DEF EvenRows
  <2> HIDE DEF f, m
  <2>4. Merged(f, 8) = IF m < 8 THEN SBOX[x] ELSE 0
    BY <1>2, <2>1, <2>2, MergedHit
  <2> QED BY <2>1, <2>3, <2>4
<1>6. OddRows[x] = IF row % 2 = 0 THEN 0 ELSE SBOX[x]
  <2> DEFINE f == [p \in 0 .. 7 |-> RowHit(2 * p + 1, x)]
  <2> DEFINE m == IF row % 2 = 0 THEN 8 ELSE row \div 2
  <2>1. m \in Nat /\ (m < 8 <=> row % 2 # 0)
    BY <1>1
  <2>2. ASSUME NEW j \in 0 .. 8 - 1 PROVE f[j] = IF j = m THEN SBOX[x] ELSE 0
    <3>1. 2 * j + 1 \in 0 .. 15 /\ (2 * j + 1 = row <=> j = m)
      BY <1>1
    <3> QED BY <1>3, <3>1
  <2>3. OddRows[x] = Merged(f, 8)
    BY DEF OddRows
  <2> HIDE DEF f, m
  <2>4. Merged(f, 8) = IF m < 8 THEN SBOX[x] ELSE 0
    BY <1>2, <2>1, <2>2, MergedHit
  <2> QED BY <2>1, <2>3, <2>4
<1>7. Or(EvenRows[x], OddRows[x]) = SBOX[x]
  BY <1>2, <1>5, <1>6, WithZero
<1> QED BY <1>2, <1>4, <1>5, <1>6, <1>7 DEF row

\* The two lookups of 128 entries are the table.
LEMMA BlendIsTable ==
  ASSUME NEW x \in Byte
  PROVE  Blended[x] = SBOX[x]
<1>1. CASE x >= 128
  <2>1. 128 + (x % 128) = x
    BY <1>1 DEF Byte
  <2> QED BY <1>1, <2>1 DEF Blended, Vpermi2b
<1>2. CASE ~ (x >= 128)
  <2>1. 0 + (x % 128) = x
    BY <1>2 DEF Byte
  <2> QED BY <1>2, <2>1 DEF Blended, Vpermi2b
<1> QED BY <1>1, <1>2

\* The permutation undoes the row shift built into aesenclast.
LEMMA ShiftsCancel ==
  ASSUME NEW x \in [Lane -> Byte], NEW key, NEW i \in Lane
  PROVE  SubstituteXor(x, key)[i] = Xor(SBOX[x[i]], key[i])
<1> DEFINE from == (i % 4) + 4 * (((i \div 4) + (i % 4)) % 4)
<1> DEFINE y == [j \in Lane |-> x[INV_SHIFT_ROWS[j + 1]]]
<1>1. from \in Lane /\ INV_SHIFT_ROWS[from + 1] = i
  BY DEF Lane, INV_SHIFT_ROWS
<1>2. SubstituteXor(x, key)[i] = Xor(SBOX[y[from]], key[i])
  BY DEF SubstituteXor, Aesenclast
<1> QED BY <1>1, <1>2

-----------------------------------------------------------------------------
\* arch::sub_bytes.

\* The backend and the loop it is in, and how far that loop can be.
TypeOK ==
  /\ bytes \in [Addresses -> Byte] /\ before \in [Addresses -> Byte]
  /\ len \in 0 .. MaxLen
  /\ off \in 0 .. len
  /\ pc \in {"x16", "x32", "x64", "scalar", "done"}
  /\ kernel = "AesNi" => pc \in {"x16", "scalar", "done"}

SubBytesInv == TypeOK /\ SubstitutedOnce /\ NothingBeyond

\* Every register function substitutes each of its bytes, whatever else it reads.
LEMMA RegisterSubstitutes ==
  ASSUME NEW k \in Nat, NEW x \in [0 .. k - 1 -> Byte],
         pc # "x64" /\ kernel = "AesNi" => k = 16
  PROVE  \A i \in 0 .. k - 1 : Substituted(x)[i] = SBOX[x[i]]
<1> SUFFICES ASSUME NEW i \in 0 .. k - 1 PROVE Substituted(x)[i] = SBOX[x[i]]
  OBVIOUS
<1>1. x[i] \in Byte /\ DOMAIN x = 0 .. k - 1
  OBVIOUS
<1>2. Blended[x[i]] = SBOX[x[i]] /\ AllRows[x[i]] = SBOX[x[i]]
  BY <1>1, BlendIsTable, RowsAreTable
<1>3. AffineOfInverse[x[i]] = SBOX[x[i]]
  BY GfniAssumption
<1>4. CASE pc # "x64" /\ kernel = "AesNi"
  <2>1. x \in [Lane -> Byte] /\ i \in Lane
    BY <1>4 DEF Lane
  <2>2. SubstituteXor(x, Zero)[i] = Xor(SBOX[x[i]], Zero[i])
    BY <2>1, ShiftsCancel
  <2>3. Zero[i] = 0 /\ SBOX[x[i]] \in Byte
    BY <1>1, <2>1, TableType DEF Zero
  <2>4. Xor(SBOX[x[i]], 0) = SBOX[x[i]]
    BY <2>3, WithZero
  <2> QED BY <1>4, <2>2, <2>3, <2>4 DEF Substituted
<1>5. CASE ~ (pc # "x64" /\ kernel = "AesNi")
  BY <1>1, <1>2, <1>3, <1>5 DEF Substituted
<1> QED BY <1>4, <1>5

\* Storing the substitutes of the next k bytes of the slice moves the boundary
\* between the bytes done and the bytes to do by k.
LEMMA StoreSubstitutes ==
  ASSUME SubBytesInv, NEW k \in Nat, off + k <= len, NEW x,
         \A i \in 0 .. k - 1 : x[i] = SBOX[bytes[off + i]],
         bytes' = Stored(x, k), off' = off + k, UNCHANGED <<len, before>>
  PROVE  /\ bytes' \in [Addresses -> Byte]
         /\ \A a \in 0 .. len' - 1 :
              bytes'[a] = IF a < off' THEN SBOX[before'[a]] ELSE before'[a]
         /\ NothingBeyond'
<1>1. off \in Nat /\ len \in Nat /\ off + k <= len /\ len <= MaxLen /\ MaxLen \in Nat /\ Beyond \in Nat
  BY MemoryAssumption DEF SubBytesInv, TypeOK
<1>2. ASSUME NEW a \in Addresses
      PROVE  /\ bytes'[a] = IF a \in off .. off + k - 1 THEN SBOX[bytes[a]] ELSE bytes[a]
             /\ bytes'[a] \in Byte
  <2>0. a \in Nat
    BY <1>1 DEF Addresses
  <2>1. bytes[a] \in Byte
    BY DEF SubBytesInv, TypeOK
  <2>2. SBOX[bytes[a]] \in Byte
    BY <2>1, TableType
  <2>3. CASE a \in off .. off + k - 1
    <3>1. a - off \in 0 .. k - 1 /\ off + (a - off) = a
      BY <1>1, <2>0, <2>3
    <3>2. x[a - off] = SBOX[bytes[a]]
      BY <3>1
    <3> QED BY <2>2, <2>3, <3>2 DEF Stored
  <2>4. CASE a \notin off .. off + k - 1
    BY <2>1, <2>4 DEF Stored
  <2> QED BY <2>3, <2>4
<1>3. bytes' \in [Addresses -> Byte]
  BY <1>2 DEF Stored
<1>4. ASSUME NEW a \in 0 .. len - 1
      PROVE  bytes'[a] = IF a < off + k THEN SBOX[before[a]] ELSE before[a]
  <2>1. a \in Addresses /\ a \in Nat
    BY <1>1 DEF Addresses
  <2>2. bytes[a] = IF a < off THEN SBOX[before[a]] ELSE before[a]
    BY DEF SubBytesInv, SubstitutedOnce
  <2>3. CASE a \in off .. off + k - 1
    <3>1. a < off + k /\ ~ (a < off)
      BY <1>1, <2>1, <2>3
    <3> QED BY <1>2, <2>1, <2>2, <2>3, <3>1
  <2>4. CASE a \notin off .. off + k - 1
    <3>1. a < off + k <=> a < off
      BY <1>1, <2>1, <2>4
    <3> QED BY <1>2, <2>1, <2>2, <2>4, <3>1
  <2> QED BY <2>3, <2>4
<1>5. ASSUME NEW a \in Addresses, a >= len PROVE bytes'[a] = before[a]
  <2>1. a \notin off .. off + k - 1
    BY <1>1, <1>5 DEF Addresses
  <2> QED BY <1>2, <1>5, <2>1 DEF SubBytesInv, NothingBeyond
<1> QED BY <1>3, <1>4, <1>5 DEF NothingBeyond

\* A chunk loaded whole.
LEMMA LoadedType ==
  ASSUME SubBytesInv, NEW k \in Nat, off + k <= len
  PROVE  Loaded(k) \in [0 .. k - 1 -> Byte]
<1>1. off \in Nat /\ len \in Nat /\ off + k <= len /\ len <= MaxLen /\ MaxLen \in Nat /\ Beyond \in Nat
  BY MemoryAssumption DEF SubBytesInv, TypeOK
<1>2. ASSUME NEW i \in 0 .. k - 1 PROVE bytes[off + i] \in Byte
  <2>1. off + i \in Addresses
    BY <1>1 DEF Addresses
  <2> QED BY <2>1 DEF SubBytesInv, TypeOK
<1> QED BY <1>2 DEF Loaded

\* At the call nothing has been substituted.
LEMMA SubBytesStart == Init => SubBytesInv
<1> SUFFICES ASSUME Init PROVE SubBytesInv
  OBVIOUS
<1>1. kernel \in {"Fallback", "Ssse3", "Avx2", "Avx512Vbmi", "AesNi", "Gfni"}
  BY MemoryAssumption DEF Init
<1>2. bytes \in [Addresses -> Byte] /\ before \in [Addresses -> Byte]
  BY MemoryAssumption DEF Init
<1>3. pc \in {"x16", "x32", "x64", "scalar"} /\ (kernel = "AesNi" => pc = "x16")
  BY <1>1 DEF Init, FirstLoop
<1>4. len \in 0 .. MaxLen /\ off \in 0 .. len
  BY MemoryAssumption DEF Init
<1>5. TypeOK
  BY <1>2, <1>3, <1>4 DEF TypeOK
<1>6. SubstitutedOnce /\ NothingBeyond
  BY <1>3, <1>4 DEF Init, SubstitutedOnce, NothingBeyond
<1> QED BY <1>5, <1>6 DEF SubBytesInv

\* Every chunk, remainder and tail preserves the invariant.
LEMMA SubBytesStep == SubBytesInv /\ [Next]_vars => SubBytesInv'
<1> SUFFICES ASSUME SubBytesInv, [Next]_vars PROVE SubBytesInv'
  OBVIOUS
<1>0. off \in Nat /\ len \in Nat /\ off <= len /\ MaxLen \in Nat
  BY MemoryAssumption DEF SubBytesInv, TypeOK
<1>1. CASE Chunk
  <2>1. PICK k \in {16, 32, 64} : k = Width[pc] /\ (kernel = "AesNi" => k = 16)
    BY <1>1 DEF Chunk, Width, SubBytesInv, TypeOK
  <2>2. pc \in {"x16", "x32", "x64"} /\ k \in Nat /\ off + k <= len
    BY <1>0, <1>1, <2>1 DEF Chunk, Width
  <2>3. bytes' = Stored(Substituted(Loaded(k)), k) /\ off' = off + k /\ UNCHANGED <<kernel, len, pc, before>>
    BY <1>1, <2>1 DEF Chunk
  <2>4. Loaded(k) \in [0 .. k - 1 -> Byte]
    BY <2>2, LoadedType
  <2>5. \A i \in 0 .. k - 1 : Substituted(Loaded(k))[i] = SBOX[Loaded(k)[i]]
    BY <2>1, <2>2, <2>4, RegisterSubstitutes
  <2>6. \A i \in 0 .. k - 1 : Substituted(Loaded(k))[i] = SBOX[bytes[off + i]]
    BY <2>5 DEF Loaded
  <2>7. /\ bytes' \in [Addresses -> Byte]
        /\ \A a \in 0 .. len' - 1 :
             bytes'[a] = IF a < off' THEN SBOX[before'[a]] ELSE before'[a]
        /\ NothingBeyond'
    BY <2>2, <2>3, <2>6, StoreSubstitutes
  <2>8. off' \in 0 .. len'
    BY <1>0, <2>2, <2>3
  <2> QED BY <2>2, <2>3, <2>7, <2>8 DEF SubBytesInv, TypeOK, SubstitutedOnce
<1>2. CASE Remainder
  BY <1>2 DEF Remainder, SubBytesInv, TypeOK, SubstitutedOnce, NothingBeyond
<1>3. CASE MaskedRemainder
  <2> DEFINE rest == len - off
  <2> DEFINE v == [i \in 0 .. 63 |-> IF i < rest THEN bytes[off + i] ELSE 0]
  <2>1. rest \in 0 .. 63 /\ off + rest = len
    BY <1>0, <1>3 DEF MaskedRemainder
  <2>2. v \in [0 .. 63 -> Byte]
    <3>1. Loaded(rest) \in [0 .. rest - 1 -> Byte]
      BY <1>0, <2>1, LoadedType
    <3>2. ASSUME NEW i \in 0 .. 63 PROVE v[i] \in Byte
      <4>1. CASE i < rest
        <5>1. i \in 0 .. rest - 1
          BY <2>1, <4>1
        <5>2. Loaded(rest)[i] = bytes[off + i]
          BY <5>1 DEF Loaded
        <5> QED BY <3>1, <4>1, <5>1, <5>2
      <4>2. CASE ~ (i < rest)
        BY <4>2 DEF Byte
      <4> QED BY <4>1, <4>2
    <3> QED BY <3>2
  <2>3. pc = "x64" /\ pc' = "done" /\ off' = len /\ UNCHANGED <<kernel, len, before>>
    BY <1>3 DEF MaskedRemainder
  <2>4. bytes' = IF rest > 0 THEN Stored(Substituted(v), rest) ELSE bytes
    BY <1>3 DEF MaskedRemainder
  <2>5. \A i \in 0 .. rest - 1 : v[i] = bytes[off + i]
    BY <2>1
  <2> HIDE DEF v
  <2>6. \A i \in 0 .. 63 : Substituted(v)[i] = SBOX[v[i]]
    <3>1. v \in [0 .. 64 - 1 -> Byte] /\ 64 \in Nat
      BY <2>2
    <3>2. \A i \in 0 .. 64 - 1 : Substituted(v)[i] = SBOX[v[i]]
      BY <2>3, <3>1, RegisterSubstitutes
    <3> QED BY <3>2
  <2>7. \A i \in 0 .. rest - 1 : Substituted(v)[i] = SBOX[bytes[off + i]]
    BY <2>1, <2>5, <2>6
  <2> HIDE DEF rest
  <2>8. CASE rest > 0
    <3>1. /\ bytes' \in [Addresses -> Byte]
          /\ \A a \in 0 .. len' - 1 :
               bytes'[a] = IF a < off' THEN SBOX[before'[a]] ELSE before'[a]
          /\ NothingBeyond'
      BY <1>0, <2>1, <2>3, <2>4, <2>7, <2>8, StoreSubstitutes
    <3> QED BY <1>0, <2>3, <3>1 DEF SubBytesInv, TypeOK, SubstitutedOnce
  <2>9. CASE ~ (rest > 0)
    <3>1. off = len /\ bytes' = bytes
      BY <1>0, <2>1, <2>4, <2>9
    <3> QED BY <1>0, <2>3, <3>1 DEF SubBytesInv, TypeOK, SubstitutedOnce, NothingBeyond
  <2> QED BY <2>8, <2>9
<1>4. CASE Scalar
  <2> DEFINE x == [i \in 0 .. len - off - 1 |-> SBOX[bytes[off + i]]]
  <2>1. PICK k \in Nat : k = len - off
    BY <1>0
  <2>2. off + k = len /\ off' = len /\ pc' = "done" /\ UNCHANGED <<kernel, len, before>>
    BY <1>0, <1>4, <2>1 DEF Scalar
  <2>3. bytes' = Stored(x, k)
    BY <1>4, <2>1 DEF Scalar
  <2>4. \A i \in 0 .. k - 1 : x[i] = SBOX[bytes[off + i]]
    BY <2>1
  <2> HIDE DEF x
  <2>5. off + k <= len /\ off' = off + k
    BY <1>0, <2>2
  <2>6. /\ bytes' \in [Addresses -> Byte]
        /\ \A a \in 0 .. len' - 1 :
             bytes'[a] = IF a < off' THEN SBOX[before'[a]] ELSE before'[a]
        /\ NothingBeyond'
    BY <2>2, <2>3, <2>4, <2>5, StoreSubstitutes
  <2> QED BY <1>0, <2>2, <2>6 DEF SubBytesInv, TypeOK, SubstitutedOnce
<1>5. CASE UNCHANGED vars
  BY <1>5 DEF vars, SubBytesInv, TypeOK, SubstitutedOnce, NothingBeyond
<1> QED BY <1>1, <1>2, <1>3, <1>4, <1>5 DEF Next

\* arch::sub_bytes puts every byte of its slice through the table exactly once,
\* on every backend and for every length and content.
THEOREM EveryByteSubstituted == Spec => []SubstitutedOnce
<1>1. SubBytesInv => SubstitutedOnce
  BY DEF SubBytesInv
<1> QED BY SubBytesStart, SubBytesStep, <1>1, PTL DEF Spec

\* And no backend touches a byte after the slice.
THEOREM MemoryAfterUntouched == Spec => []NothingBeyond
<1>1. SubBytesInv => NothingBeyond
  BY DEF SubBytesInv
<1> QED BY SubBytesStart, SubBytesStep, <1>1, PTL DEF Spec

-----------------------------------------------------------------------------
\* The cipher round in registers.

\* The portable state rotated, and then substituted.
Turned == Rotated(word)
Boxed == [i \in Lane |-> SBOX[Turned[i]]]

\* What the register holds before each part of a round.
RegisterInv ==
  /\ backend \in RoundKernels /\ word \in [Lane -> Byte] /\ rounds \in Nat
  /\ part \in {"rotate", "substitute", "fold", "key"}
  /\ part # "rotate" => rounds # 0
  /\ part = "rotate" => reg = Both(word)
  /\ part = "substitute" => reg = Both(Turned)
  /\ part = "fold" => reg = [l \in {0, 1} |-> IF l = 0 THEN [i \in Lane |-> EvenRows[Turned[i]]]
                                            ELSE [i \in Lane |-> OddRows[Turned[i]]]]
  /\ part = "key" => reg = Both(Boxed)

\* The rotation by seven bits, byte by byte.
LEMMA TurnedType == word \in [Lane -> Byte] => Turned \in [Lane -> Byte]
<1> SUFFICES ASSUME word \in [Lane -> Byte], NEW i \in Lane
             PROVE  (word[i] \div 128) + ((2 * word[(i + 1) % 16]) % 256) \in Byte
  BY DEF Turned, Rotated
<1>1. (i + 1) % 16 \in Lane
  BY DEF Lane
<1>2. word[i] \in 0 .. 255 /\ word[(i + 1) % 16] \in 0 .. 255
  BY <1>1 DEF Byte
<1> QED BY <1>2 DEF Byte

\* Shifts of the two halves and the exchange of the halves make that rotation.
LEMMA HalvesRotate ==
  ASSUME NEW x \in [Lane -> Byte], NEW i \in Lane
  PROVE  Or(Down(x)[i], Crossed(Up(x))[i]) = Rotated(x)[i]
<1> DEFINE top == x[i] \div 128
<1> DEFINE next == (2 * x[(i + 1) % 16]) % 256
<1>1. (i + 1) % 16 \in Lane /\ (i + 8) % 16 \in Lane
  BY DEF Lane
<1>2. x[i] \in 0 .. 255 /\ x[(i + 1) % 16] \in 0 .. 255
  BY <1>1 DEF Byte
<1>3. top \in {0, 1} /\ next \in Byte /\ next % 2 = 0 /\ top + next \in Byte
  BY <1>2 DEF Byte
<1>4. Rotated(x)[i] = top + next
  BY DEF Rotated
<1>5. Crossed(Up(x))[i] = Up(x)[(i + 8) % 16]
  BY DEF Crossed
<1>6. CASE i % 8 = 7
  <2>1. ((i + 8) % 16) % 8 = 7 /\ ((i + 8) % 16) - 7 = (i + 1) % 16
    BY <1>6 DEF Lane
  <2>2. Up(x)[(i + 8) % 16] = next
    BY <1>1, <2>1 DEF Up
  <2>3. Down(x)[i] = top + 0
    BY <1>6 DEF Down
  <2>4. Down(x)[i] = top
    BY <1>3, <2>3
  <2> HIDE DEF top, next
  <2> QED BY <1>3, <1>4, <1>5, <2>2, <2>4, OrOfParts
<1>7. CASE i % 8 # 7
  <2>1. ((i + 8) % 16) % 8 # 7 /\ i + 1 = (i + 1) % 16
    BY <1>7 DEF Lane
  <2>2. Up(x)[(i + 8) % 16] = 0
    BY <1>1, <2>1 DEF Up
  <2>3. Down(x)[i] = top + next
    BY <1>7, <2>1 DEF Down
  <2> HIDE DEF top, next
  <2> QED BY <1>3, <1>4, <1>5, <2>2, <2>3, WithZero
<1> QED BY <1>6, <1>7

\* The key of a round is one of the schedule.
LEMMA KeyType ==
  ASSUME rounds \in Nat, rounds # 0
  PROVE  Key \in [Lane -> Byte]
<1>1. Schedule \in Seq([Lane -> Byte]) /\ Schedule # <<>>
  BY VectorAssumption
<1>2. PICK k \in Nat : k = Len(Schedule)
  BY <1>1
<1>3. k # 0
  BY <1>1, <1>2
<1>4. rounds - 1 \in Nat
  OBVIOUS
<1>5. (rounds - 1) % k \in 0 .. k - 1
  BY <1>2, <1>3, <1>4, DivMod
<1>6. ((rounds - 1) % k) + 1 \in 1 .. k
  BY <1>2, <1>5
<1> QED BY <1>1, <1>2, <1>6 DEF Key

\* The portable round is the substituted state with the key in it.
LEMMA RoundOfBoxed ==
  ASSUME word \in [Lane -> Byte], NEW key \in [Lane -> Byte]
  PROVE  /\ PortableRound(word, key) = [i \in Lane |-> Xor(Boxed[i], key[i])]
         /\ PortableRound(word, key) \in [Lane -> Byte]
<1>1. PortableRound(word, key) = [i \in Lane |-> Xor(Boxed[i], key[i])]
  BY DEF PortableRound, Boxed, Turned
<1>2. ASSUME NEW i \in Lane PROVE Xor(Boxed[i], key[i]) \in Byte
  <2>1. Turned[i] \in Byte
    BY TurnedType
  <2>2. SBOX[Turned[i]] \in Byte /\ key[i] \in Byte
    BY <2>1, TableType
  <2> QED BY <2>2, XorType DEF Boxed
<1> QED BY <1>1, <1>2

\* Every part of a round leaves the register as the next expects it.
LEMMA RegisterStep ==
  RegisterInv /\ [RoundsNext]_roundVars => RegisterInv'
<1> SUFFICES ASSUME RegisterInv, [RoundsNext]_roundVars
             PROVE  RegisterInv'
  OBVIOUS
<1>0. Turned \in [Lane -> Byte]
  BY TurnedType DEF RegisterInv
<1>1. CASE Rotate
  <2>1. reg = Both(word) /\ word \in [Lane -> Byte]
    BY <1>1 DEF Rotate, RegisterInv
  <2>2. reg' = [l \in {0, 1} |-> [i \in Lane |-> Or(Down(word)[i], Crossed(Up(word))[i])]]
    BY <1>1, <2>1 DEF Rotate, Both
  <2>3. [i \in Lane |-> Or(Down(word)[i], Crossed(Up(word))[i])]
          = [i \in Lane |-> Turned[i]]
    BY <2>1, HalvesRotate DEF Turned
  <2>4. reg' = Both(Turned)
    BY <1>0, <2>2, <2>3 DEF Both
  <2>5. Turned' = Turned /\ part' = "substitute" /\ rounds' \in Nat /\ rounds' # 0
        /\ UNCHANGED <<backend, word>>
    BY <1>1 DEF Rotate, RegisterInv, Turned, Rotated
  <2> QED BY <2>4, <2>5 DEF RegisterInv, Both
<1>2. CASE SubstitutePaired
  <2>1. reg = Both(Turned)
    BY <1>2 DEF SubstitutePaired, RegisterInv
  <2>2. reg' = [l \in {0, 1} |-> IF l = 0 THEN [i \in Lane |-> EvenRows[Turned[i]]]
                                 ELSE [i \in Lane |-> OddRows[Turned[i]]]]
    <3>2. reg' = [reg EXCEPT ![0] = [i \in Lane |-> EvenRows[reg[0][i]]],
                             ![1] = [i \in Lane |-> OddRows[reg[1][i]]]]
      BY <1>2 DEF SubstitutePaired
    <3>3. reg = [l \in {0, 1} |-> Turned]
      BY <2>1 DEF Both
    <3>4. reg[0] = Turned /\ reg[1] = Turned /\ DOMAIN reg = {0, 1}
      BY <3>3
    <3> DEFINE even == [i \in Lane |-> EvenRows[Turned[i]]]
    <3> DEFINE odd == [i \in Lane |-> OddRows[Turned[i]]]
    <3>5. reg' = [reg EXCEPT ![0] = even, ![1] = odd]
      BY <3>2, <3>4
    <3> HIDE DEF even, odd
    <3>6. reg' = [l \in {0, 1} |-> IF l = 0 THEN even ELSE odd]
      <4> DEFINE first == [reg EXCEPT ![0] = even]
      <4>1. first = [l \in {0, 1} |-> IF l = 0 THEN even ELSE Turned]
        BY <3>3
      <4>2. reg' = [first EXCEPT ![1] = odd]
        BY <3>5
      <4> HIDE DEF first
      <4>3. reg' = [l \in {0, 1} |-> IF l = 1 THEN odd ELSE first[l]]
        BY <4>1, <4>2
      <4> QED BY <4>1, <4>3
    <3> QED BY <3>6 DEF even, odd
  <2>3. Turned' = Turned /\ part' = "fold" /\ UNCHANGED <<backend, word, rounds>> /\ rounds # 0
    BY <1>2 DEF SubstitutePaired, RegisterInv, Turned, Rotated
  <2> QED BY <2>2, <2>3 DEF RegisterInv
<1>3. CASE SubstituteBytes
  <2>1. reg = Both(Turned) /\ backend \in {"Ssse3", "Avx512Vbmi", "Gfni"}
    BY <1>3 DEF SubstituteBytes, RegisterInv
  <2>2. ASSUME NEW b \in Byte PROVE LookedUp(b) = SBOX[b]
    <3>1. AllRows[b] = SBOX[b] /\ Blended[b] = SBOX[b] /\ AffineOfInverse[b] = SBOX[b]
      BY RowsAreTable, BlendIsTable, GfniAssumption
    <3> QED BY <2>1, <3>1 DEF LookedUp
  <2>3. reg' = [l \in {0, 1} |-> [i \in Lane |-> LookedUp(Turned[i])]]
    BY <1>3, <2>1 DEF SubstituteBytes, Both
  <2>4. reg' = Both(Boxed)
    BY <1>0, <2>2, <2>3 DEF Both, Boxed
  <2>5. Boxed' = Boxed /\ part' = "key" /\ UNCHANGED <<backend, word, rounds>> /\ rounds # 0
    BY <1>3 DEF SubstituteBytes, RegisterInv, Boxed, Turned, Rotated
  <2> QED BY <2>4, <2>5 DEF RegisterInv, Both
<1>4. CASE SubstituteAndMix
  <2>1. reg = Both(Turned) /\ word \in [Lane -> Byte] /\ rounds \in Nat /\ rounds # 0
    BY <1>4 DEF SubstituteAndMix, RegisterInv
  <2>2. Key \in [Lane -> Byte]
    BY <2>1, KeyType
  <2>3. reg' = Both(SubstituteXor(Turned, Key))
    BY <1>4, <2>1 DEF SubstituteAndMix, Both
  <2>4. SubstituteXor(Turned, Key) = [i \in Lane |-> Xor(Boxed[i], Key[i])]
    <3>1. \A i \in Lane : SubstituteXor(Turned, Key)[i] = Xor(SBOX[Turned[i]], Key[i])
      BY <1>0, ShiftsCancel
    <3>2. SubstituteXor(Turned, Key) = [i \in Lane |-> SubstituteXor(Turned, Key)[i]]
      BY DEF SubstituteXor, Aesenclast
    <3> QED BY <3>1, <3>2 DEF Boxed
  <2>5. word' = PortableRound(word, Key)
    BY <1>4 DEF SubstituteAndMix
  <2>6. reg' = Both(word') /\ word' \in [Lane -> Byte]
    BY <2>1, <2>2, <2>3, <2>4, <2>5, RoundOfBoxed
  <2>7. part' = "rotate" /\ UNCHANGED <<backend, rounds>>
    BY <1>4 DEF SubstituteAndMix
  <2> QED BY <2>1, <2>6, <2>7 DEF RegisterInv, Both
<1>5. CASE Fold
  <2>1. reg = [l \in {0, 1} |-> IF l = 0 THEN [i \in Lane |-> EvenRows[Turned[i]]]
                                ELSE [i \in Lane |-> OddRows[Turned[i]]]]
    BY <1>5 DEF Fold, RegisterInv
  <2>2. reg' = Both([i \in Lane |-> Or(EvenRows[Turned[i]], OddRows[Turned[i]])])
    BY <1>5, <2>1 DEF Fold
  <2>3. [i \in Lane |-> Or(EvenRows[Turned[i]], OddRows[Turned[i]])] = Boxed
    BY <1>0, RowsAreTable DEF Boxed
  <2>4. Boxed' = Boxed /\ part' = "key" /\ UNCHANGED <<backend, word, rounds>> /\ rounds # 0
    BY <1>5 DEF Fold, RegisterInv, Boxed, Turned, Rotated
  <2> QED BY <2>2, <2>3, <2>4 DEF RegisterInv, Both
<1>6. CASE MixKey
  <2>1. reg = Both(Boxed) /\ word \in [Lane -> Byte] /\ rounds \in Nat /\ rounds # 0
    BY <1>6 DEF MixKey, RegisterInv
  <2>2. Key \in [Lane -> Byte]
    BY <2>1, KeyType
  <2>3. reg' = Both([i \in Lane |-> Xor(Boxed[i], Key[i])])
    BY <1>6, <2>1 DEF MixKey, Both
  <2>4. word' = PortableRound(word, Key)
    BY <1>6 DEF MixKey
  <2>5. reg' = Both(word') /\ word' \in [Lane -> Byte]
    BY <2>1, <2>2, <2>3, <2>4, RoundOfBoxed
  <2>6. part' = "rotate" /\ UNCHANGED <<backend, rounds>>
    BY <1>6 DEF MixKey
  <2> QED BY <2>1, <2>5, <2>6 DEF RegisterInv, Both
<1>7. CASE UNCHANGED roundVars
  <2>1. UNCHANGED <<backend, reg, part, rounds, word>>
    BY <1>7 DEF roundVars
  <2>2. Turned' = Turned /\ Boxed' = Boxed
    BY <2>1 DEF Turned, Rotated, Boxed
  <2> QED BY <2>1, <2>2 DEF RegisterInv, Both
<1> QED BY <1>1, <1>2, <1>3, <1>4, <1>5, <1>6, <1>7 DEF RoundsNext

\* After every round on every backend both lanes hold the portable state: the
\* rotation by halves, the rows parted between the lanes, the row shift undone and
\* the key absorbed by aesenclast, for every schedule and any number of rounds.
THEOREM RegistersKeepUp == RoundsSpec => []LanesInStep
<1>1. RoundsInit => RegisterInv
  BY VectorAssumption DEF RoundsInit, RegisterInv
<1>2. RegisterInv /\ [RoundsNext]_roundVars => RegisterInv'
  BY RegisterStep
<1>3. RegisterInv => LanesInStep
  BY DEF RegisterInv, LanesInStep
<1> QED BY <1>1, <1>2, <1>3, PTL DEF RoundsSpec

-----------------------------------------------------------------------------
\* arch::xor_into.

\* The two pointers and the count never part.
PointersAgree == d = s /\ d + left = n

PairsInv == XorTypeOK /\ PointersAgree /\ CombinedOnce

\* What one store of w bytes at the pointers does to memory.
LEMMA StoreCombines ==
  ASSUME PairsInv, NEW w \in 0 .. left,
         dst' = Combined(w), d' = d + w, UNCHANGED <<src, original>>
  PROVE  /\ dst' \in [Slots -> Bytes]
         /\ \A a \in Slots :
              dst'[a] = IF a < d' THEN XorB[<<original'[a], src'[a]>>] ELSE original'[a]
<1> USE WidthAssumption DEF PairsInv, XorTypeOK, PointersAgree
<1>1. n \in Nat /\ d \in Nat /\ w \in Nat /\ d + w <= n /\ n <= Size /\ Size \in Nat
  OBVIOUS
<1>2. ASSUME NEW a \in Slots
      PROVE  /\ dst'[a] \in Bytes
             /\ dst'[a] = IF a < d + w THEN XorB[<<original[a], src[a]>>] ELSE original[a]
  <2>1. a \in Nat /\ a < Size
    BY <1>1, <1>2 DEF Slots
  <2>2. CASE a \in d .. d + w - 1
    <3>1. s + (a - d) = a
      BY <1>1, <2>1
    <3>2. dst'[a] = XorB[<<dst[a], src[a]>>]
      BY <1>2, <2>2, <3>1 DEF Combined
    <3>3. a < d + w /\ ~ (a < d)
      BY <1>1, <2>1, <2>2
    <3>4. dst[a] = original[a]
      <4>1. dst[a] = IF a < d THEN XorB[<<original[a], src[a]>>] ELSE original[a]
        BY <1>2 DEF CombinedOnce
      <4> QED BY <3>3, <4>1
    <3>5. XorB[<<dst[a], src[a]>>] \in Bytes
      BY <1>2
    <3> QED BY <3>2, <3>3, <3>4, <3>5
  <2>3. CASE a \notin d .. d + w - 1
    <3>1. dst'[a] = dst[a]
      BY <1>2, <2>3 DEF Combined
    <3>2. a < d + w <=> a < d
      BY <1>1, <2>1, <2>3
    <3> QED BY <1>2, <3>1, <3>2 DEF CombinedOnce
  <2> QED BY <2>2, <2>3
<1>3. dst' \in [Slots -> Bytes]
  BY <1>2 DEF Combined
<1> QED BY <1>2, <1>3

\* Before the loops nothing has been combined.
LEMMA PairsStart == XorInit => PairsInv
<1> SUFFICES ASSUME XorInit PROVE PairsInv
  OBVIOUS
<1> USE WidthAssumption
<1>1. PICK dlen, slen \in 0 .. Size : n = Overlap(dlen, slen)
  BY DEF XorInit
<1>2. n \in 0 .. Size
  BY <1>1 DEF Overlap
<1>3. XorTypeOK /\ PointersAgree
  BY <1>2 DEF XorInit, XorTypeOK, PointersAgree
<1>4. CombinedOnce
  BY DEF XorInit, CombinedOnce, Slots
<1> QED BY <1>3, <1>4 DEF PairsInv

\* Each turn of the three loops preserves the invariant.
LEMMA PairsStep == PairsInv /\ [XorNext]_xorVars => PairsInv'
<1> SUFFICES ASSUME PairsInv, [XorNext]_xorVars PROVE PairsInv'
  OBVIOUS
<1> USE WidthAssumption
<1>1. CASE WideStep
  <2>1. Wide \in 0 .. left
    BY <1>1 DEF PairsInv, XorTypeOK, WideStep
  <2>2. /\ dst' \in [Slots -> Bytes]
        /\ \A a \in Slots :
             dst'[a] = IF a < d' THEN XorB[<<original'[a], src'[a]>>] ELSE original'[a]
    BY <1>1, <2>1, StoreCombines DEF WideStep
  <2> QED BY <1>1, <2>1, <2>2 DEF PairsInv, XorTypeOK, PointersAgree, CombinedOnce, WideStep
<1>2. CASE WideEnd
  BY <1>2 DEF PairsInv, XorTypeOK, PointersAgree, CombinedOnce, WideEnd
<1>3. CASE NarrowStep
  <2>1. Narrow \in 0 .. left
    BY <1>3 DEF PairsInv, XorTypeOK, NarrowStep
  <2>2. /\ dst' \in [Slots -> Bytes]
        /\ \A a \in Slots :
             dst'[a] = IF a < d' THEN XorB[<<original'[a], src'[a]>>] ELSE original'[a]
    BY <1>3, <2>1, StoreCombines DEF NarrowStep
  <2> QED BY <1>3, <2>1, <2>2 DEF PairsInv, XorTypeOK, PointersAgree, CombinedOnce, NarrowStep
<1>4. CASE NarrowEnd
  BY <1>4 DEF PairsInv, XorTypeOK, PointersAgree, CombinedOnce, NarrowEnd
<1>5. CASE Rest
  <2>1. left \in 0 .. left
    BY DEF PairsInv, XorTypeOK
  <2>2. /\ dst' \in [Slots -> Bytes]
        /\ \A a \in Slots :
             dst'[a] = IF a < d' THEN XorB[<<original'[a], src'[a]>>] ELSE original'[a]
    BY <1>5, <2>1, StoreCombines DEF Rest
  <2> QED BY <1>5, <2>1, <2>2 DEF PairsInv, XorTypeOK, PointersAgree, CombinedOnce, Rest
<1>6. CASE UNCHANGED xorVars
  BY <1>6 DEF PairsInv, XorTypeOK, PointersAgree, CombinedOnce, xorVars
<1> QED BY <1>1, <1>2, <1>3, <1>4, <1>5, <1>6 DEF XorNext

\* Every byte of the overlap is combined once, with its own source byte, and no
\* other byte of memory changes: xor_into_avx2, xor_into_sse2 and the portable loop.
THEOREM EveryByteOnce == XorSpec => []CombinedOnce
<1>1. XorInit => PairsInv
  BY PairsStart
<1>2. PairsInv /\ [XorNext]_xorVars => PairsInv'
  BY PairsStep
<1>3. PairsInv => CombinedOnce
  BY DEF PairsInv
<1> QED BY <1>1, <1>2, <1>3, PTL DEF XorSpec
=============================================================================
