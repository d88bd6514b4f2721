---------------------------- MODULE SboxKernels ----------------------------
(***************************************************************************)
(* The S-box of sbox.rs and the five ways arch/x86_64 has of computing it  *)
(* in vector registers.  A register is a function from the numbers of its  *)
(* bytes to bytes; what an instruction does is modelled from the use the   *)
(* code makes of it.  Everything here is at the code's real size.          *)
(***************************************************************************)
EXTENDS Integers, Sequences

Byte == 0 .. 255
Lane == 0 .. 15

SboxTable == <<
     99, 124, 119, 123, 242, 107, 111, 197,  48,   1, 103,  43, 254, 215, 171, 118,
    202, 130, 201, 125, 250,  89,  71, 240, 173, 212, 162, 175, 156, 164, 114, 192,
    183, 253, 147,  38,  54,  63, 247, 204,  52, 165, 229, 241, 113, 216,  49,  21,
      4, 199,  35, 195,  24, 150,   5, 154,   7,  18, 128, 226, 235,  39, 178, 117,
      9, 131,  44,  26,  27, 110,  90, 160,  82,  59, 214, 179,  41, 227,  47, 132,
     83, 209,   0, 237,  32, 252, 177,  91, 106, 203, 190,  57,  74,  76,  88, 207,
    208, 239, 170, 251,  67,  77,  51, 133,  69, 249,   2, 127,  80,  60, 159, 168,
     81, 163,  64, 143, 146, 157,  56, 245, 188, 182, 218,  33,  16, 255, 243, 210,
    205,  12,  19, 236,  95, 151,  68,  23, 196, 167, 126,  61, 100,  93,  25, 115,
     96, 129,  79, 220,  34,  42, 144, 136,  70, 238, 184,  20, 222,  94,  11, 219,
    224,  50,  58,  10,  73,   6,  36,  92, 194, 211, 172,  98, 145, 149, 228, 121,
    231, 200,  55, 109, 141, 213,  78, 169, 108,  86, 244, 234, 101, 122, 174,   8,
    186, 120,  37,  46,  28, 166, 180, 198, 232, 221, 116,  31,  75, 189, 139, 138,
    112,  62, 181, 102,  72,   3, 246,  14,  97,  53,  87, 185, 134, 193,  29, 158,
    225, 248, 152,  17, 105, 217, 142, 148, 155,  30, 135, 233, 206,  85,  40, 223,
    140, 161, 137,  13, 191, 230,  66, 104,  65, 153,  45,  15, 176,  84, 187,  22 >>

SBOX == [b \in Byte |-> SboxTable[b + 1]]

Bit(b, i) == (b \div 2 ^ i) % 2

\* The byte with the bits f[0] to f[7].
FromBits(f) ==
  f[0] + 2 * f[1] + 4 * f[2] + 8 * f[3] + 16 * f[4] + 32 * f[5] + 64 * f[6] + 128 * f[7]

Or(a, b) == FromBits([i \in 0 .. 7 |-> IF Bit(a, i) + Bit(b, i) = 0 THEN 0 ELSE 1])
Xor(a, b) == FromBits([i \in 0 .. 7 |-> (Bit(a, i) + Bit(b, i)) % 2])
And(a, b) == FromBits([i \in 0 .. 7 |-> Bit(a, i) * Bit(b, i)])
Parity(b) == (Bit(b, 0) + Bit(b, 1) + Bit(b, 2) + Bit(b, 3)
                + Bit(b, 4) + Bit(b, 5) + Bit(b, 6) + Bit(b, 7)) % 2

\* The OR of f[0] to f[n - 1], which the code takes as a tree.
Merged(f, n) ==
  LET or[k \in 0 .. n] == IF k = 0 THEN 0 ELSE Or(or[k - 1], f[k - 1])
  IN or[n]

-----------------------------------------------------------------------------
\* SSSE3 and AVX2: a row of sixteen entries at a time, by pshufb.

PSHUFB_BIAS == 112

\* Mutant of AddSaturating: the addition wraps.
AddWrapping(a, b) == (a + b) % 256

\* paddusb.
AddSaturating(a, b) == IF a + b > 255 THEN 255 ELSE a + b

\* pshufb for one index: its low nibble picks, and its high bit zeroes.
Pshufb(table, index) == IF index >= 128 THEN 0 ELSE table[index % 16]

Row(r) == [j \in Lane |-> SBOX[16 * r + j]]

\* The row! macro: what row r contributes for the byte x.
RowHit(r, x) == Pshufb(Row(r), AddSaturating((x - 16 * r) % 256, PSHUFB_BIAS))

\* All sixteen rows of a byte, merged by OR.  The two lanes of
\* sub_bytes_x32_avx2 hold the same row, so it does the same to each byte.
AllRows == [x \in Byte |-> Merged([r \in 0 .. 15 |-> RowHit(r, x)], 16)]

\* sub_bytes_paired_avx2: the rows 2p in the low lane, 2p + 1 in the high one.
EvenRows == [x \in Byte |-> Merged([p \in 0 .. 7 |-> RowHit(2 * p, x)], 8)]
OddRows == [x \in Byte |-> Merged([p \in 0 .. 7 |-> RowHit(2 * p + 1, x)], 8)]

-----------------------------------------------------------------------------
\* AVX-512 VBMI: two tables of 128 entries, and a blend on the index's high bit.

Vpermi2b(base, index) == SBOX[base + (index % 128)]

Blended ==
  [x \in Byte |-> IF x >= 128 THEN Vpermi2b(128, x) ELSE Vpermi2b(0, x)]

-----------------------------------------------------------------------------
\* GFNI: inversion modulo x^8 + x^4 + x^3 + x + 1, then an affine map.

Doubled(b) == IF b >= 128 THEN Xor(2 * b - 256, 27) ELSE 2 * b

Times(a, b) ==
  LET sum[i \in 0 .. 8] ==
        IF i = 8 THEN 0 ELSE Xor(Doubled(sum[i + 1]), a * Bit(b, i))
  IN sum[0]

GfInverse(x) == IF x = 0 THEN 0 ELSE CHOOSE y \in Byte : Times(x, y) = 1

\* The bytes of GFNI_SBOX_MATRIX, most significant first: row i gives bit i.
GFNI_SBOX_MATRIX == <<241, 227, 199, 143, 31, 62, 124, 248>>
GFNI_SBOX_CONST == 99

Affine(b) ==
  Xor(FromBits([i \in 0 .. 7 |-> Parity(And(b, GFNI_SBOX_MATRIX[i + 1]))]),
      GFNI_SBOX_CONST)

AffineOfInverse == [x \in Byte |-> Affine(GfInverse(x))]

\* The instruction with this matrix and this constant is the table: TLC
\* evaluates all 256 inverses, and the proofs take it from there.
ASSUME GfniAssumption == AffineOfInverse = SBOX

-----------------------------------------------------------------------------
\* AES-NI: aesenclast has a permutation of the bytes built in.

\* Mutant of INV_SHIFT_ROWS: ShiftRows itself in place of its inverse.
SHIFT_ROWS == <<0, 5, 10, 15, 4, 9, 14, 3, 8, 13, 2, 7, 12, 1, 6, 11>>

INV_SHIFT_ROWS == <<0, 13, 10, 7, 4, 1, 14, 11, 8, 5, 2, 15, 12, 9, 6, 3>>

\* aesenclast: row i % 4 of the column-major state rotates left by i % 4
\* columns, every byte is substituted, and the key comes in.
Aesenclast(x, key) ==
  [i \in Lane |-> Xor(SBOX[x[(i % 4) + 4 * (((i \div 4) + (i % 4)) % 4)]], key[i])]

\* sub_bytes_xor_x16_aesni.
SubstituteXor(x, key) == Aesenclast([i \in Lane |-> x[INV_SHIFT_ROWS[i + 1]]], key)

Zero == [i \in Lane |-> 0]
=============================================================================
