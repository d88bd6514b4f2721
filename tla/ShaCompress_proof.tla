------------------------- MODULE ShaCompress_proof -------------------------
(***************************************************************************)
(* The register pipeline of sha256_compress_shani computes what the        *)
(* portable loops compute, for bytes of any width, any functions in place  *)
(* of the standard's, any initial state and any number of blocks.          *)
(***************************************************************************)
EXTENDS ShaCompress, NumberFacts, SequenceTheorems, TLAPS

State8 == [0 .. 7 -> Word]

\* Zero is a word.
LEMMA ZeroIsWord == 0 \in Word
<1>1. \A a, b \in Nat \ {0} : a * b \in Nat \ {0}
  BY Z3
<1>2. Radix * Radix \in Nat \ {0} /\ Radix \in Nat \ {0}
  BY <1>1, WordAssumption
<1>3. Radix * (Radix * Radix) \in Nat \ {0}
  BY <1>1, <1>2
<1>4. M \in Nat \ {0}
  BY <1>1, <1>2, <1>3, WordAssumption
<1> QED BY <1>4 DEF Word

\* Addition of words stays a word, and the order of its operands is free: the
\* pipeline adds the round constant to the word, the loop the word to it.
LEMMA PlusWord ==
  ASSUME NEW a \in Word, NEW b \in Word
  PROVE  Plus(a, b) \in Word /\ Plus(a, b) = Plus(b, a)
<1>1. a + b \in Nat /\ a + b = b + a /\ M \in Nat \ {0}
  BY WordAssumption DEF Word
<1>2. (a + b) % M \in 0 .. M - 1
  BY <1>1, DivMod
<1> QED BY <1>1, <1>2 DEF Plus, Word

\* A round makes words of words.
LEMMA RoundType ==
  ASSUME NEW v \in State8, NEW kw \in Word
  PROVE  RoundOf(v, kw) \in State8
<1> DEFINE ch == Ch[<<v[4], v[5], v[6]>>]
<1> DEFINE maj == Maj[<<v[0], v[1], v[2]>>]
<1>1. \A k \in 0 .. 7 : v[k] \in Word
  BY DEF State8
<1>2. ch \in Word /\ maj \in Word /\ Sigma0[v[0]] \in Word /\ Sigma1[v[4]] \in Word
  BY <1>1, WordAssumption
<1> HIDE DEF ch, maj
<1> DEFINE temp1 == Plus(Plus(Plus(v[7], Sigma1[v[4]]), ch), kw)
<1> DEFINE temp2 == Plus(Sigma0[v[0]], maj)
<1>3. temp1 \in Word /\ temp2 \in Word
  BY <1>1, <1>2, PlusWord
<1> HIDE DEF temp1, temp2
<1>4. Plus(temp1, temp2) \in Word /\ Plus(v[3], temp1) \in Word
  BY <1>1, <1>3, PlusWord
<1>5. RoundOf(v, kw) = [k \in 0 .. 7 |-> CASE k = 0 -> Plus(temp1, temp2)
                                           [] k = 4 -> Plus(v[3], temp1)
                                           [] OTHER -> v[k - 1]]
  BY DEF RoundOf, temp1, temp2, ch, maj
<1> QED BY <1>1, <1>4, <1>5 DEF State8

\* The loads and the transposition put a to h where Unpacked finds them.
LEMMA TransposedUnpacks ==
  ASSUME NEW v \in State8
  PROVE  /\ Transposed(v)[1] \in Register /\ Transposed(v)[2] \in Register
         /\ Unpacked(Transposed(v)[1], Transposed(v)[2]) = v
  BY DEF Transposed, Unpacked, Shuffle, Align, Blend, State8, Register, Dword

\* The transposition on the way out reads them from the same places.
LEMMA RestoredUnpacks ==
  ASSUME NEW abef \in Register, NEW cdgh \in Register
  PROVE  Restored(abef, cdgh) = Unpacked(abef, cdgh)
  BY DEF Restored, Unpacked, Shuffle, Align, Blend, Register, Dword

\* Adding the saved registers adds the saved a to h.
LEMMA AddUnpacks ==
  ASSUME NEW a \in Register, NEW b \in Register, NEW c \in Register, NEW d \in Register
  PROVE  \A k \in 0 .. 7 :
           Unpacked(Add4(a, c), Add4(b, d))[k] = Plus(Unpacked(a, b)[k], Unpacked(c, d)[k])
  BY DEF Unpacked, Add4, Dword

\* sha256rnds2 returns half of the new a to h; the other half is the old ABEF,
\* which is why the two registers only change names.
LEMMA TwoRounds ==
  ASSUME NEW abef \in Register, NEW cdgh \in Register, NEW msg
  PROVE  Unpacked(Sha256rnds2(cdgh, abef, msg), abef)
           = RoundOf(RoundOf(Unpacked(abef, cdgh), msg[0]), msg[1])
<1> DEFINE v == Unpacked(abef, cdgh)
<1> DEFINE v1 == RoundOf(v, msg[0])
<1> DEFINE v2 == RoundOf(v1, msg[1])
<1>1. v[0] = abef[3] /\ v[1] = abef[2] /\ v[4] = abef[1] /\ v[5] = abef[0]
  BY DEF Unpacked
<1> HIDE DEF v
<1>2. v1[1] = v[0] /\ v1[2] = v[1] /\ v1[5] = v[4] /\ v1[6] = v[5]
  BY DEF RoundOf
<1> HIDE DEF v1
<1>3. /\ v2[2] = v1[1] /\ v2[3] = v1[2] /\ v2[6] = v1[5] /\ v2[7] = v1[6]
      /\ v2 = [k \in 0 .. 7 |-> v2[k]]
  BY DEF RoundOf
<1> HIDE DEF v2
<1>4. Sha256rnds2(cdgh, abef, msg) = Abef(v2)
  BY DEF Sha256rnds2, v, v1, v2
<1>5. Unpacked(Abef(v2), abef) = v2
  BY <1>1, <1>2, <1>3 DEF Unpacked, Abef, Dword
<1> QED BY <1>4, <1>5 DEF v, v1, v2

-----------------------------------------------------------------------------
\* The schedule as far as the portable loop has made it, and the rounds.
ScheduleUpTo(n) ==
  \A k \in 16 .. n - 1 :
    w[k] = Plus(Plus(Plus(w[k - 16], sigma0[w[k - 15]]), w[k - 7]), sigma1[w[k - 2]])

RoundsUpTo(n) ==
  \A k \in 0 .. n - 1 : work[k + 1] = RoundOf(work[k], Plus(SHA256_K[k], w[k]))

TypeInv ==
  /\ blocks \in Seq(Block)
  /\ pc \in {"block", "schedule", "rounds", "load", "groups", "done"}
  /\ w \in [0 .. 63 -> Word] /\ i \in 0 .. 64
  /\ work \in [0 .. 64 -> State8]
  /\ state \in State8
  /\ m \in [Dword -> Register]
  /\ state0 \in Register /\ state1 \in Register
  /\ saved \in Register \X Register
  /\ group \in 0 .. 16

\* A word of a block as the standard reads it.
WordOf(block, k) ==
  FromBeBytes(block[4 * k], block[4 * k + 1], block[4 * k + 2], block[4 * k + 3])

\* What the portable loops have made of the block under way.
PortableInv ==
  /\ pc \in {"schedule", "rounds", "load", "groups"} =>
       blocks # <<>> /\ \A k \in 0 .. 15 : w[k] = WordOf(Head(blocks), k)
  /\ pc = "schedule" => i >= 16 /\ ScheduleUpTo(i)
  /\ pc \in {"rounds", "load", "groups"} => ScheduleUpTo(64)
  /\ pc = "rounds" => work[0] = state /\ RoundsUpTo(i)
  /\ pc \in {"load", "groups"} =>
       /\ RoundsUpTo(64)
       /\ state = [k \in 0 .. 7 |-> Plus(work[0][k], work[64][k])]

\* The register of quartet q holds its four words ...
Ready(q) == \A d \in Dword : m[q % 4][d] = w[4 * q + d]

\* ... or what Sha256msg1 leaves of them for Finished to complete.
Begun(q) ==
  \A d \in Dword : m[q % 4][d] = Plus(w[4 * q + d - 16], sigma0[w[4 * q + d - 15]])

\* Before a group: its own quartet and the last one are ready, as are the rest
\* of the words loaded from the block, and the next two of the schedule begun.
Quartets ==
  /\ \A q \in 0 .. 15 : q \in group - 1 .. group => Ready(q)
  /\ \A q \in 0 .. 3 : q > group => Ready(q)
  /\ \A q \in 4 .. 15 : q \in group + 1 .. group + 2 => Begun(q)

\* Where the pipeline stands against the portable loops.
PipelineInv ==
  /\ pc \in {"block", "schedule", "rounds"} => Unpacked(state0, state1) = state
  /\ pc = "load" => Unpacked(state0, state1) = work[0]
  /\ pc = "groups" =>
       /\ Unpacked(saved[1], saved[2]) = work[0]
       /\ Unpacked(state0, state1) = work[4 * group]
       /\ Quartets
  /\ pc = "done" => out = state

IInv == TypeInv /\ PortableInv /\ PipelineInv

\* Registers of words hold a to h as words.
LEMMA UnpackedType ==
  ASSUME NEW abef \in Register, NEW cdgh \in Register
  PROVE  Unpacked(abef, cdgh) \in State8
  BY DEF Unpacked, Register, Dword, State8

\* The instructions of the pipeline make registers of registers.
LEMMA InstructionTypes ==
  ASSUME NEW a \in Register, NEW b \in Register
  PROVE  /\ Add4(a, b) \in Register
         /\ Sha256msg1(a, b) \in Register
         /\ Sha256msg2(a, b) \in Register
         /\ Align(a, b, 1) \in Register
         /\ a[0] \in Word /\ a[1] \in Word
         /\ HighPair(a) \in Register /\ HighPair(a)[0] = a[2] /\ HighPair(a)[1] = a[3]
<1>1. \A d \in Dword : a[d] \in Word /\ b[d] \in Word
  BY DEF Register
<1>2. \A x \in Word : sigma0[x] \in Word /\ sigma1[x] \in Word
  BY WordAssumption
<1>3. Add4(a, b) \in Register
  BY <1>1, PlusWord DEF Add4, Register
<1>4. Sha256msg1(a, b) \in Register
  <2>1. ASSUME NEW d \in Dword
        PROVE  Plus(a[d], sigma0[IF d < 3 THEN a[d + 1] ELSE b[0]]) \in Word
    <3>1. (IF d < 3 THEN a[d + 1] ELSE b[0]) \in Word
      BY <1>1 DEF Dword
    <3> QED BY <1>1, <1>2, <3>1, PlusWord
  <2> QED BY <2>1 DEF Sha256msg1, Register
<1>5. Sha256msg2(a, b) \in Register
  <2> DEFINE w16 == Plus(a[0], sigma1[b[2]])
  <2> DEFINE w17 == Plus(a[1], sigma1[b[3]])
  <2>1. w16 \in Word /\ w17 \in Word
    BY <1>1, <1>2, PlusWord DEF Dword
  <2> HIDE DEF w16, w17
  <2>2. Plus(a[2], sigma1[w16]) \in Word /\ Plus(a[3], sigma1[w17]) \in Word
    BY <1>1, <1>2, <2>1, PlusWord DEF Dword
  <2>3. Sha256msg2(a, b) = [d \in Dword |-> CASE d = 0 -> w16 [] d = 1 -> w17
                                              [] d = 2 -> Plus(a[2], sigma1[w16])
                                              [] d = 3 -> Plus(a[3], sigma1[w17])]
    BY DEF Sha256msg2, w16, w17
  <2> QED BY <2>1, <2>2, <2>3 DEF Register, Dword
<1>6. Align(a, b, 1) \in Register
  BY <1>1 DEF Align, Register, Dword
<1>7. HighPair(a) \in Register /\ HighPair(a)[0] = a[2] /\ HighPair(a)[1] = a[3]
  BY <1>1 DEF HighPair, Shuffle, Register, Dword
<1> QED BY <1>1, <1>3, <1>4, <1>5, <1>6, <1>7 DEF Dword

\* Sha256msg1 begins the quartet four ahead in the register of the one before.
LEMMA BeginQuartet ==
  ASSUME NEW q \in 0 .. 11, Ready(q), Ready(q + 1)
  PROVE  \A d \in Dword :
           Sha256msg1(m[q % 4], m[(q + 1) % 4])[d]
             = Plus(w[4 * (q + 4) + d - 16], sigma0[w[4 * (q + 4) + d - 15]])
<1> SUFFICES ASSUME NEW d \in Dword
             PROVE  Sha256msg1(m[q % 4], m[(q + 1) % 4])[d]
                      = Plus(w[4 * (q + 4) + d - 16], sigma0[w[4 * (q + 4) + d - 15]])
  OBVIOUS
<1>1. m[q % 4][d] = w[4 * (q + 4) + d - 16]
  <2>1. 4 * (q + 4) + d - 16 = 4 * q + d
    BY DEF Dword
  <2> QED BY <2>1 DEF Ready
<1>2. (IF d < 3 THEN m[q % 4][d + 1] ELSE m[(q + 1) % 4][0]) = w[4 * (q + 4) + d - 15]
  <2>1. CASE d < 3
    <3>1. d + 1 \in Dword /\ 4 * q + (d + 1) = 4 * (q + 4) + d - 15
      BY <2>1 DEF Dword
    <3> QED BY <2>1, <3>1 DEF Ready
  <2>2. CASE d = 3
    <3>1. 0 \in Dword /\ 4 * (q + 1) + 0 = 4 * (q + 4) + d - 15
      BY <2>2 DEF Dword
    <3> QED BY <2>2, <3>1 DEF Ready
  <2> QED BY <2>1, <2>2 DEF Dword
<1> QED BY <1>1, <1>2 DEF Sha256msg1

\* Finished makes of a quartet begun, and the two before it, the words the
\* portable schedule has; the last two depend on the first two.
LEMMA FinishQuartet ==
  ASSUME TypeInv, ScheduleUpTo(64), NEW q \in 4 .. 15,
         Ready(q - 1), Ready(q - 2), Begun(q)
  PROVE  \A d \in Dword :
           Finished(m[(q - 1) % 4], m[q % 4], m[(q - 2) % 4])[d] = w[4 * q + d]
<1> DEFINE cur == m[(q - 1) % 4]
<1> DEFINE next == m[q % 4]
<1> DEFINE prev == m[(q - 2) % 4]
<1> DEFINE a == Add4(next, Align(cur, prev, 1))
<1>1. \A d \in Dword : cur[d] = w[4 * (q - 1) + d] /\ prev[d] = w[4 * (q - 2) + d]
  BY DEF Ready
<1>2. \A d \in Dword : next[d] = Plus(w[4 * q + d - 16], sigma0[w[4 * q + d - 15]])
  BY DEF Begun
<1> HIDE DEF cur, next, prev
<1>3. ASSUME NEW d \in Dword PROVE Align(cur, prev, 1)[d] = w[4 * q + d - 7]
  <2>1. CASE d < 3
    <3>1. d + 1 \in Dword /\ 4 * (q - 2) + (d + 1) = 4 * q + d - 7
      BY <2>1 DEF Dword
    <3> QED BY <1>1, <2>1, <3>1 DEF Align, Dword
  <2>2. CASE d = 3
    <3>1. 0 \in Dword /\ 4 * (q - 1) + 0 = 4 * q + d - 7
      BY <2>2 DEF Dword
    <3> QED BY <1>1, <2>2, <3>1 DEF Align, Dword
  <2> QED BY <2>1, <2>2 DEF Dword
<1>4. \A d \in Dword :
        a[d] = Plus(Plus(w[4 * q + d - 16], sigma0[w[4 * q + d - 15]]), w[4 * q + d - 7])
  BY <1>2, <1>3 DEF Add4
<1> HIDE DEF a
<1>5. ASSUME NEW d \in Dword PROVE w[4 * q + d] = Plus(a[d], sigma1[w[4 * q + d - 2]])
  <2> DEFINE k == 4 * q + d
  <2>1. k \in 16 .. 64 - 1
    BY DEF Dword
  <2>2. a[d] = Plus(Plus(w[k - 16], sigma0[w[k - 15]]), w[k - 7])
    BY <1>4 DEF Dword
  <2> HIDE DEF k
  <2>3. w[k] = Plus(a[d], sigma1[w[k - 2]])
    BY <2>1, <2>2 DEF ScheduleUpTo
  <2> QED BY <2>3 DEF k, Dword
<1>6. /\ cur[2] = w[4 * q + 0 - 2] /\ cur[3] = w[4 * q + 1 - 2]
      /\ w[4 * q + 0] = w[4 * q + 2 - 2] /\ w[4 * q + 1] = w[4 * q + 3 - 2]
  <2>1. /\ 4 * (q - 1) + 2 = 4 * q + 0 - 2 /\ 4 * (q - 1) + 3 = 4 * q + 1 - 2
        /\ 4 * q + 0 = 4 * q + 2 - 2 /\ 4 * q + 1 = 4 * q + 3 - 2
    OBVIOUS
  <2> QED BY <1>1, <2>1 DEF Dword
<1>7. \A d \in Dword : Sha256msg2(a, cur)[d] = w[4 * q + d]
  <2> DEFINE w16 == Plus(a[0], sigma1[cur[2]])
  <2> DEFINE w17 == Plus(a[1], sigma1[cur[3]])
  <2>1. w16 = w[4 * q + 0] /\ w17 = w[4 * q + 1]
    BY <1>5, <1>6 DEF Dword
  <2> HIDE DEF w16, w17
  <2>2. Plus(a[2], sigma1[w16]) = w[4 * q + 2] /\ Plus(a[3], sigma1[w17]) = w[4 * q + 3]
    BY <1>5, <1>6, <2>1 DEF Dword
  <2>3. Sha256msg2(a, cur) = [d \in Dword |-> CASE d = 0 -> w16 [] d = 1 -> w17
                                                [] d = 2 -> Plus(a[2], sigma1[w16])
                                                [] d = 3 -> Plus(a[3], sigma1[w17])]
    BY DEF Sha256msg2, w16, w17
  <2> QED BY <2>1, <2>2, <2>3 DEF Dword
<1> QED BY <1>7 DEF Finished, a, cur, next, prev

-----------------------------------------------------------------------------
\* Both functions start from the same state, which the registers hold.
LEMMA Start == Init => IInv
<1> SUFFICES ASSUME Init PROVE IInv
  OBVIOUS
<1>1. state \in State8 /\ blocks \in Seq(Block)
  BY InputAssumption DEF Init, State8
<1>2. 0 \in Word
  BY ZeroIsWord
<1>3. /\ state0 \in Register /\ state1 \in Register
      /\ Unpacked(state0, state1) = state
  BY <1>1, TransposedUnpacks DEF Init
<1>4. /\ w \in [0 .. 63 -> Word] /\ work \in [0 .. 64 -> State8]
      /\ m \in [Dword -> Register]
  BY <1>2 DEF Init, Zeros, State8, Register
<1>5. TypeInv
  <2>1. saved \in Register \X Register /\ i \in 0 .. 64 /\ group \in 0 .. 16
    BY <1>3 DEF Init
  <2>2. pc = "block"
    BY DEF Init
  <2> QED BY <1>1, <1>3, <1>4, <2>1, <2>2 DEF TypeInv
<1>6. PortableInv /\ PipelineInv
  BY <1>3 DEF Init, PortableInv, PipelineInv
<1> QED BY <1>5, <1>6 DEF IInv

\* A turn of the schedule loop adds a word and disturbs none before it.
LEMMA ExtendScheduleStep == IInv /\ ExtendSchedule => IInv'
<1> SUFFICES ASSUME IInv, ExtendSchedule PROVE IInv'
  OBVIOUS
<1> DEFINE new == Plus(Plus(Plus(w[i - 16], sigma0[w[i - 15]]), w[i - 7]), sigma1[w[i - 2]])
<1>0. /\ TypeInv /\ i \in 16 .. 63 /\ ScheduleUpTo(i)
      /\ w' = [w EXCEPT ![i] = new] /\ i' = i + 1
      /\ UNCHANGED <<blocks, pc, work, state, m, state0, state1, saved, group, out>>
      /\ pc = "schedule"
  <2>1. TypeInv /\ PortableInv /\ i \in 0 .. 64
    BY DEF IInv, TypeInv
  <2>2. i < 64 /\ pc = "schedule"
    BY DEF ExtendSchedule
  <2>3. i >= 16 /\ ScheduleUpTo(i)
    BY <2>1, <2>2 DEF PortableInv
  <2>4. i \in 16 .. 63
    BY <2>1, <2>2, <2>3
  <2> QED BY <2>1, <2>2, <2>3, <2>4 DEF ExtendSchedule, shani
<1>1. new \in Word
  <2>0. w \in [0 .. 63 -> Word]
    BY <1>0 DEF TypeInv
  <2>1. /\ w[i - 16] \in Word /\ w[i - 15] \in Word /\ w[i - 7] \in Word /\ w[i - 2] \in Word
    BY <1>0, <2>0
  <2>2. sigma0[w[i - 15]] \in Word /\ sigma1[w[i - 2]] \in Word
    BY <2>1, WordAssumption
  <2>3. Plus(w[i - 16], sigma0[w[i - 15]]) \in Word
    BY <2>1, <2>2, PlusWord
  <2>4. Plus(Plus(w[i - 16], sigma0[w[i - 15]]), w[i - 7]) \in Word
    BY <2>1, <2>3, PlusWord
  <2> QED BY <2>2, <2>4, PlusWord
<1>2. \A k \in 0 .. 63 : w'[k] = IF k = i THEN new ELSE w[k]
  BY <1>0 DEF TypeInv
<1>3. TypeInv'
  <2> HIDE DEF new
  <2>1. w \in [0 .. 63 -> Word] /\ i' \in 0 .. 64
    BY <1>0 DEF TypeInv
  <2>2. w' \in [0 .. 63 -> Word]
    BY <1>0, <1>1, <2>1
  <2> QED BY <1>0, <2>1, <2>2 DEF TypeInv
<1>4. ScheduleUpTo(i)'
  <2> SUFFICES ASSUME NEW k \in 16 .. i
               PROVE  w'[k] = Plus(Plus(Plus(w'[k - 16], sigma0[w'[k - 15]]), w'[k - 7]),
                                   sigma1[w'[k - 2]])
    BY <1>0 DEF ScheduleUpTo
  <2>1. /\ w'[k - 16] = w[k - 16] /\ w'[k - 15] = w[k - 15]
        /\ w'[k - 7] = w[k - 7] /\ w'[k - 2] = w[k - 2]
    BY <1>0, <1>2
  <2>2. CASE k = i
    BY <1>0, <1>2, <2>1, <2>2
  <2>3. CASE k # i
    <3>1. k \in 16 .. i - 1 /\ w'[k] = w[k]
      BY <1>0, <1>2, <2>3
    <3> QED BY <1>0, <2>1, <3>1 DEF ScheduleUpTo
  <2> QED BY <2>2, <2>3
<1>5. PortableInv'
  <2>1. blocks # <<>> /\ \A k \in 0 .. 15 : w[k] = WordOf(Head(blocks), k)
    BY <1>0 DEF IInv, PortableInv
  <2>2. \A k \in 0 .. 15 : w'[k] = w[k]
    BY <1>0, <1>2
  <2> QED BY <1>0, <1>4, <2>1, <2>2 DEF PortableInv
<1>6. PipelineInv'
  BY <1>0 DEF IInv, PipelineInv
<1> QED BY <1>3, <1>5, <1>6 DEF IInv

\* A turn of the round loop adds one state of a to h and disturbs none before.
LEMMA PortableRoundStep == IInv /\ PortableRound => IInv'
<1> SUFFICES ASSUME IInv, PortableRound PROVE IInv'
  OBVIOUS
<1> DEFINE new == RoundOf(work[i], Plus(SHA256_K[i], w[i]))
<1>0. /\ TypeInv /\ i \in 0 .. 63 /\ RoundsUpTo(i) /\ work[0] = state /\ ScheduleUpTo(64)
      /\ work' = [work EXCEPT ![i + 1] = new] /\ i' = i + 1
      /\ UNCHANGED <<blocks, pc, w, state, m, state0, state1, saved, group, out>>
      /\ pc = "rounds"
  <2>1. TypeInv /\ PortableInv /\ i \in 0 .. 64
    BY DEF IInv, TypeInv
  <2>2. i < 64 /\ pc = "rounds"
    BY DEF PortableRound
  <2>3. i \in 0 .. 63
    BY <2>1, <2>2
  <2> QED BY <2>1, <2>2, <2>3 DEF PortableInv, PortableRound, shani
<1>1. new \in State8
  <2>1. work[i] \in State8 /\ w[i] \in Word /\ SHA256_K[i] \in Word
    BY <1>0, WordAssumption DEF TypeInv
  <2> QED BY <2>1, PlusWord, RoundType
<1>2. \A k \in 0 .. 64 : work'[k] = IF k = i + 1 THEN new ELSE work[k]
  BY <1>0 DEF TypeInv
<1>3. TypeInv'
  <2> HIDE DEF new
  <2>1. work \in [0 .. 64 -> State8] /\ i' \in 0 .. 64
    BY <1>0 DEF TypeInv
  <2>2. work' \in [0 .. 64 -> State8]
    BY <1>0, <1>1, <2>1
  <2> QED BY <1>0, <2>1, <2>2 DEF TypeInv
<1>4. RoundsUpTo(i)'
  <2> SUFFICES ASSUME NEW k \in 0 .. i
               PROVE  work'[k + 1] = RoundOf(work'[k], Plus(SHA256_K[k], w[k]))
    BY <1>0 DEF RoundsUpTo
  <2>1. work'[k] = work[k]
    BY <1>0, <1>2
  <2>2. CASE k = i
    BY <1>0, <1>2, <2>1, <2>2
  <2>3. CASE k # i
    <3>1. k \in 0 .. i - 1 /\ work'[k + 1] = work[k + 1]
      BY <1>0, <1>2, <2>3
    <3> QED BY <1>0, <2>1, <3>1 DEF RoundsUpTo
  <2> QED BY <2>2, <2>3
<1>5. PortableInv'
  <2>1. work'[0] = work[0] /\ ScheduleUpTo(64)'
    BY <1>0, <1>2 DEF ScheduleUpTo
  <2> QED BY <1>0, <1>4, <2>1 DEF IInv, PortableInv
<1>6. PipelineInv'
  BY <1>0 DEF IInv, PipelineInv
<1> QED BY <1>3, <1>5, <1>6 DEF IInv

\* A group of the pipeline is four rounds of the loop.
LEMMA GroupRounds ==
  ASSUME IInv, pc = "groups", group < 16, NEW msg \in Register, NEW second, NEW first,
         \A d \in Dword : msg[d] = Plus(m[group % 4][d], SHA256_K[4 * group + d]),
         second = Sha256rnds2(state1, state0, msg),
         first = Sha256rnds2(state0, second, HighPair(msg))
  PROVE  /\ second \in Register /\ first \in Register
         /\ Unpacked(first, second) = work[4 * (group + 1)]
<1> DEFINE r == 4 * group
<1>0. /\ group \in 0 .. 15 /\ r \in 0 .. 60
      /\ state0 \in Register /\ state1 \in Register
      /\ w \in [0 .. 63 -> Word] /\ work \in [0 .. 64 -> State8]
  BY DEF IInv, TypeInv
<1>1. RoundsUpTo(64) /\ Unpacked(state0, state1) = work[r] /\ Ready(group)
  <2>1. RoundsUpTo(64) /\ Unpacked(state0, state1) = work[4 * group] /\ Quartets
    BY DEF IInv, PortableInv, PipelineInv
  <2>2. group \in group - 1 .. group
    BY <1>0
  <2> QED BY <1>0, <2>1, <2>2 DEF Quartets
<1>2. ASSUME NEW d \in Dword PROVE msg[d] = Plus(SHA256_K[r + d], w[r + d])
  <2>1. r + d \in 0 .. 63
    BY <1>0 DEF Dword
  <2>2. SHA256_K[r + d] \in Word /\ w[r + d] \in Word
    BY <1>0, <2>1, WordAssumption
  <2> QED BY <1>1, <2>2, PlusWord DEF Ready
<1>3. \A v \in State8, kw \in Word :
        Abef(RoundOf(v, kw)) \in Register /\ RoundOf(v, kw) \in State8
  BY RoundType DEF Abef, Register, State8, Dword
<1>4. \A d \in Dword : msg[d] \in Word
  BY DEF Register
<1>5. \A a, b \in Register, x \in Register :
        Sha256rnds2(b, a, x) \in Register
  <2> SUFFICES ASSUME NEW a \in Register, NEW b \in Register, NEW x \in Register
               PROVE  Sha256rnds2(b, a, x) \in Register
    OBVIOUS
  <2>1. Unpacked(a, b) \in State8 /\ x[0] \in Word /\ x[1] \in Word
    BY UnpackedType, InstructionTypes
  <2> QED BY <1>3, <2>1 DEF Sha256rnds2
<1>6. second \in Register /\ HighPair(msg) \in Register
  BY <1>0, <1>5, InstructionTypes
<1>7. first \in Register
  BY <1>0, <1>5, <1>6
<1>8. Unpacked(second, state0) = RoundOf(RoundOf(work[r], msg[0]), msg[1])
  BY <1>0, <1>1, TwoRounds
<1>9. Unpacked(first, second) = RoundOf(RoundOf(Unpacked(second, state0), msg[2]), msg[3])
  <2>1. first = Sha256rnds2(state0, second, HighPair(msg))
    OBVIOUS
  <2>2. HighPair(msg)[0] = msg[2] /\ HighPair(msg)[1] = msg[3]
    BY InstructionTypes
  <2> QED BY <1>0, <1>6, <2>1, <2>2, TwoRounds
<1>10. \A d \in Dword : work[r + d + 1] = RoundOf(work[r + d], msg[d])
  <2> SUFFICES ASSUME NEW d \in Dword PROVE work[r + d + 1] = RoundOf(work[r + d], msg[d])
    OBVIOUS
  <2>1. r + d \in 0 .. 64 - 1
    BY <1>0 DEF Dword
  <2> QED BY <1>1, <1>2, <2>1 DEF RoundsUpTo
<1> HIDE DEF r
<1>11. /\ work[r + 1] = RoundOf(work[r], msg[0]) /\ work[r + 2] = RoundOf(work[r + 1], msg[1])
       /\ work[r + 3] = RoundOf(work[r + 2], msg[2]) /\ work[r + 4] = RoundOf(work[r + 3], msg[3])
  <2>1. r + 0 = r /\ r + 0 + 1 = r + 1 /\ r + 1 + 1 = r + 2 /\ r + 2 + 1 = r + 3 /\ r + 3 + 1 = r + 4
    BY <1>0
  <2> QED BY <1>10, <2>1 DEF Dword
<1>12. 4 * (group + 1) = r + 4
  BY <1>0 DEF r
<1> QED BY <1>6, <1>7, <1>8, <1>9, <1>11, <1>12

\* After a group the quartets are where the next group needs them.
LEMMA GroupQuartets ==
  ASSUME IInv, FourRounds
  PROVE  m' \in [Dword -> Register] /\ Quartets'
<1> DEFINE cur == group % 4
<1> DEFINE next == (group + 1) % 4
<1> DEFINE prev == (group + 3) % 4
<1>0. /\ TypeInv /\ group \in 0 .. 15 /\ group' = group + 1 /\ w' = w
      /\ ScheduleUpTo(64) /\ Quartets
  <2>1. TypeInv /\ group \in 0 .. 16 /\ pc = "groups" /\ group < 16
    BY DEF IInv, TypeInv, FourRounds
  <2>2. ScheduleUpTo(64) /\ Quartets
    BY <2>1 DEF IInv, PortableInv, PipelineInv
  <2> QED BY <2>1, <2>2 DEF FourRounds, portable
<1>1. /\ cur \in Dword /\ next \in Dword /\ prev \in Dword
      /\ cur # next /\ cur # prev /\ next # prev
  BY <1>0 DEF Dword
<1> DEFINE finished == IF group \in 3 .. 14 THEN Finished(m[cur], m[next], m[prev]) ELSE m[next]
<1> DEFINE begun == IF group \in 1 .. 12 THEN Sha256msg1(m[prev], m[cur]) ELSE m[prev]
<1>2. m \in [Dword -> Register]
  BY <1>0 DEF TypeInv
<1>3. m' = [m EXCEPT ![next] = finished, ![prev] = begun]
  BY <1>1, <1>2 DEF FourRounds
<1>4. finished \in Register /\ begun \in Register
  BY <1>1, <1>2, InstructionTypes DEF Finished
<1> HIDE DEF finished, begun
<1>5. /\ m' \in [Dword -> Register]
      /\ m'[next] = finished /\ m'[prev] = begun
      /\ \A q \in Dword \ {next, prev} : m'[q] = m[q]
  BY <1>1, <1>2, <1>3, <1>4
<1>6. ASSUME NEW q \in 0 .. 15, q \in group .. group + 1 PROVE Ready(q)'
  <2>1. CASE q = group
    <3>1. m'[cur] = m[cur] /\ Ready(group)
      <4>1. group \in group - 1 .. group
        BY <1>0
      <4> QED BY <1>0, <1>1, <1>5, <4>1 DEF Quartets
    <3> QED BY <1>0, <2>1, <3>1 DEF Ready
  <2>2. CASE q = group + 1 /\ group < 3
    <3>1. m'[next] = m[next]
      BY <1>0, <1>5, <2>2 DEF finished
    <3>2. Ready(q)
      BY <1>0, <2>2 DEF Quartets
    <3> QED BY <1>0, <2>2, <3>1, <3>2 DEF Ready
  <2>3. CASE q = group + 1 /\ group >= 3
    <3>1. /\ q \in 4 .. 15 /\ group \in 3 .. 14 /\ q - 1 = group /\ q - 2 = group - 1
          /\ q - 1 \in 0 .. 15 /\ q - 2 \in 0 .. 15
          /\ (q - 1) % 4 = cur /\ q % 4 = next /\ (q - 2) % 4 = prev
      BY <1>0, <2>3
    <3>2. Ready(q - 1) /\ Ready(q - 2) /\ Begun(q)
      <4>1. q - 1 \in group - 1 .. group /\ q - 2 \in group - 1 .. group /\ q \in group + 1 .. group + 2
        BY <1>0, <2>3
      <4> QED BY <1>0, <3>1, <4>1 DEF Quartets
    <3>3. \A d \in Dword : Finished(m[cur], m[next], m[prev])[d] = w[4 * q + d]
      BY <1>0, <3>1, <3>2, FinishQuartet
    <3>4. m'[q % 4] = Finished(m[cur], m[next], m[prev])
      BY <1>5, <3>1 DEF finished
    <3> QED BY <1>0, <3>3, <3>4 DEF Ready
  <2> QED BY <1>0, <1>6, <2>1, <2>2, <2>3
<1>7. ASSUME NEW q \in 0 .. 3, q > group + 1 PROVE Ready(q)'
  <2>1. Ready(q)
    BY <1>0, <1>7 DEF Quartets
  <2>2. q % 4 \in Dword /\ m'[q % 4] = m[q % 4]
    <3>1. CASE q = group + 2
      <4>1. q % 4 \in Dword \ {next, prev}
        BY <1>0, <3>1 DEF Dword
      <4> QED BY <1>5, <4>1
    <3>2. CASE q # group + 2
      <4>1. group = 0 /\ q % 4 = prev
        BY <1>0, <1>7, <3>2
      <4>2. begun = m[prev]
        BY <4>1 DEF begun
      <4> QED BY <1>1, <1>5, <4>1, <4>2
    <3> QED BY <3>1, <3>2
  <2> QED BY <1>0, <2>1, <2>2 DEF Ready
<1>8. ASSUME NEW q \in 4 .. 15, q \in group + 2 .. group + 3 PROVE Begun(q)'
  <2>1. CASE q = group + 2
    <3>1. Begun(q) /\ q % 4 \in Dword \ {next, prev}
      <4>1. q \in group + 1 .. group + 2
        BY <1>0, <2>1
      <4> QED BY <1>0, <2>1, <4>1 DEF Quartets, Dword
    <3>2. m'[q % 4] = m[q % 4]
      BY <1>5, <3>1
    <3> QED BY <1>0, <3>1, <3>2 DEF Begun
  <2>2. CASE q = group + 3
    <3> DEFINE p == group - 1
    <3>1. /\ p \in 0 .. 11 /\ p + 1 = group /\ p + 4 = q /\ group \in 1 .. 12
          /\ p % 4 = prev /\ (p + 1) % 4 = cur /\ q % 4 = prev
      BY <1>0, <2>2
    <3>2. Ready(p) /\ Ready(p + 1)
      <4>1. p \in group - 1 .. group /\ p + 1 \in group - 1 .. group /\ p \in 0 .. 15 /\ p + 1 \in 0 .. 15
        BY <1>0, <3>1
      <4> QED BY <1>0, <4>1 DEF Quartets
    <3> HIDE DEF p
    <3>3. \A d \in Dword : Sha256msg1(m[prev], m[cur])[d]
                             = Plus(w[4 * q + d - 16], sigma0[w[4 * q + d - 15]])
      BY <3>1, <3>2, BeginQuartet
    <3>4. m'[q % 4] = Sha256msg1(m[prev], m[cur])
      BY <1>5, <3>1 DEF begun
    <3> QED BY <1>0, <3>3, <3>4 DEF Begun
  <2> QED BY <1>0, <1>8, <2>1, <2>2
<1>9. Quartets'
  <2>1. group' - 1 = group
    BY <1>0
  <2>2. group' + 1 = group + 2 /\ group' + 2 = group + 3
    BY <1>0
  <2> QED BY <1>0, <1>6, <1>7, <1>8, <2>1, <2>2 DEF Quartets
<1> QED BY <1>5, <1>9

\* A group keeps the pipeline in step.
LEMMA FourRoundsStep == IInv /\ FourRounds => IInv'
<1> SUFFICES ASSUME IInv, FourRounds PROVE IInv'
  OBVIOUS
<1>0. /\ TypeInv /\ PortableInv /\ PipelineInv /\ group \in 0 .. 15 /\ pc = "groups"
      /\ group' = group + 1
      /\ UNCHANGED <<blocks, pc, w, i, work, state, saved, out>>
  <2>1. TypeInv /\ PortableInv /\ PipelineInv /\ group \in 0 .. 16
    BY DEF IInv, TypeInv
  <2>2. /\ pc = "groups" /\ group < 16 /\ group' = group + 1
        /\ UNCHANGED <<blocks, pc, w, i, work, state, saved, out>>
    BY DEF FourRounds, portable
  <2> QED BY <2>1, <2>2
<1> DEFINE msg == [d \in Dword |-> Plus(m[group % 4][d], SHA256_K[4 * group + d])]
<1>1. msg \in Register
  <2>1. ASSUME NEW d \in Dword PROVE Plus(m[group % 4][d], SHA256_K[4 * group + d]) \in Word
    <3>1. group % 4 \in Dword /\ 4 * group + d \in 0 .. 63
      BY <1>0 DEF Dword
    <3>2. m[group % 4] \in Register
      BY <1>0, <3>1 DEF TypeInv
    <3>3. m[group % 4][d] \in Word /\ SHA256_K[4 * group + d] \in Word
      BY <3>1, <3>2, WordAssumption DEF Register
    <3> QED BY <3>3, PlusWord
  <2> QED BY <2>1 DEF Register
<1>2. \A d \in Dword : msg[d] = Plus(m[group % 4][d], SHA256_K[4 * group + d])
  OBVIOUS
<1>3. /\ state1' = Sha256rnds2(state1, state0, msg)
      /\ state0' = Sha256rnds2(state0, state1', HighPair(msg))
  BY DEF FourRounds
<1> HIDE DEF msg
<1>4. state1' \in Register /\ state0' \in Register
      /\ Unpacked(state0', state1') = work[4 * (group + 1)]
  BY <1>0, <1>1, <1>2, <1>3, GroupRounds
<1>5. m' \in [Dword -> Register] /\ Quartets'
  BY GroupQuartets
<1>6. TypeInv'
  <2>1. group' \in 0 .. 16
    BY <1>0
  <2> QED BY <1>0, <1>4, <1>5, <2>1 DEF TypeInv
<1>7. PortableInv'
  BY <1>0 DEF PortableInv, ScheduleUpTo, RoundsUpTo
<1>8. PipelineInv'
  BY <1>0, <1>4, <1>5 DEF PipelineInv
<1> QED BY <1>6, <1>7, <1>8 DEF IInv

\* Four bytes make a word.
LEMMA WordOfType ==
  ASSUME NEW block \in Block, NEW k \in 0 .. 15
  PROVE  WordOf(block, k) \in Word
<1>1. /\ block[4 * k] \in Byte /\ block[4 * k + 1] \in Byte
      /\ block[4 * k + 2] \in Byte /\ block[4 * k + 3] \in Byte
  BY DEF Block
<1> DEFINE R == Radix
<1> DEFINE RR == R * R
<1> DEFINE RRR == R * RR
<1>2. R \in Nat \ {0}
  BY WordAssumption
<1>3. ASSUME NEW a \in Nat \ {0}, NEW b \in Nat \ {0} PROVE a * b \in Nat \ {0}
  BY Z3
<1> HIDE DEF R
<1>4. RR \in Nat \ {0}
  BY <1>2, <1>3
<1> HIDE DEF RR
<1>5. RRR \in Nat \ {0}
  BY <1>2, <1>3, <1>4
<1> HIDE DEF RRR
<1>6. PICK a, b, c, d \in 0 .. R - 1 :
        a = block[4 * k] /\ b = block[4 * k + 1] /\ c = block[4 * k + 2] /\ d = block[4 * k + 3]
  BY <1>1 DEF Byte, R
<1>7. a * R + b \in 0 .. RR - 1
  BY <1>2, <1>6, TwoDigits DEF RR
<1>8. (a * R + b) * R + c \in 0 .. RRR - 1
  BY <1>2, <1>4, <1>6, <1>7, TwoDigits DEF RRR
<1>9. ((a * R + b) * R + c) * R + d \in 0 .. (R * RRR) - 1
  BY <1>2, <1>5, <1>6, <1>8, TwoDigits
<1>10. M = R * RRR
  BY WordAssumption DEF R, RR, RRR
<1>11. WordOf(block, k) = ((a * R + b) * R + c) * R + d
  BY <1>6 DEF WordOf, FromBeBytes, R
<1> QED BY <1>9, <1>10, <1>11 DEF Word

\* The swap of the bytes makes of the little-endian loads the words that the
\* portable loop reads big-endian.
LEMMA SwappedLoad ==
  ASSUME NEW block, NEW q \in Dword, NEW d \in Dword
  PROVE  Dwords(ShuffleBytes([c \in 0 .. 15 |-> block[16 * q + c]], ByteSwap))[d]
           = WordOf(block, 4 * q + d)
<1> DEFINE loaded == [c \in 0 .. 15 |-> block[16 * q + c]]
<1> DEFINE swapped == ShuffleBytes(loaded, ByteSwap)
<1>1. \A c \in 0 .. 15 : swapped[c] = loaded[ByteSwap[c + 1]]
  BY DEF ShuffleBytes
<1>2. /\ ByteSwap[4 * d + 3 + 1] = 4 * d /\ ByteSwap[4 * d + 2 + 1] = 4 * d + 1
      /\ ByteSwap[4 * d + 1 + 1] = 4 * d + 2 /\ ByteSwap[4 * d + 1] = 4 * d + 3
  BY DEF ByteSwap, Dword
<1>3. /\ 4 * d \in 0 .. 15 /\ 4 * d + 1 \in 0 .. 15
      /\ 4 * d + 2 \in 0 .. 15 /\ 4 * d + 3 \in 0 .. 15
  BY DEF Dword
<1>4. \A c \in 0 .. 15 : loaded[c] = block[16 * q + c]
  OBVIOUS
<1> HIDE DEF loaded, swapped
<1>5. /\ swapped[4 * d + 3] = block[16 * q + (4 * d)]
      /\ swapped[4 * d + 2] = block[16 * q + (4 * d + 1)]
      /\ swapped[4 * d + 1] = block[16 * q + (4 * d + 2)]
      /\ swapped[4 * d] = block[16 * q + (4 * d + 3)]
  BY <1>1, <1>2, <1>3, <1>4
<1>6. /\ 16 * q + (4 * d) = 4 * (4 * q + d) /\ 16 * q + (4 * d + 1) = 4 * (4 * q + d) + 1
      /\ 16 * q + (4 * d + 2) = 4 * (4 * q + d) + 2 /\ 16 * q + (4 * d + 3) = 4 * (4 * q + d) + 3
  BY DEF Dword
<1>7. Dwords(swapped)[d]
        = FromBeBytes(swapped[4 * d + 3], swapped[4 * d + 2], swapped[4 * d + 1], swapped[4 * d])
  BY DEF Dwords, FromBeBytes
<1> QED BY <1>5, <1>6, <1>7 DEF WordOf, swapped, loaded

\* The block's words become the first four quartets.
LEMMA LoadRegistersStep == IInv /\ LoadRegisters => IInv'
<1> SUFFICES ASSUME IInv, LoadRegisters PROVE IInv'
  OBVIOUS
<1>0. /\ TypeInv /\ PortableInv /\ PipelineInv /\ pc = "load" /\ pc' = "groups" /\ group' = 0
      /\ saved' = <<state0, state1>>
      /\ m' = [q \in Dword |->
                 Dwords(ShuffleBytes([c \in 0 .. 15 |-> Head(blocks)[16 * q + c]], ByteSwap))]
      /\ UNCHANGED <<blocks, w, i, work, state, state0, state1, out>>
  BY DEF IInv, LoadRegisters, portable
<1>1. /\ \A k \in 0 .. 15 : w[k] = WordOf(Head(blocks), k)
      /\ w \in [0 .. 63 -> Word]
  BY <1>0 DEF PortableInv, TypeInv
<1>2. \A q, d \in Dword : m'[q][d] = w[4 * q + d] /\ m'[q][d] \in Word
  <2> SUFFICES ASSUME NEW q \in Dword, NEW d \in Dword
               PROVE  m'[q][d] = w[4 * q + d] /\ m'[q][d] \in Word
    OBVIOUS
  <2>1. 4 * q + d \in 0 .. 15
    BY DEF Dword
  <2>2. m'[q][d] = WordOf(Head(blocks), 4 * q + d)
    BY <1>0, SwappedLoad
  <2> QED BY <1>1, <2>1, <2>2
<1>3. m' \in [Dword -> Register]
  <2>1. ASSUME NEW q \in Dword PROVE m'[q] = [d \in Dword |-> m'[q][d]]
    BY <1>0 DEF Dwords
  <2>2. \A q \in Dword : m'[q] \in Register
    BY <1>2, <2>1 DEF Register
  <2> QED BY <1>0, <2>2
<1>4. \A q \in 0 .. 3 : Ready(q)'
  <2> SUFFICES ASSUME NEW q \in 0 .. 3, NEW d \in Dword
               PROVE  m'[q % 4][d] = w[4 * q + d]
    BY <1>0 DEF Ready
  <2>1. q \in Dword /\ q % 4 = q
    BY DEF Dword
  <2> QED BY <1>2, <2>1
<1>5. Quartets'
  <2>1. \A q \in 0 .. 15 : q \in 0 - 1 .. 0 => q \in 0 .. 3
    OBVIOUS
  <2>2. \A q \in 4 .. 15 : q \notin 0 + 1 .. 0 + 2
    OBVIOUS
  <2> QED BY <1>0, <1>4, <2>1, <2>2 DEF Quartets
<1>6. TypeInv'
  <2>1. saved' \in Register \X Register /\ group' \in 0 .. 16
    BY <1>0 DEF TypeInv
  <2> QED BY <1>0, <1>3, <2>1 DEF TypeInv
<1>7. PortableInv'
  BY <1>0 DEF PortableInv, ScheduleUpTo, RoundsUpTo
<1>8. PipelineInv'
  <2>1. saved'[1] = state0 /\ saved'[2] = state1 /\ 4 * group' = 0
    BY <1>0
  <2> QED BY <1>0, <1>5, <2>1 DEF PipelineInv
<1> QED BY <1>6, <1>7, <1>8 DEF IInv

\* Adding the saved registers is adding the saved state.
LEMMA FeedForwardStep == IInv /\ FeedForward => IInv'
<1> SUFFICES ASSUME IInv, FeedForward PROVE IInv'
  OBVIOUS
<1>0. /\ TypeInv /\ PortableInv /\ PipelineInv /\ pc = "groups" /\ group = 16 /\ pc' = "block"
      /\ state0' = Add4(state0, saved[1]) /\ state1' = Add4(state1, saved[2])
      /\ blocks' = Tail(blocks)
      /\ UNCHANGED <<w, i, work, state, m, saved, group, out>>
  BY DEF IInv, FeedForward, portable
<1>1. /\ state0 \in Register /\ state1 \in Register
      /\ saved[1] \in Register /\ saved[2] \in Register
      /\ work \in [0 .. 64 -> State8]
  BY <1>0 DEF TypeInv
<1>2. /\ Unpacked(saved[1], saved[2]) = work[0]
      /\ Unpacked(state0, state1) = work[64]
      /\ state = [k \in 0 .. 7 |-> Plus(work[0][k], work[64][k])]
      /\ blocks # <<>>
  <2>1. 4 * group = 64
    BY <1>0
  <2> QED BY <1>0, <2>1 DEF PortableInv, PipelineInv
<1>3. Unpacked(state0', state1') = [k \in 0 .. 7 |-> Plus(work[64][k], work[0][k])]
  <2>1. \A k \in 0 .. 7 :
          Unpacked(Add4(state0, saved[1]), Add4(state1, saved[2]))[k]
            = Plus(Unpacked(state0, state1)[k], Unpacked(saved[1], saved[2])[k])
    BY <1>1, AddUnpacks
  <2>2. Unpacked(state0', state1') \in State8
    BY <1>0, <1>1, InstructionTypes, UnpackedType
  <2> QED BY <1>0, <1>2, <2>1, <2>2 DEF State8
<1>4. \A k \in 0 .. 7 : Plus(work[64][k], work[0][k]) = Plus(work[0][k], work[64][k])
  BY <1>1, PlusWord DEF State8
<1>5. Unpacked(state0', state1') = state
  BY <1>2, <1>3, <1>4
<1>6. TypeInv'
  <2>1. state0' \in Register /\ state1' \in Register
    BY <1>0, <1>1, InstructionTypes
  <2>2. blocks' \in Seq(Block)
    BY <1>0, <1>2, HeadTailProperties DEF TypeInv
  <2> QED BY <1>0, <2>1, <2>2 DEF TypeInv
<1>7. PortableInv'
  BY <1>0 DEF PortableInv
<1>8. PipelineInv'
  BY <1>0, <1>5 DEF PipelineInv
<1> QED BY <1>6, <1>7, <1>8 DEF IInv

\* The steps between the loops.
LEMMA OtherSteps ==
  IInv /\ (LoadPortable \/ BeginRounds \/ PortableFeedForward \/ StoreState) => IInv'
<1> SUFFICES ASSUME IInv PROVE (LoadPortable \/ BeginRounds \/ PortableFeedForward \/ StoreState) => IInv'
  OBVIOUS
<1>0. TypeInv /\ PortableInv /\ PipelineInv
  BY DEF IInv
<1>1. ASSUME LoadPortable PROVE IInv'
  <2>1. /\ pc = "block" /\ blocks # <<>> /\ pc' = "schedule" /\ i' = 16
        /\ w' = [k \in 0 .. 63 |-> IF k < 16 THEN WordOf(Head(blocks), k) ELSE 0]
        /\ UNCHANGED <<blocks, work, state, m, state0, state1, saved, group, out>>
    BY <1>1 DEF LoadPortable, WordOf, shani
  <2> DEFINE block == Head(blocks)
  <2>2. block \in Block /\ 0 \in Word
    <3>1. blocks \in Seq(Block)
      BY <1>0 DEF TypeInv
    <3>2. block \in Block
      BY <2>1, <3>1, HeadTailProperties
    <3>3. 0 \in Word
      BY ZeroIsWord
    <3> QED BY <3>2, <3>3
  <2>3. w' \in [0 .. 63 -> Word] /\ \A k \in 0 .. 15 : w'[k] = WordOf(Head(blocks), k)
    <3>1. w' = [k \in 0 .. 63 |-> IF k < 16 THEN WordOf(block, k) ELSE 0]
      BY <2>1
    <3> HIDE DEF block
    <3>2. ASSUME NEW k \in 0 .. 63 PROVE (IF k < 16 THEN WordOf(block, k) ELSE 0) \in Word
      <4>1. CASE k < 16
        <5>1. k \in 0 .. 15
          BY <4>1
        <5> QED BY <2>2, <4>1, <5>1, WordOfType
      <4>2. CASE ~(k < 16)
        BY <2>2, <4>2
      <4> QED BY <4>1, <4>2
    <3>3. \A k \in 0 .. 15 : w'[k] = WordOf(block, k)
      BY <3>1
    <3> QED BY <3>1, <3>2, <3>3 DEF block
  <2>4. TypeInv'
    <3>1. i' \in 0 .. 64
      BY <2>1
    <3> QED BY <1>0, <2>1, <2>3, <3>1 DEF TypeInv
  <2>5. PortableInv'
    <3>1. ScheduleUpTo(16)' /\ 16 >= 16
      BY DEF ScheduleUpTo
    <3> QED BY <2>1, <2>3, <3>1 DEF PortableInv, ScheduleUpTo
  <2>6. PipelineInv'
    BY <1>0, <2>1 DEF PipelineInv
  <2> QED BY <2>4, <2>5, <2>6 DEF IInv
<1>2. ASSUME BeginRounds PROVE IInv'
  <2>1. /\ pc = "schedule" /\ i = 64 /\ pc' = "rounds" /\ i' = 0
        /\ work' = [work EXCEPT ![0] = state]
        /\ UNCHANGED <<blocks, w, state, m, state0, state1, saved, group, out>>
    BY <1>2 DEF BeginRounds, shani
  <2>2. work' \in [0 .. 64 -> State8] /\ work'[0] = state
    <3>1. work \in [0 .. 64 -> State8] /\ state \in State8
      BY <1>0 DEF TypeInv
    <3> QED BY <2>1, <3>1
  <2>3. TypeInv'
    <3>1. i' \in 0 .. 64
      BY <2>1
    <3> QED BY <1>0, <2>1, <2>2, <3>1 DEF TypeInv
  <2>4. PortableInv'
    <3>1. ScheduleUpTo(64)'
      BY <1>0, <2>1 DEF PortableInv, ScheduleUpTo
    <3>2. RoundsUpTo(i)'
      BY <2>1 DEF RoundsUpTo
    <3> QED BY <1>0, <2>1, <2>2, <3>1, <3>2 DEF PortableInv
  <2>5. PipelineInv'
    BY <1>0, <2>1 DEF PipelineInv
  <2> QED BY <2>3, <2>4, <2>5 DEF IInv
<1>3. ASSUME PortableFeedForward PROVE IInv'
  <2>1. /\ pc = "rounds" /\ i = 64 /\ pc' = "load"
        /\ state' = [k \in 0 .. 7 |-> Plus(state[k], work[64][k])]
        /\ UNCHANGED <<blocks, w, i, work, m, state0, state1, saved, group, out>>
    BY <1>3 DEF PortableFeedForward, shani
  <2>2. work[0] = state /\ RoundsUpTo(64) /\ ScheduleUpTo(64)
    BY <1>0, <2>1 DEF PortableInv
  <2>3. state' \in State8
    <3>1. state \in State8 /\ work[64] \in State8
      BY <1>0 DEF TypeInv
    <3>2. \A k \in 0 .. 7 : state[k] \in Word /\ work[64][k] \in Word
      BY <3>1 DEF State8
    <3> QED BY <2>1, <3>2, PlusWord DEF State8
  <2>4. TypeInv'
    BY <1>0, <2>1, <2>3 DEF TypeInv
  <2>5. PortableInv'
    BY <1>0, <2>1, <2>2 DEF PortableInv, ScheduleUpTo, RoundsUpTo
  <2>6. PipelineInv'
    BY <1>0, <2>1, <2>2 DEF PipelineInv
  <2> QED BY <2>4, <2>5, <2>6 DEF IInv
<1>4. ASSUME StoreState PROVE IInv'
  <2>1. /\ pc = "block" /\ pc' = "done" /\ out' = Restored(state0, state1)
        /\ UNCHANGED <<blocks, w, i, work, state, m, state0, state1, saved, group>>
    BY <1>4 DEF StoreState, portable
  <2>2. TypeInv'
    BY <1>0, <2>1 DEF TypeInv
  <2>3. PortableInv'
    BY <2>1 DEF PortableInv
  <2>4. out' = state
    BY <1>0, <2>1, RestoredUnpacks DEF TypeInv, PipelineInv
  <2>5. PipelineInv'
    BY <2>1, <2>4 DEF PipelineInv
  <2> QED BY <2>2, <2>3, <2>5 DEF IInv
<1> QED BY <1>1, <1>2, <1>3, <1>4

\* Every step of either function keeps them in step.
LEMMA Step == IInv /\ [Next]_vars => IInv'
<1>1. IInv /\ UNCHANGED vars => IInv'
  <2> SUFFICES ASSUME IInv, UNCHANGED vars PROVE IInv'
    OBVIOUS
  <2>1. TypeInv' /\ PortableInv'
    BY DEF IInv, vars, TypeInv, PortableInv, ScheduleUpTo, RoundsUpTo
  <2>2. PipelineInv'
    BY DEF IInv, vars, PipelineInv, Quartets, Ready, Begun
  <2> QED BY <2>1, <2>2 DEF IInv
<1> QED BY <1>1, ExtendScheduleStep, PortableRoundStep, FourRoundsStep, LoadRegistersStep,
           FeedForwardStep, OtherSteps DEF Next

\* When a group runs, its register holds the words of the schedule for its
\* rounds, whatever was computed two groups ahead (x86_64/sha.rs:71-153).
THEOREM WordsArriveInTime == Spec => []WordsInTime
<1>1. IInv => WordsInTime
  <2> SUFFICES ASSUME IInv, pc = "groups", group < 16 PROVE Ready(group)
    BY DEF WordsInTime, Ready
  <2>1. Quartets /\ group \in 0 .. 16
    BY DEF IInv, TypeInv, PipelineInv
  <2>2. group \in 0 .. 15 /\ group \in group - 1 .. group
    BY <2>1
  <2> QED BY <2>1, <2>2 DEF Quartets
<1> QED BY <1>1, Start, Step, PTL DEF Spec

\* After every group the two registers hold a to h of the portable loop after
\* as many rounds.
THEOREM RegistersHoldTheRounds == Spec => []WorkingVariables
<1>1. IInv => WorkingVariables
  BY DEF IInv, PipelineInv, WorkingVariables
<1> QED BY <1>1, Start, Step, PTL DEF Spec

\* The two functions compute the same state, block after block, and leave the
\* same one in memory (fallback.rs:98-152, x86_64/sha.rs:42-169).
THEOREM PathsAgree == Spec => []SameState
<1>1. IInv => SameState
  BY DEF IInv, PipelineInv, SameState
<1> QED BY <1>1, Start, Step, PTL DEF Spec
=============================================================================
