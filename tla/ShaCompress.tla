---------------------------- MODULE ShaCompress ----------------------------
(***************************************************************************)
(* The two SHA-256 compressions, side by side: the portable loops of       *)
(* fallback.rs, and the register pipeline of x86_64/sha.rs that works four *)
(* rounds at a time and makes the message schedule two groups ahead.       *)
(*                                                                         *)
(* They are independent computations; taking each block first through the  *)
(* one and then through the other lets every register be compared with the *)
(* portable value it should hold.  The functions of the standard (sigma,   *)
(* Ch, Maj) are constants: that the pipeline is right does not depend on   *)
(* them, only the order in which words and registers reach them matters.   *)
(***************************************************************************)
EXTENDS Integers, Sequences

CONSTANTS
  Radix,        \* the values of a byte: 256
  M,            \* where a word wraps: 2^32
  sigma0,       \* word |-> rotr 7 ^ rotr 18 ^ shr 3, of the schedule
  sigma1,       \* word |-> rotr 17 ^ rotr 19 ^ shr 10, of the schedule
  Sigma0,       \* word |-> rotr 2 ^ rotr 13 ^ rotr 22, of a round
  Sigma1,       \* word |-> rotr 6 ^ rotr 11 ^ rotr 25, of a round
  Ch,           \* <<e, f, g>> |-> (e & f) ^ (!e & g)
  Maj,          \* <<a, b, c>> |-> (a & b) ^ (a & c) ^ (b & c)
  SHA256_K,     \* round |-> its constant
  States,       \* the initial values of `state` considered
  Messages      \* the inputs considered: non-empty sequences of blocks

Byte == 0 .. Radix - 1
Block == [0 .. 63 -> Byte]
Word == 0 .. M - 1
Dword == 0 .. 3
Register == [Dword -> Word]

ASSUME WordAssumption ==
  /\ Radix \in Nat \ {0}
  /\ M = Radix * (Radix * (Radix * Radix))
  /\ \A f \in {sigma0, sigma1, Sigma0, Sigma1} : f \in [Word -> Word]
  /\ \A f \in {Ch, Maj} : f \in [Word \X Word \X Word -> Word]
  /\ SHA256_K \in [0 .. 63 -> Word]

ASSUME InputAssumption ==
  /\ States \subseteq [0 .. 7 -> Word]
  /\ Messages \subseteq Seq(Block) \ {<<>>}

VARIABLES
  blocks,  \* the blocks not yet compressed by both
  pc,      \* the loop under way
  \* fallback::sha256_compress
  w,       \* the message schedule
  i,       \* the counter of the two loops
  work,    \* i |-> a to h (as 0 to 7) before round i; history but for the last
  state,   \* `state` of the portable function
  \* sha256_compress_shani
  m,       \* m0 to m3
  state0,  \* ABEF, dword 0 the least significant
  state1,  \* CDGH
  saved,   \* <<abef_save, cdgh_save>>
  group,   \* groups of four rounds made of this block
  out      \* `state` of the SHA-NI function: memory, which it writes at its end

portable == <<w, i, work, state>>
shani == <<m, state0, state1, saved, group, out>>
vars == <<blocks, pc, w, i, work, state, m, state0, state1, saved, group, out>>

Plus(a, b) == (a + b) % M
Zeros == [k \in 0 .. 7 |-> 0]

-----------------------------------------------------------------------------
\* The portable loops.

\* u32::from_be_bytes.
FromBeBytes(a, b, c, d) == ((a * Radix + b) * Radix + c) * Radix + d

\* A turn of chunks_exact: the block's words, and zeros for the rest of w.
LoadPortable ==
  /\ pc = "block" /\ blocks # <<>>
  /\ LET chunk == Head(blocks)
     IN w' = [k \in 0 .. 63 |->
               IF k < 16
                 THEN FromBeBytes(chunk[4 * k], chunk[4 * k + 1], chunk[4 * k + 2], chunk[4 * k + 3])
                 ELSE 0]
  /\ i' = 16
  /\ pc' = "schedule"
  /\ UNCHANGED <<blocks, work, state, shani>>

\* A turn of the loop over 16..64.
ExtendSchedule ==
  /\ pc = "schedule" /\ i < 64
  /\ w' = [w EXCEPT ![i] = Plus(Plus(Plus(w[i - 16], sigma0[w[i - 15]]), w[i - 7]),
                                sigma1[w[i - 2]])]
  /\ i' = i + 1
  /\ UNCHANGED <<blocks, pc, work, state, shani>>

BeginRounds ==
  /\ pc = "schedule" /\ i = 64
  /\ work' = [work EXCEPT ![0] = state]
  /\ i' = 0
  /\ pc' = "rounds"
  /\ UNCHANGED <<blocks, w, state, shani>>

\* What a round makes of a to h, given the sum of its constant and its word.
RoundOf(v, kw) ==
  LET temp1 == Plus(Plus(Plus(v[7], Sigma1[v[4]]), Ch[<<v[4], v[5], v[6]>>]), kw)
      temp2 == Plus(Sigma0[v[0]], Maj[<<v[0], v[1], v[2]>>])
  IN [k \in 0 .. 7 |-> CASE k = 0 -> Plus(temp1, temp2)
                         [] k = 4 -> Plus(v[3], temp1)
                         [] OTHER -> v[k - 1]]

\* A turn of the loop over 0..64.
PortableRound ==
  /\ pc = "rounds" /\ i < 64
  /\ work' = [work EXCEPT ![i + 1] = RoundOf(work[i], Plus(SHA256_K[i], w[i]))]
  /\ i' = i + 1
  /\ UNCHANGED <<blocks, pc, w, state, shani>>

PortableFeedForward ==
  /\ pc = "rounds" /\ i = 64
  /\ state' = [k \in 0 .. 7 |-> Plus(state[k], work[64][k])]
  /\ pc' = "load"
  /\ UNCHANGED <<blocks, w, i, work, shani>>

-----------------------------------------------------------------------------
\* The instructions.

\* The bytes in memory as _mm_loadu_si128 takes them for four dwords, the first of
\* a dword's bytes the least significant, and _mm_shuffle_epi8 with a mask that
\* clears no byte.
Dwords(r) ==
  [d \in Dword |-> ((r[4 * d + 3] * Radix + r[4 * d + 2]) * Radix + r[4 * d + 1]) * Radix + r[4 * d]]
ShuffleBytes(r, mask) == [c \in 0 .. 15 |-> r[mask[c + 1]]]

\* _mm_shuffle_epi32, its immediate taken apart into the four selectors.
Shuffle(r, sel) == [d \in Dword |-> r[sel[d + 1]]]

\* _mm_alignr_epi8 by n dwords, and _mm_blend_epi16 with 0xF0.
Align(high, low, n) == [d \in Dword |-> IF d + n < 4 THEN low[d + n] ELSE high[d + n - 4]]
Blend(low, high) == [d \in Dword |-> IF d < 2 THEN low[d] ELSE high[d]]

Add4(a, b) == [d \in Dword |-> Plus(a[d], b[d])]

\* a to h of the pair (ABEF, CDGH), and ABEF of a to h.
Unpacked(abef, cdgh) ==
  [k \in 0 .. 7 |-> CASE k = 0 -> abef[3] [] k = 1 -> abef[2] [] k = 2 -> cdgh[3]
                      [] k = 3 -> cdgh[2] [] k = 4 -> abef[1] [] k = 5 -> abef[0]
                      [] k = 6 -> cdgh[1] [] k = 7 -> cdgh[0]]
Abef(v) == [d \in Dword |-> CASE d = 0 -> v[5] [] d = 1 -> v[4] [] d = 2 -> v[1] [] d = 3 -> v[0]]

\* sha256rnds2: two rounds, with the sums in the low two dwords of msg.
Sha256rnds2(cdgh, abef, msg) == Abef(RoundOf(RoundOf(Unpacked(abef, cdgh), msg[0]), msg[1]))

Sha256msg1(a, b) ==
  [d \in Dword |-> Plus(a[d], sigma0[IF d < 3 THEN a[d + 1] ELSE b[0]])]

Sha256msg2(a, b) ==
  LET w16 == Plus(a[0], sigma1[b[2]])
      w17 == Plus(a[1], sigma1[b[3]])
  IN [d \in Dword |-> CASE d = 0 -> w16 [] d = 1 -> w17
                        [] d = 2 -> Plus(a[2], sigma1[w16])
                        [] d = 3 -> Plus(a[3], sigma1[w17])]

-----------------------------------------------------------------------------
\* The pipeline.

\* The loads of `state` and their transposition.
Transposed(v) ==
  LET tmp == Shuffle([d \in Dword |-> v[d]], <<1, 0, 3, 2>>)
      efgh == Shuffle([d \in Dword |-> v[d + 4]], <<3, 2, 1, 0>>)
  IN <<Align(tmp, efgh, 2), Blend(efgh, tmp)>>

\* Mutant of Restored: alignr takes its operands the other way round.
RestoredMisaligned(abef, cdgh) ==
  LET tmp == Shuffle(abef, <<3, 2, 1, 0>>)
      dchg == Shuffle(cdgh, <<1, 0, 3, 2>>)
  IN [k \in 0 .. 7 |-> IF k < 4 THEN Blend(tmp, dchg)[k] ELSE Align(tmp, dchg, 2)[k - 4]]

\* The inverse, on the way out.
Restored(abef, cdgh) ==
  LET tmp == Shuffle(abef, <<3, 2, 1, 0>>)
      dchg == Shuffle(cdgh, <<1, 0, 3, 2>>)
  IN [k \in 0 .. 7 |-> IF k < 4 THEN Blend(tmp, dchg)[k] ELSE Align(dchg, tmp, 2)[k - 4]]

Init ==
  /\ blocks \in Messages
  /\ state \in States
  /\ pc = "block"
  /\ w = [k \in 0 .. 63 |-> 0] /\ i = 0
  /\ work = [k \in 0 .. 64 |-> Zeros]
  /\ m = [q \in Dword |-> [d \in Dword |-> 0]]
  /\ state0 = Transposed(state)[1] /\ state1 = Transposed(state)[2]
  /\ saved = <<state0, state1>>
  /\ group = 0
  /\ out = state

\* Mutant of ByteSwap: the bytes are reversed within words of 64 bits.
ByteSwapTooWide == <<7, 6, 5, 4, 3, 2, 1, 0, 15, 14, 13, 12, 11, 10, 9, 8>>

\* byte_swap, from its least significant byte.
ByteSwap == <<3, 2, 1, 0, 7, 6, 5, 4, 11, 10, 9, 8, 15, 14, 13, 12>>

\* The four loads of a block, each with its bytes swapped.
LoadRegisters ==
  /\ pc = "load"
  /\ saved' = <<state0, state1>>
  /\ LET loaded(q) == [c \in 0 .. 15 |-> Head(blocks)[16 * q + c]]
     IN m' = [q \in Dword |-> Dwords(ShuffleBytes(loaded(q), ByteSwap))]
  /\ group' = 0
  /\ pc' = "groups"
  /\ UNCHANGED <<blocks, portable, state0, state1, out>>

\* Mutant of Finished: the words seven back come from the wrong quartet.
FinishedSwapped(cur, next, prev) == Sha256msg2(Add4(next, Align(prev, cur, 1)), cur)

\* schedule_msg2!: the next quartet, from the current and the previous one.
Finished(cur, next, prev) == Sha256msg2(Add4(next, Align(cur, prev, 1)), cur)

\* Mutant of HighPair: the second two rounds take the low pair again.
HighPairNot(msg) == msg

HighPair(msg) == Shuffle(msg, <<2, 3, 0, 0>>)

\* four_rounds!, and the part of the schedule that follows it in the unrolled
\* code: groups 3 to 14 finish the next quartet, groups 1 to 12 begin another
\* in the register of the previous one.
FourRounds ==
  /\ pc = "groups" /\ group < 16
  /\ LET cur == group % 4
         next == (group + 1) % 4
         prev == (group + 3) % 4
         msg == [d \in Dword |-> Plus(m[cur][d], SHA256_K[4 * group + d])]
         second == Sha256rnds2(state1, state0, msg)
         first == Sha256rnds2(state0, second, HighPair(msg))
     IN /\ state1' = second
        /\ state0' = first
        /\ m' = [m EXCEPT ![next] = IF group \in 3 .. 14 THEN Finished(m[cur], @, m[prev]) ELSE @,
                          ![prev] = IF group \in 1 .. 12 THEN Sha256msg1(@, m[cur]) ELSE @]
  /\ group' = group + 1
  /\ UNCHANGED <<blocks, pc, portable, saved, out>>

FeedForward ==
  /\ pc = "groups" /\ group = 16
  /\ state0' = Add4(state0, saved[1])
  /\ state1' = Add4(state1, saved[2])
  /\ blocks' = Tail(blocks)
  /\ pc' = "block"
  /\ UNCHANGED <<portable, m, saved, group, out>>

StoreState ==
  /\ pc = "block" /\ blocks = <<>>
  /\ out' = Restored(state0, state1)
  /\ pc' = "done"
  /\ UNCHANGED <<blocks, portable, m, state0, state1, saved, group>>

Next ==
  \/ LoadPortable \/ ExtendSchedule \/ BeginRounds \/ PortableRound \/ PortableFeedForward
  \/ LoadRegisters \/ FourRounds \/ FeedForward \/ StoreState

Spec == Init /\ [][Next]_vars

-----------------------------------------------------------------------------
\* The pipeline overwrites its four message registers in turn, each begun two
\* groups and finished one group before it is used: when a group runs, its
\* register holds the four words the portable schedule has for those rounds, each
\* with its bytes in the same order.
WordsInTime ==
  pc = "groups" /\ group < 16 =>
    \A d \in Dword : m[group % 4][d] = w[4 * group + d]

\* After every group the pair (ABEF, CDGH) holds what a to h of the portable
\* loop hold after as many rounds, although the two registers change places
\* twice in a group.
WorkingVariables ==
  pc = "groups" => Unpacked(state0, state1) = work[4 * group]

\* Between blocks the registers, which are not transposed back, hold the
\* portable state, and what the SHA-NI function leaves in memory is the same.
SameState ==
  /\ pc = "block" => Unpacked(state0, state1) = state
  /\ pc = "done" => out = state
=============================================================================
