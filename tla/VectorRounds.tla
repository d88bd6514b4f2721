---------------------------- MODULE VectorRounds ----------------------------
(***************************************************************************)
(* The cipher round in vector registers, as each backend's round128 and    *)
(* its keystream loop make it, next to the portable round.  A 128-bit      *)
(* value is its sixteen little-endian bytes.  The counters of the loops    *)
(* are those of Keystream: here only the data path is followed.            *)
(*                                                                         *)
(* fill_keystream_avx2 is the odd one: it keeps the state in both lanes of *)
(* a 256-bit register, lets the S-box leave even rows in the low lane and  *)
(* odd rows in the high one, and ORs the register with its swapped self.   *)
(***************************************************************************)
EXTENDS SboxKernels

CONSTANTS
  RoundKernels,  \* the backends considered; Avx2 is round128_avx2, Avx2Loop the loop
  States,        \* the initial states considered
  Schedule,      \* the round keys, a sequence of 16-byte vectors
  MaxRounds      \* bound: rounds made

ASSUME VectorAssumption ==
  /\ RoundKernels \subseteq {"Ssse3", "Avx2", "Avx2Loop", "Avx512Vbmi", "AesNi", "Gfni"}
  /\ States \subseteq [Lane -> Byte]
  /\ Schedule \in Seq([Lane -> Byte]) /\ Schedule # <<>>
  /\ MaxRounds \in Nat

VARIABLES
  backend,  \* the backend
  reg,      \* the register: its lanes 0 and 1, equal in a 128-bit one
  part,     \* the part of the round to come: "rotate", "substitute", "fold", "key"
  rounds,   \* rounds begun
  word      \* history: the portable state after the rounds ended

roundVars == <<backend, reg, part, rounds, word>>

Both(x) == [l \in {0, 1} |-> x]

RoundsInit ==
  /\ backend \in RoundKernels
  /\ word \in States
  /\ reg = Both(word)
  /\ part = "rotate"
  /\ rounds = 0

Key == Schedule[((rounds - 1) % Len(Schedule)) + 1]

-----------------------------------------------------------------------------
\* fallback::round128: rotate_right(7), the table on every byte, the key.
Rotated(x) == [i \in Lane |-> (x[i] \div 128) + ((2 * x[(i + 1) % 16]) % 256)]
PortableRound(x, key) == [i \in Lane |-> Xor(SBOX[Rotated(x)[i]], key[i])]

\* psrlq by 7 and psllq by 57: each 64-bit half on its own.
Down(x) ==
  [i \in Lane |-> (x[i] \div 128) + (IF i % 8 = 7 THEN 0 ELSE (2 * x[i + 1]) % 256)]
Up(x) == [i \in Lane |-> IF i % 8 = 7 THEN (2 * x[i - 7]) % 256 ELSE 0]

\* Mutant of Crossed: the halves are not exchanged.
CrossedNot(x) == x

\* pshufd 0x4E exchanges the two halves.
Crossed(x) == [i \in Lane |-> x[(i + 8) % 16]]

\* rotr7_x128 and rotr7_dup_avx2.
Rotate ==
  /\ part = "rotate" /\ rounds < MaxRounds
  /\ reg' = [l \in {0, 1} |-> [i \in Lane |-> Or(Down(reg[l])[i], Crossed(Up(reg[l]))[i])]]
  /\ part' = "substitute"
  /\ rounds' = rounds + 1
  /\ UNCHANGED <<backend, word>>

\* sub_bytes_paired_avx2: the low lane looks up even rows, the high lane odd.
SubstitutePaired ==
  /\ part = "substitute" /\ backend \in {"Avx2", "Avx2Loop"}
  /\ reg' = [reg EXCEPT ![0] = [i \in Lane |-> EvenRows[@[i]]],
                        ![1] = [i \in Lane |-> OddRows[@[i]]]]
  /\ part' = "fold"
  /\ UNCHANGED <<backend, rounds, word>>

\* The table as the other kernels compute it, byte by byte.
LookedUp(b) ==
  CASE backend = "Ssse3" -> AllRows[b]
    [] backend = "Avx512Vbmi" -> Blended[b]
    [] backend = "Gfni" -> AffineOfInverse[b]

SubstituteBytes ==
  /\ part = "substitute" /\ backend \in {"Ssse3", "Avx512Vbmi", "Gfni"}
  /\ reg' = [l \in {0, 1} |-> [i \in Lane |-> LookedUp(reg[l][i])]]
  /\ part' = "key"
  /\ UNCHANGED <<backend, rounds, word>>

\* AES-NI substitutes and mixes the key in one instruction.
SubstituteAndMix ==
  /\ part = "substitute" /\ backend = "AesNi"
  /\ reg' = [l \in {0, 1} |-> SubstituteXor(reg[l], Key)]
  /\ part' = "rotate"
  /\ word' = PortableRound(word, Key)
  /\ UNCHANGED <<backend, rounds>>

\* Mutant of Fold: the swapped register is not merged back into the high lane.
FoldLowLane ==
  /\ part = "fold"
  /\ reg' = [reg EXCEPT ![0] = [i \in Lane |-> Or(reg[0][i], reg[1][i])]]
  /\ part' = "key"
  /\ UNCHANGED <<backend, rounds, word>>

\* vperm2i128 and vpor in the loop; in round128_avx2 the fold to 128 bits, and
\* the broadcast the next call begins with.
Fold ==
  /\ part = "fold"
  /\ reg' = Both([i \in Lane |-> Or(reg[0][i], reg[1][i])])
  /\ part' = "key"
  /\ UNCHANGED <<backend, rounds, word>>

MixKey ==
  /\ part = "key"
  /\ reg' = [l \in {0, 1} |-> [i \in Lane |-> Xor(reg[l][i], Key[i])]]
  /\ part' = "rotate"
  /\ word' = PortableRound(word, Key)
  /\ UNCHANGED <<backend, rounds>>

RoundsNext ==
  Rotate \/ SubstitutePaired \/ SubstituteBytes \/ SubstituteAndMix \/ Fold \/ MixKey

RoundsSpec == RoundsInit /\ [][RoundsNext]_roundVars

-----------------------------------------------------------------------------
\* After every round of every backend the whole register, both lanes of it, is
\* the portable state: the rotation by halves, the rows split over the lanes,
\* the cancelled ShiftRows and the key absorbed by aesenclast lose nothing over
\* any number of rounds.
LanesInStep == part = "rotate" => reg = Both(word)
=============================================================================
