--------------------------- MODULE Keystream_proof ---------------------------
(***************************************************************************)
(* Proofs about Keystream for every word size, schedule length, warm-up    *)
(* length, wrap point that is a multiple of the schedule, and bound.       *)
(***************************************************************************)
EXTENDS Keystream, NumberFacts, SequenceTheorems

USE ScheduleAssumption, WarmupAssumption, BoundAssumption

\* The wrap point is a natural number and a multiple of the schedule length.
LEMMA WrapFacts == M \in Nat \ {0} /\ \E k \in Nat \ {0} : M = N * k
<1>1. PICK k \in 1 .. M : M = N * k
  BY WrapAssumption
<1> QED BY <1>1, WrapAssumption

\* A round takes words to a word.
LEMMA RoundType ==
  ASSUME NEW s \in Words, NEW k \in Words
  PROVE  Round(s, k) \in Words
  BY LayerAssumption DEF Round

\* The byte tapped from a word is a byte.
LEMMA TapType ==
  ASSUME NEW s \in Words
  PROVE  Tap(s) \in Bytes
<1>1. LeBytes[s] \in [0 .. Lanes - 1 -> Bytes] /\ 0 \in 0 .. Lanes - 1
  BY LayerAssumption
<1>2. Nibble[LeBytes[s][0]] \in 0 .. Lanes - 1
  BY <1>1, LayerAssumption
<1> QED BY <1>1, <1>2 DEF Tap

\* The round key a wrapped counter names is in the schedule.
LEMMA PositionType ==
  ASSUME NEW r \in Nat
  PROVE  (r % N) \in 0 .. N - 1 /\ (r % M) \in 0 .. M - 1
  BY WrapFacts, DivMod

-----------------------------------------------------------------------------
\* A fresh instance is well typed.
LEMMA TypeInit == Init => TypeOK
<1> SUFFICES ASSUME Init PROVE TypeOK
  OBVIOUS
<1>1. key \in [w : Words, schedule : [0 .. N - 1 -> Words]]
  BY KeyAssumption DEF Init
<1>2. 0 \in 0 .. M - 1 /\ 0 \in 0 .. N - 1
  BY WrapFacts
<1> QED BY <1>1, <1>2 DEF Init, TypeOK

\* No step of an instance takes a variable out of its type.
LEMMA TypeStep == TypeOK /\ [Next]_vars => TypeOK'
<1> SUFFICES ASSUME TypeOK, [Next]_vars PROVE TypeOK'
  OBVIOUS
<1> USE DEF TypeOK
<1>1. ASSUME round
      PROVE  w' \in Words /\ round_index' \in 0 .. M - 1 /\ rounds' \in Nat
  <2>1. (round_index % N) \in 0 .. N - 1
    BY PositionType
  <2>2. next_rk \in Words
    BY <2>1 DEF next_rk
  <2>3. w' \in Words
    BY <1>1, <2>2, RoundType DEF round
  <2>4. round_index' \in 0 .. M - 1
    BY <1>1, PositionType DEF round
  <2> QED BY <1>1, <2>3, <2>4 DEF round
<1>2. ASSUME LoopRound
      PROVE  state' \in Words /\ pos' \in 0 .. N - 1 /\ rounds' \in Nat
  <2>1. state' \in Words
    BY <1>2, RoundType DEF LoopRound
  <2> QED BY <1>2, <2>1 DEF LoopRound
<1>3. CASE WarmUp
  BY <1>1, <1>3 DEF WarmUp, expanded, locals
<1>4. CASE NextByteFirst
  BY <1>1, <1>4 DEF NextByteFirst, expanded, locals
<1>5. CASE NextByteSecond
  BY <1>1, <1>5, TapType DEF NextByteSecond, expanded, locals
<1>6. ASSUME NEW n \in 0 .. MaxLen, BeginFill(n) PROVE TypeOK'
  <2>1. pos' \in 0 .. N - 1
    BY <1>6, PositionType DEF BeginFill
  <2> QED BY <1>6, <2>1 DEF BeginFill, expanded, fields
<1>7. CASE FillFirst
  BY <1>2, <1>7 DEF FillFirst, expanded, fields
<1>8. CASE FillSecond
  <2>1. index' \in 0 .. M - 1
    BY <1>8, PositionType DEF FillSecond
  <2>2. out' \in Seq(Bytes)
    BY <1>2, <1>8, TapType DEF FillSecond
  <2> QED BY <1>2, <1>8, <2>1, <2>2 DEF FillSecond, expanded, fields
<1>9. CASE EndFill
  BY <1>9 DEF EndFill, expanded, locals
<1>10. CASE UNCHANGED vars
  BY <1>10 DEF vars
<1> QED BY <1>3, <1>4, <1>5, <1>6, <1>7, <1>8, <1>9, <1>10 DEF Next

\* Every variable keeps its type: in particular round_index never leaves
\* 0 .. M - 1 and pos never leaves the schedule (State and keystream_core).
THEOREM TypeCorrect == Spec => []TypeOK
  BY TypeInit, TypeStep, PTL DEF Spec

-----------------------------------------------------------------------------
\* What else is true between any two steps: the loop counter and the buffer
\* are empty when no call runs, and both copies of the round keys are the key's
\* for ever.
CallShape ==
  /\ sub_keys = key.schedule /\ schedule = key.schedule
  /\ pc = "new" => i < WARMUP_ROUNDS
  /\ pc = "byte" => i = 1 /\ out = <<>>

\* The inductive invariant: the counters agree with the rounds made only
\* because every call makes its rounds in pairs, and the other way round the
\* count of rounds is right only while i counts those of the byte under way.
IInv == TypeOK /\ CallShape /\ TwoRoundsPerByte /\ CountersAgree

\* A wrapped counter advanced by b is the unbounded one advanced by b.
LEMMA WrapStep ==
  ASSUME NEW r \in Nat, NEW b \in Nat
  PROVE  ((r % M) + b) % M = (r + b) % M
  BY WrapFacts, ModAdd

\* The round key under the wrapped counter is the one under the count of rounds.
LEMMA WrapKeepsPosition ==
  ASSUME NEW r \in Nat
  PROVE  (r % M) % N = r % N
  BY WrapFacts, ModOfMultiple

\* A fresh instance satisfies the inductive invariant.
LEMMA InvInit == Init => IInv
<1> SUFFICES ASSUME Init PROVE IInv
  OBVIOUS
<1>1. TypeOK
  BY TypeInit
<1>2. CallShape /\ TwoRoundsPerByte
  BY DEF Init, CallShape, TwoRoundsPerByte
<1>3. 0 % M = 0
  BY WrapFacts, ModUnique, DivMod
<1>4. CountersAgree
  BY <1>3 DEF Init, CountersAgree
<1> QED BY <1>1, <1>2, <1>4 DEF IInv

\* Every step keeps it.
LEMMA InvStep == IInv /\ [Next]_vars => IInv'
<1> SUFFICES ASSUME IInv, [Next]_vars PROVE IInv'
  OBVIOUS
<1>0. TypeOK'
  BY TypeStep DEF IInv
<1> USE DEF IInv, TypeOK, CallShape, TwoRoundsPerByte, CountersAgree
<1>1. ASSUME round, pc # "fill" PROVE round_index' = rounds' % M
  BY <1>1, WrapStep DEF round
<1>2. ASSUME LoopRound, pc = "fill" PROVE pos' = rounds' % N
  <2>1. rounds \in Nat /\ pos = rounds % N
    BY <1>2
  <2>2. (rounds + 1) % N = IF (rounds % N) + 1 = N THEN 0 ELSE (rounds % N) + 1
    BY <2>1, ModSucc
  <2> QED BY <1>2, <2>1, <2>2 DEF LoopRound
<1>3. CASE WarmUp
  BY <1>0, <1>1, <1>3 DEF WarmUp, expanded, locals, round
<1>4. CASE NextByteFirst
  BY <1>0, <1>1, <1>4 DEF NextByteFirst, expanded, locals, round
<1>5. CASE NextByteSecond
  BY <1>0, <1>1, <1>5 DEF NextByteSecond, expanded, locals, round
<1>6. ASSUME NEW n \in 0 .. MaxLen, BeginFill(n) PROVE IInv'
  <2>1. pos' = rounds' % N
    BY <1>6, WrapKeepsPosition DEF BeginFill
  <2> QED BY <1>0, <1>6, <2>1 DEF BeginFill, expanded, fields
<1>7. CASE FillFirst
  BY <1>0, <1>2, <1>7 DEF FillFirst, expanded, fields, LoopRound
<1>8. CASE FillSecond
  <2>1. rounds - 1 \in Nat /\ index = (rounds - 1) % M
    BY <1>8 DEF FillSecond
  <2>2. index' = (rounds + 1) % M
    BY <1>8, <2>1, WrapStep DEF FillSecond
  <2>3. Len(out') = Len(out) + 1
    <3>1. state' \in Words
      BY <1>0
    <3> QED BY <1>8, <3>1, TapType, AppendProperties DEF FillSecond
  <2>4. pos' = rounds' % N /\ rounds' = rounds + 1
    BY <1>2, <1>8 DEF FillSecond, LoopRound
  <2>5. TwoRoundsPerByte'
    BY <1>8, <2>3, <2>4 DEF FillSecond
  <2>6. CountersAgree'
    BY <1>8, <2>2, <2>4 DEF FillSecond
  <2>7. CallShape'
    BY <1>8 DEF FillSecond, expanded
  <2> QED BY <1>0, <2>5, <2>6, <2>7
<1>9. CASE EndFill
  <2>1. Len(given') = Len(given) + Len(out)
    BY <1>9, ConcatProperties DEF EndFill
  <2> QED BY <1>0, <1>9, <2>1 DEF EndFill, expanded, locals
<1>10. CASE UNCHANGED vars
  BY <1>0, <1>10 DEF vars
<1> QED BY <1>3, <1>4, <1>5, <1>6, <1>7, <1>8, <1>9, <1>10 DEF Next

\* The counters of State::round, keystream_core and the AVX2 loop name the same
\* round at every moment, however often round_index has wrapped.
THEOREM CountersNeverDrift == Spec => []CountersAgree
<1>1. IInv => CountersAgree
  BY DEF IInv
<1> QED BY <1>1, InvInit, InvStep, PTL DEF Spec

\* Every byte has two rounds of its own, across calls of any kind and length.
THEOREM NoByteSharesRounds == Spec => []TwoRoundsPerByte
<1>1. IInv => TwoRoundsPerByte
  BY DEF IInv
<1> QED BY <1>1, InvInit, InvStep, PTL DEF Spec

-----------------------------------------------------------------------------
\* Which rounds end a byte: none of the warm-up's, then every second one.
LEMMA ByteEnds ==
  ASSUME NEW k \in Nat
  PROVE  /\ \A r \in 0 .. WARMUP_ROUNDS : ~Reference!EndsByte(r)
         /\ ~Reference!EndsByte(WARMUP_ROUNDS + 2 * k + 1)
         /\ Reference!EndsByte(WARMUP_ROUNDS + 2 * k + 2)
  BY DEF Reference!EndsByte

\* Appending to the buffer appends to the stream it continues.
LEMMA StreamAppend ==
  ASSUME NEW s \in Seq(Bytes), NEW t \in Seq(Bytes), NEW b \in Bytes
  PROVE  s \o Append(t, b) = Append(s \o t, b)
<1>1. <<b>> \in Seq(Bytes)
  OBVIOUS
<1>2. Append(t, b) = t \o <<b>>
  BY AppendIsConcat
<1>3. s \o t \in Seq(Bytes)
  BY ConcatProperties
<1>4. Append(s \o t, b) = (s \o t) \o <<b>>
  BY <1>3, AppendIsConcat
<1> QED BY <1>1, <1>2, <1>4, ConcatAssociative

\* A fresh instance is a fresh reference keystream.
LEMMA RefineInit == Init => Reference!Init
  BY ConcatEmptySeq, EmptySeq DEF Init, Reference!Init

\* Every step of the instance is a round of the reference or invisible to it.
LEMMA RefineStep ==
  IInv /\ IInv' /\ [Next]_vars => [Reference!Step]_(Reference!vars)
<1> SUFFICES ASSUME IInv, IInv', [Next]_vars
             PROVE  [Reference!Step]_(Reference!vars)
  OBVIOUS
<1> DEFINE word == IF pc = "fill" THEN state ELSE w
<1> DEFINE stream == given \o out
<1> DEFINE done == Len(given) + Len(out)
<1>0. /\ given \in Seq(Bytes) /\ out \in Seq(Bytes)
      /\ state \in Words /\ w \in Words
      /\ given' \in Seq(Bytes) /\ out' \in Seq(Bytes)
      /\ rounds \in Nat /\ i \in Nat /\ done \in Nat
      /\ w' \in Words /\ state' \in Words
  BY DEF IInv, TypeOK
<1>1. ASSUME round, pc # "fill"
      PROVE  w' = Round(w, key.schedule[rounds % N]) /\ rounds' = rounds + 1
  BY <1>0, <1>1, WrapKeepsPosition
  DEF round, next_rk, IInv, CountersAgree, CallShape
<1>2. ASSUME LoopRound, pc = "fill"
      PROVE  state' = Round(state, key.schedule[rounds % N]) /\ rounds' = rounds + 1
  BY <1>2 DEF LoopRound, IInv, CountersAgree, CallShape
<1>3. ASSUME word' = Round(word, key.schedule[rounds % N]), rounds' = rounds + 1,
             key' = key, stream' = stream, ~Reference!EndsByte(rounds + 1)
      PROVE  Reference!Step
  BY <1>3 DEF Reference!Step, Reference!Round, Round
<1>4. ASSUME word' = Round(word, key.schedule[rounds % N]), rounds' = rounds + 1,
             key' = key, stream' = Append(stream, Tap(word')),
             Reference!EndsByte(rounds + 1)
      PROVE  Reference!Step
  BY <1>4 DEF Reference!Step, Reference!Round, Round, Reference!Tap, Tap
<1>5. ASSUME word' = word, stream' = stream, rounds' = rounds, key' = key
      PROVE  UNCHANGED Reference!vars
  BY <1>5 DEF Reference!vars
<1>6. pc # "new" /\ i = 0 => ~Reference!EndsByte(rounds + 1)
  <2>1. pc # "new" /\ i = 0 => rounds + 1 = WARMUP_ROUNDS + 2 * done + 1
    BY <1>0 DEF IInv, TwoRoundsPerByte
  <2> QED BY <1>0, <2>1, ByteEnds
<1>7. pc # "new" /\ i = 1 => Reference!EndsByte(rounds + 1)
  <2>1. pc # "new" /\ i = 1 => rounds + 1 = WARMUP_ROUNDS + 2 * done + 2
    BY <1>0 DEF IInv, TwoRoundsPerByte
  <2> QED BY <1>0, <2>1, ByteEnds
<1>8. given \o <<>> = given /\ given' \o <<>> = given'
  BY <1>0, ConcatEmptySeq
<1>9. CASE WarmUp
  <2>1. ~Reference!EndsByte(rounds + 1)
    <3>1. rounds + 1 \in 0 .. WARMUP_ROUNDS
      BY <1>0, <1>9 DEF WarmUp, IInv, TwoRoundsPerByte, CallShape
    <3> QED BY <3>1, ByteEnds
  <2>2. word' = Round(word, key.schedule[rounds % N]) /\ rounds' = rounds + 1
    BY <1>1, <1>9 DEF WarmUp
  <2> QED BY <1>3, <1>9, <2>1, <2>2 DEF WarmUp
<1>10. CASE NextByteFirst
  <2>1. ~Reference!EndsByte(rounds + 1)
    BY <1>6, <1>10 DEF NextByteFirst, IInv, TwoRoundsPerByte
  <2>2. word' = Round(word, key.schedule[rounds % N]) /\ rounds' = rounds + 1
    BY <1>1, <1>10 DEF NextByteFirst
  <2> QED BY <1>3, <1>10, <2>1, <2>2 DEF NextByteFirst
<1>11. CASE NextByteSecond
  <2>1. Reference!EndsByte(rounds + 1)
    BY <1>7, <1>11 DEF NextByteSecond, IInv, CallShape
  <2>2. word' = Round(word, key.schedule[rounds % N]) /\ rounds' = rounds + 1
    BY <1>1, <1>11 DEF NextByteSecond
  <2>3. out = <<>> /\ out' = <<>>
    BY <1>11 DEF NextByteSecond, IInv, CallShape
  <2>4. stream' = Append(stream, Tap(word'))
    BY <1>8, <1>11, <2>3 DEF NextByteSecond
  <2> QED BY <1>4, <1>11, <2>1, <2>2, <2>4 DEF NextByteSecond
<1>12. ASSUME NEW n \in 0 .. MaxLen, BeginFill(n)
       PROVE  UNCHANGED Reference!vars
  <2>1. out = <<>> /\ out' = <<>>
    BY <1>12 DEF BeginFill, IInv, TwoRoundsPerByte
  <2> QED BY <1>5, <1>12, <2>1 DEF BeginFill
<1>13. CASE FillFirst
  <2>1. ~Reference!EndsByte(rounds + 1)
    BY <1>6, <1>13 DEF FillFirst
  <2>2. word' = Round(word, key.schedule[rounds % N]) /\ rounds' = rounds + 1
    BY <1>2, <1>13 DEF FillFirst
  <2> QED BY <1>3, <1>13, <2>1, <2>2 DEF FillFirst
<1>14. CASE FillSecond
  <2>1. Reference!EndsByte(rounds + 1)
    BY <1>7, <1>14 DEF FillSecond
  <2>2. word' = Round(word, key.schedule[rounds % N]) /\ rounds' = rounds + 1
    BY <1>2, <1>14 DEF FillSecond
  <2>3. stream' = Append(stream, Tap(word'))
    BY <1>0, <1>14, TapType, StreamAppend DEF FillSecond
  <2> QED BY <1>4, <1>14, <2>1, <2>2, <2>3 DEF FillSecond
<1>15. CASE EndFill
  BY <1>5, <1>8, <1>15 DEF EndFill
<1>16. CASE UNCHANGED vars
  BY <1>5, <1>16 DEF vars
<1> QED BY <1>9, <1>10, <1>11, <1>12, <1>13, <1>14, <1>15, <1>16 DEF Next

\* The instance implements the reference keystream: the bytes that any mix of
\* next_byte and fill_keystream calls produces are a function of the key alone.
THEOREM KeystreamImplementsReference == Spec => RefinesReference
<1>1. Init => Reference!Init
  BY RefineInit
<1>2. IInv /\ IInv' /\ [Next]_vars => [Reference!Step]_(Reference!vars)
  BY RefineStep
<1> QED BY <1>1, <1>2, InvInit, InvStep, PTL
        DEF Spec, RefinesReference, Reference!Spec
=============================================================================
