---------------------------- MODULE Session_proof ----------------------------
(***************************************************************************)
(* Whatever the words, the keys, the messages and the way they are cut,    *)
(* the receiver of a session reads what the sender was given.  The two     *)
(* sides agree because a call of fill_keystream carries on the loop where  *)
(* the last one left it: that is the lemma FillComposes, by induction on   *)
(* the length of the second call, and the rest follows from it.            *)
(***************************************************************************)
EXTENDS Session, NumberFacts, SequenceTheorems

\* What State is, and the locals of the keystream loop.
States == [w : Words, schedule : [0 .. N - 1 -> Words], round_index : 0 .. M - 1]
Locals == [state : Words, pos : 0 .. N - 1, index : 0 .. M - 1, out : Seq(Bytes)]

\* The locals before the first slot.
Start(st) == [state |-> st.w, pos |-> st.round_index % N,
              index |-> st.round_index, out |-> <<>>]

\* The wrap point is a multiple of the schedule length.
LEMMA WrapFacts ==
  /\ N \in Nat \ {0} /\ M \in Nat \ {0}
  /\ \E k \in Nat \ {0} : M = N * k
<1>1. PICK k \in 1 .. M : M = N * k
  BY WrapAssumption
<1> QED BY <1>1, WrapAssumption, ScheduleAssumption

\* A round takes words to a word.
LEMMA RoundType ==
  ASSUME NEW s \in Words, NEW k \in Words
  PROVE  Round(s, k) \in Words
  BY LayerAssumption DEF Round

\* The byte tapped from a word is a byte.
LEMMA TapType ==
  ASSUME NEW s \in Words
  PROVE  Tap(s) \in Bytes
<1>1. LeBytes[s] \in [0 .. Lanes - 1 -> Bytes] /\ 0 \in 0 .. Lanes - 1
  BY LayerAssumption
<1>2. Nibble[LeBytes[s][0]] \in 0 .. Lanes - 1
  BY <1>1, LayerAssumption
<1> QED BY <1>1, <1>2 DEF Tap

\* Stepping past the end of the schedule is the remainder by its length.
LEMMA AfterIsRemainder ==
  ASSUME NEW r \in Nat
  PROVE  After(r % N) = (r + 1) % N /\ (r % N) \in 0 .. N - 1
  BY WrapFacts, ModSucc, DivMod DEF After

\* A slot takes locals to locals, and emits one byte.
LEMMA SlotType ==
  ASSUME NEW l \in Locals, NEW schedule \in [0 .. N - 1 -> Words]
  PROVE  /\ Slot(l, schedule) \in Locals
         /\ Len(Slot(l, schedule).out) = Len(l.out) + 1
<1>1. /\ l.state \in Words /\ l.pos \in 0 .. N - 1 /\ l.index \in 0 .. M - 1
      /\ l.out \in Seq(Bytes)
  BY DEF Locals
<1>2. \A p \in 0 .. N - 1 : After(p) \in 0 .. N - 1
  BY WrapFacts DEF After
<1> DEFINE once == Round(l.state, schedule[l.pos])
<1> DEFINE twice == Round(once, schedule[After(l.pos)])
<1>3. once \in Words /\ twice \in Words
  BY <1>1, <1>2, RoundType
<1>4. Tap(twice) \in Bytes
  BY <1>3, TapType
<1>5. (l.index + 2) % M \in 0 .. M - 1
  <2>1. l.index + 2 \in Nat
    BY <1>1, WrapFacts
  <2> QED BY <2>1, WrapFacts, DivMod
<1>6. Slot(l, schedule) = [state |-> twice, pos |-> After(After(l.pos)),
                           index |-> (l.index + 2) % M, out |-> Append(l.out, Tap(twice))]
  BY DEF Slot
<1> HIDE DEF once, twice
<1>7. Append(l.out, Tap(twice)) \in Seq(Bytes) /\ Len(Append(l.out, Tap(twice))) = Len(l.out) + 1
  BY <1>1, <1>4
<1> QED BY <1>1, <1>2, <1>3, <1>5, <1>6, <1>7 DEF Locals

\* The locals before the first slot are well formed.
LEMMA StartType ==
  ASSUME NEW st \in States
  PROVE  Start(st) \in Locals
<1>1. st.round_index \in Nat /\ st.round_index \in 0 .. M - 1 /\ st.w \in Words
  BY WrapFacts DEF States
<1>2. (st.round_index % N) \in 0 .. N - 1
  BY <1>1, AfterIsRemainder
<1>3. <<>> \in Seq(Bytes)
  OBVIOUS
<1> QED BY <1>1, <1>2, <1>3 DEF Start, Locals

\* fill_keystream is the last value of a loop of slots.
LEMMA FillLoop ==
  ASSUME NEW st \in States, NEW n \in Nat
  PROVE  \E f \in [0 .. n -> Locals] :
           /\ f[0] = Start(st)
           /\ \A k \in 1 .. n : f[k] = Slot(f[k - 1], st.schedule)
           /\ fill_keystream(st, n) = f[n]
<1> DEFINE step == [p \in Nat \X Locals |-> Slot(p[2], st.schedule)]
<1> DEFINE Body(h) == [k \in 0 .. n |-> IF k = 0 THEN Start(st) ELSE Slot(h[k - 1], st.schedule)]
<1> DEFINE loop == CHOOSE h : h = Body(h)
<1>1. step \in [Nat \X Locals -> Locals]
  BY SlotType DEF States
<1>2. \A k \in Nat, l \in Locals : step[<<k, l>>] = Slot(l, st.schedule)
  OBVIOUS
<1>3. fill_keystream(st, n) = loop[n]
  BY DEF fill_keystream, Start
<1> HIDE DEF step
<1>4. PICK f \in [0 .. n -> Locals] : f[0] = Start(st) /\ Follows(f, Locals, step, n)
  BY <1>1, StartType, LoopExists
<1>5. f[0] = Start(st) /\ \A k \in 1 .. n : f[k] = Slot(f[k - 1], st.schedule)
  <2>1. ASSUME NEW k \in 1 .. n PROVE f[k] = Slot(f[k - 1], st.schedule)
    <3>1. k - 1 \in Nat /\ k - 1 \in 0 .. n
      OBVIOUS
    <3>2. f[k - 1] \in Locals
      BY <3>1
    <3> QED BY <1>2, <1>4, <3>1, <3>2 DEF Follows
  <2> QED BY <1>4, <2>1
<1>6. f = Body(f)
  BY <1>5
<1>7. loop = Body(loop)
  BY <1>6
<1> HIDE DEF loop
<1>8. loop[0] = Start(st) /\ \A k \in 1 .. n : loop[k] = Slot(loop[k - 1], st.schedule)
  BY <1>7
<1>9. Follows(loop, Locals, step, n)
  <2> SUFFICES ASSUME NEW k \in 1 .. n, loop[k - 1] \in Locals
               PROVE  loop[k] = step[<<k - 1, loop[k - 1]>>]
    BY DEF Follows
  <2>1. k - 1 \in Nat
    OBVIOUS
  <2> QED BY <1>2, <1>8, <2>1
<1>10. \A k \in 0 .. n : f[k] = loop[k]
  BY <1>4, <1>8, <1>9, LoopUnique
<1> QED BY <1>3, <1>4, <1>5, <1>10
\* One more byte is one more slot.
LEMMA FillSteps ==
  ASSUME NEW st \in States, NEW n \in Nat
  PROVE  /\ fill_keystream(st, 0) = Start(st)
         /\ fill_keystream(st, n) \in Locals
         /\ fill_keystream(st, n + 1) = Slot(fill_keystream(st, n), st.schedule)
<1> DEFINE step == [p \in Nat \X Locals |-> Slot(p[2], st.schedule)]
<1>1. fill_keystream(st, 0) = Start(st)
  <2>1. PICK f \in [0 .. 0 -> Locals] : f[0] = Start(st) /\ fill_keystream(st, 0) = f[0]
    BY FillLoop
  <2> QED BY <2>1
<1>2. n + 1 \in Nat
  OBVIOUS
<1>3. PICK f \in [0 .. n -> Locals] :
        /\ f[0] = Start(st)
        /\ \A k \in 1 .. n : f[k] = Slot(f[k - 1], st.schedule)
        /\ fill_keystream(st, n) = f[n]
  BY FillLoop
<1>4. PICK g \in [0 .. n + 1 -> Locals] :
        /\ g[0] = Start(st)
        /\ \A k \in 1 .. n + 1 : g[k] = Slot(g[k - 1], st.schedule)
        /\ fill_keystream(st, n + 1) = g[n + 1]
  BY <1>2, FillLoop
<1>5. \A k \in Nat, l \in Locals : step[<<k, l>>] = Slot(l, st.schedule)
  OBVIOUS
<1> HIDE DEF step
<1>6. Follows(f, Locals, step, n)
  <2> SUFFICES ASSUME NEW k \in 1 .. n, f[k - 1] \in Locals
               PROVE  f[k] = step[<<k - 1, f[k - 1]>>]
    BY DEF Follows
  <2>1. k - 1 \in Nat
    OBVIOUS
  <2> QED BY <1>3, <1>5, <2>1
<1>7. Follows(g, Locals, step, n)
  <2> SUFFICES ASSUME NEW k \in 1 .. n, g[k - 1] \in Locals
               PROVE  g[k] = step[<<k - 1, g[k - 1]>>]
    BY DEF Follows
  <2>1. k - 1 \in Nat /\ k \in 1 .. n + 1
    OBVIOUS
  <2> QED BY <1>4, <1>5, <2>1
<1>8. \A k \in 0 .. n : f[k] = g[k]
  <2>1. f[0] = g[0]
    BY <1>3, <1>4
  <2> QED BY <1>6, <1>7, <2>1, LoopUnique
<1>9. g[n + 1] = Slot(g[n], st.schedule)
  BY <1>4
<1> QED BY <1>1, <1>3, <1>4, <1>8, <1>9

\* The buffer holds one byte for each slot.
LEMMA FillLength ==
  ASSUME NEW st \in States, NEW n \in Nat
  PROVE  /\ fill_keystream(st, n).out \in Seq(Bytes)
         /\ Len(fill_keystream(st, n).out) = n
<1> DEFINE S == {k \in Nat : Len(fill_keystream(st, k).out) = k}
<1>1. 0 \in S
  BY FillSteps DEF Start
<1>2. ASSUME NEW k \in S PROVE k + 1 \in S
  <2>1. fill_keystream(st, k) \in Locals /\ st.schedule \in [0 .. N - 1 -> Words]
    BY FillSteps DEF States
  <2>2. Len(fill_keystream(st, k + 1).out) = k + 1
    BY <2>1, FillSteps, SlotType
  <2> QED BY <2>2
<1>3. S \in SUBSET Nat
  OBVIOUS
<1> HIDE DEF S
<1>4. S = Nat
  BY <1>1, <1>2, <1>3, Induction
<1> QED BY <1>4, FillSteps DEF S, Locals

\* The position in the schedule stays the remainder of round_index, so writing
\* back the one is writing back the other.
LEMMA PositionFollowsIndex ==
  ASSUME NEW st \in States, NEW n \in Nat
  PROVE  fill_keystream(st, n).pos = fill_keystream(st, n).index % N
<1> DEFINE S == {k \in Nat : fill_keystream(st, k).pos = fill_keystream(st, k).index % N}
<1>1. 0 \in S
  BY FillSteps DEF Start
<1>2. ASSUME NEW k \in S PROVE k + 1 \in S
  <2> DEFINE l == fill_keystream(st, k)
  <2>1. l \in Locals /\ fill_keystream(st, k + 1) = Slot(l, st.schedule) /\ l.pos = l.index % N
    BY FillSteps
  <2> HIDE DEF l
  <2>2. PICK x \in Nat : x = l.index
    BY <2>1, WrapFacts DEF Locals
  <2>3. x + 1 \in Nat /\ x + 2 \in Nat /\ (x + 1) + 1 = x + 2
    OBVIOUS
  <2>4. After(x % N) = (x + 1) % N /\ After((x + 1) % N) = ((x + 1) + 1) % N
    BY <2>3, AfterIsRemainder
  <2>5. ((x + 2) % M) % N = (x + 2) % N
    BY <2>3, WrapFacts, ModOfMultiple
  <2>6. /\ Slot(l, st.schedule).pos = After(After(l.pos))
        /\ Slot(l, st.schedule).index = (l.index + 2) % M
    BY DEF Slot
  <2>7. Slot(l, st.schedule).pos = Slot(l, st.schedule).index % N
    BY <2>1, <2>2, <2>3, <2>4, <2>5, <2>6
  <2> QED BY <2>1, <2>7
<1>3. S \in SUBSET Nat
  OBVIOUS
<1> HIDE DEF S
<1>4. S = Nat
  BY <1>1, <1>2, <1>3, Induction
<1> QED BY <1>4 DEF S

\* The state n bytes on.
At(st, n) == [st EXCEPT !.w = fill_keystream(st, n).state, !.round_index = fill_keystream(st, n).index]

\* It is a state, with the same round keys, and the loop goes on from it with
\* the locals it left, the buffer apart.
LEMMA AtFacts ==
  ASSUME NEW st \in States, NEW n \in Nat
  PROVE  /\ At(st, n) \in States
         /\ At(st, n).schedule = st.schedule
         /\ At(st, n).w = fill_keystream(st, n).state
         /\ At(st, n).round_index = fill_keystream(st, n).index
         /\ Start(At(st, n)) = [fill_keystream(st, n) EXCEPT !.out = <<>>]
<1> DEFINE l == fill_keystream(st, n)
<1>1. l \in Locals /\ l.pos = l.index % N
  BY FillSteps, PositionFollowsIndex
<1>2. At(st, n) = [st EXCEPT !.w = l.state, !.round_index = l.index]
  BY DEF At
<1> HIDE DEF l
<1>3. /\ At(st, n) \in States
      /\ At(st, n).schedule = st.schedule
      /\ At(st, n).w = l.state
      /\ At(st, n).round_index = l.index
  BY <1>1, <1>2 DEF States, Locals
<1>4. Start(At(st, n)) = [l EXCEPT !.out = <<>>]
  BY <1>1, <1>3 DEF Start, Locals
<1> QED BY <1>3, <1>4 DEF l
-----------------------------------------------------------------------------
\* Calls one after the other.

\* A slot does not look at what the buffer already holds.
LEMMA SlotAfterPrefix ==
  ASSUME NEW r \in Locals, NEW schedule \in [0 .. N - 1 -> Words], NEW p \in Seq(Bytes)
  PROVE  Slot([r EXCEPT !.out = p \o r.out], schedule)
           = [Slot(r, schedule) EXCEPT !.out = p \o Slot(r, schedule).out]
<1> DEFINE l == [r EXCEPT !.out = p \o r.out]
<1> DEFINE twice == Round(Round(r.state, schedule[r.pos]), schedule[After(r.pos)])
<1>1. /\ l.state = r.state /\ l.pos = r.pos /\ l.index = r.index /\ l.out = p \o r.out
      /\ r.out \in Seq(Bytes) /\ r.state \in Words /\ r.pos \in 0 .. N - 1
  BY DEF Locals
<1>2. Tap(twice) \in Bytes
  <2>1. After(r.pos) \in 0 .. N - 1
    BY <1>1, WrapFacts DEF After
  <2> QED BY <1>1, <2>1, RoundType, TapType
<1>3. Slot(r, schedule) = [state |-> twice, pos |-> After(After(r.pos)),
                           index |-> (r.index + 2) % M, out |-> Append(r.out, Tap(twice))]
  BY DEF Slot
<1> HIDE DEF l
<1>4. Slot(l, schedule) = [state |-> twice, pos |-> After(After(r.pos)),
                           index |-> (r.index + 2) % M, out |-> Append(p \o r.out, Tap(twice))]
  BY <1>1 DEF Slot
<1> DEFINE b == Tap(twice)
<1> DEFINE o == r.out
<1> DEFINE x == After(After(r.pos))
<1> DEFINE y == (r.index + 2) % M
<1>5. Append(p \o o, b) = p \o Append(o, b)
  <2>1. b \in Bytes /\ o \in Seq(Bytes)
    BY <1>1, <1>2
  <2> HIDE DEF b, o
  <2>2. <<b>> \in Seq(Bytes) /\ p \o o \in Seq(Bytes)
    BY <2>1
  <2>3. Append(p \o o, b) = (p \o o) \o <<b>> /\ Append(o, b) = o \o <<b>>
    BY <2>1, <2>2, AppendIsConcat
  <2>4. (p \o o) \o <<b>> = p \o (o \o <<b>>)
    BY <2>1, <2>2, ConcatAssociative
  <2> QED BY <2>3, <2>4
<1>6. /\ Slot(r, schedule) = [state |-> twice, pos |-> x, index |-> y, out |-> Append(o, b)]
      /\ Slot(l, schedule) = [state |-> twice, pos |-> x, index |-> y, out |-> p \o Append(o, b)]
  BY <1>3, <1>4, <1>5
<1> HIDE DEF twice, b, o, x, y
<1>7. Slot(l, schedule) = [Slot(r, schedule) EXCEPT !.out = p \o Slot(r, schedule).out]
  <2> DEFINE u == Slot(r, schedule)
  <2> DEFINE v == Append(o, b)
  <2> DEFINE z == p \o v
  <2>1. /\ u = [state |-> twice, pos |-> x, index |-> y, out |-> v]
        /\ Slot(l, schedule) = [state |-> twice, pos |-> x, index |-> y, out |-> z]
    BY <1>6
  <2> HIDE DEF u, v
  <2>2. u.out = v
    BY <2>1
  <2>3. p \o u.out = z
    BY <2>2
  <2> HIDE DEF z
  <2>4. [u EXCEPT !.out = z] = [state |-> twice, pos |-> x, index |-> y, out |-> z]
    BY <2>1
  <2>5. Slot(l, schedule) = [u EXCEPT !.out = p \o u.out]
    BY <2>1, <2>3, <2>4
  <2> QED BY <2>5 DEF u
<1> QED BY <1>7 DEF l

\* A call of m bytes followed by one of n leaves the locals that one call of
\* m + n leaves, and fills the buffers with the same bytes.
LEMMA FillComposes ==
  ASSUME NEW st \in States, NEW m \in Nat, NEW n \in Nat
  PROVE  fill_keystream(st, m + n)
           = [fill_keystream(At(st, m), n)
                EXCEPT !.out = fill_keystream(st, m).out \o fill_keystream(At(st, m), n).out]
<1> DEFINE a == At(st, m)
<1> DEFINE p == fill_keystream(st, m).out
<1> DEFINE S == {k \in Nat :
      fill_keystream(st, m + k)
        = [fill_keystream(a, k) EXCEPT !.out = p \o fill_keystream(a, k).out]}
<1>1. a \in States /\ a.schedule = st.schedule /\ st.schedule \in [0 .. N - 1 -> Words]
  BY AtFacts DEF States
<1>2. p \in Seq(Bytes)
  BY FillLength
<1>3. 0 \in S
  <2>1. fill_keystream(a, 0) = [fill_keystream(st, m) EXCEPT !.out = <<>>]
    BY <1>1, FillSteps, AtFacts
  <2>2. p \o <<>> = p
    BY <1>2, ConcatEmptySeq
  <2>3. fill_keystream(st, m) \in Locals
    BY FillSteps
  <2> DEFINE l == fill_keystream(st, m)
  <2>4. l = [[l EXCEPT !.out = <<>>] EXCEPT !.out = l.out] /\ [l EXCEPT !.out = <<>>].out = <<>>
    BY <2>3 DEF Locals
  <2>5. m + 0 = m
    OBVIOUS
  <2>6. fill_keystream(st, m + 0) = [fill_keystream(a, 0) EXCEPT !.out = p \o fill_keystream(a, 0).out]
    BY <2>1, <2>2, <2>4, <2>5
  <2> QED BY <2>6
<1>4. ASSUME NEW k \in S PROVE k + 1 \in S
  <2> DEFINE r == fill_keystream(a, k)
  <2>1. /\ k \in Nat /\ m + k \in Nat /\ m + (k + 1) = (m + k) + 1
        /\ fill_keystream(st, m + k) = [r EXCEPT !.out = p \o r.out]
    OBVIOUS
  <2>2. /\ fill_keystream(st, (m + k) + 1) = Slot(fill_keystream(st, m + k), st.schedule)
        /\ fill_keystream(a, k + 1) = Slot(r, st.schedule) /\ r \in Locals
    BY <1>1, <2>1, FillSteps
  <2>3. Slot([r EXCEPT !.out = p \o r.out], st.schedule)
          = [Slot(r, st.schedule) EXCEPT !.out = p \o Slot(r, st.schedule).out]
    BY <1>1, <1>2, <2>2, SlotAfterPrefix
  <2> HIDE DEF a, p, r
  <2>4. fill_keystream(st, m + (k + 1))
          = [fill_keystream(a, k + 1) EXCEPT !.out = p \o fill_keystream(a, k + 1).out]
    BY <2>1, <2>2, <2>3
  <2> QED BY <2>1, <2>4
<1>5. S \in SUBSET Nat
  OBVIOUS
<1> HIDE DEF S
<1>6. S = Nat
  BY <1>3, <1>4, <1>5, Induction
<1> QED BY <1>6 DEF S

\* Byte j of the keystream of a state, from 1.
ByteAt(st, j) == fill_keystream(st, j).out[j]

\* It does not depend on how much is asked for, or on where a call was cut.
LEMMA ByteFacts ==
  ASSUME NEW st \in States
  PROVE  /\ \A j \in Nat \ {0} : ByteAt(st, j) \in Bytes
         /\ \A n \in Nat : \A j \in 1 .. n : fill_keystream(st, n).out[j] = ByteAt(st, j)
         /\ \A m \in Nat, j \in Nat \ {0} : ByteAt(At(st, m), j) = ByteAt(st, m + j)
<1>1. ASSUME NEW m \in Nat, NEW n \in Nat
      PROVE  /\ fill_keystream(st, m + n).out
                  = fill_keystream(st, m).out \o fill_keystream(At(st, m), n).out
             /\ fill_keystream(st, m).out \in Seq(Bytes) /\ Len(fill_keystream(st, m).out) = m
             /\ fill_keystream(At(st, m), n).out \in Seq(Bytes)
             /\ Len(fill_keystream(At(st, m), n).out) = n
  <2>1. At(st, m) \in States
    BY AtFacts
  <2>2. fill_keystream(At(st, m), n) \in Locals
    BY <2>1, FillSteps
  <2> DEFINE r == fill_keystream(At(st, m), n)
  <2> DEFINE q == fill_keystream(st, m).out \o r.out
  <2>3. [r EXCEPT !.out = q].out = q
    BY <2>2 DEF Locals
  <2>4. fill_keystream(st, m + n) = [r EXCEPT !.out = q]
    BY FillComposes
  <2>5. fill_keystream(st, m).out \in Seq(Bytes) /\ Len(fill_keystream(st, m).out) = m
    BY FillLength
  <2>6. r.out \in Seq(Bytes) /\ Len(r.out) = n
    BY <2>1, FillLength
  <2> QED BY <2>3, <2>4, <2>5, <2>6
<1>2. ASSUME NEW j \in Nat \ {0} PROVE ByteAt(st, j) \in Bytes
  <2>1. fill_keystream(st, j).out \in Seq(Bytes) /\ Len(fill_keystream(st, j).out) = j
    BY FillLength
  <2>2. j \in 1 .. Len(fill_keystream(st, j).out)
    BY <2>1
  <2> QED BY <2>1, <2>2, ElementOfSeq DEF ByteAt
<1>3. ASSUME NEW n \in Nat, NEW j \in 1 .. n
      PROVE  fill_keystream(st, n).out[j] = ByteAt(st, j)
  <2>1. j \in Nat /\ n - j \in Nat /\ j + (n - j) = n
    OBVIOUS
  <2> DEFINE s == fill_keystream(st, j).out
  <2> DEFINE t == fill_keystream(At(st, j), n - j).out
  <2>2. /\ fill_keystream(st, n).out = s \o t
        /\ s \in Seq(Bytes) /\ Len(s) = j /\ t \in Seq(Bytes) /\ Len(t) = n - j
    <3> DEFINE d == n - j
    <3>1. d \in Nat /\ j + d = n
      BY <2>1
    <3> HIDE DEF d
    <3>2. /\ fill_keystream(st, j + d).out
               = fill_keystream(st, j).out \o fill_keystream(At(st, j), d).out
          /\ fill_keystream(st, j).out \in Seq(Bytes) /\ Len(fill_keystream(st, j).out) = j
          /\ fill_keystream(At(st, j), d).out \in Seq(Bytes)
          /\ Len(fill_keystream(At(st, j), d).out) = d
      BY <1>1, <2>1, <3>1
    <3> QED BY <3>1, <3>2 DEF d
  <2> HIDE DEF s, t
  <2>3. (s \o t)[j] = s[j]
    BY <2>1, <2>2, ConcatProperties
  <2> QED BY <2>2, <2>3 DEF s, ByteAt
<1>4. ASSUME NEW m \in Nat, NEW j \in Nat \ {0}
      PROVE  ByteAt(At(st, m), j) = ByteAt(st, m + j)
  <2> DEFINE s == fill_keystream(st, m).out
  <2> DEFINE t == fill_keystream(At(st, m), j).out
  <2>2. /\ fill_keystream(st, m + j).out = s \o t
        /\ s \in Seq(Bytes) /\ Len(s) = m /\ t \in Seq(Bytes) /\ Len(t) = j
    BY <1>1
  <2> HIDE DEF s, t
  <2>3. m + j \in 1 .. m + j /\ ~(m + j <= m) /\ (m + j) - m = j
    OBVIOUS
  <2>4. (s \o t)[m + j] = t[j]
    BY <2>2, <2>3, ConcatProperties
  <2> QED BY <2>2, <2>4 DEF t, ByteAt
<1> QED BY <1>2, <1>3, <1>4
\* Two calls leave the state that one of both lengths leaves.
LEMMA AtComposes ==
  ASSUME NEW st \in States, NEW m \in Nat, NEW n \in Nat
  PROVE  At(At(st, m), n) = At(st, m + n)
<1> DEFINE a == At(st, m)
<1> DEFINE r == fill_keystream(a, n)
<1> DEFINE q == fill_keystream(st, m).out \o r.out
<1>0. m + n \in Nat
  OBVIOUS
<1>1. a \in States /\ r \in Locals /\ At(a, n) \in States /\ At(st, m + n) \in States
  <2>1. a \in States /\ At(st, m + n) \in States
    BY <1>0, AtFacts
  <2> HIDE DEF a
  <2>2. At(a, n) \in States /\ fill_keystream(a, n) \in Locals
    BY <2>1, AtFacts, FillSteps
  <2> QED BY <2>1, <2>2
<1>2. fill_keystream(st, m + n) = [r EXCEPT !.out = q]
  BY FillComposes
<1>3. /\ At(a, n).w = r.state /\ At(a, n).round_index = r.index
      /\ At(a, n).schedule = st.schedule
  BY <1>1, AtFacts
<1>4. /\ At(st, m + n).w = [r EXCEPT !.out = q].state
      /\ At(st, m + n).round_index = [r EXCEPT !.out = q].index
      /\ At(st, m + n).schedule = st.schedule
  <2>1. /\ At(st, m + n).w = fill_keystream(st, m + n).state
        /\ At(st, m + n).round_index = fill_keystream(st, m + n).index
        /\ At(st, m + n).schedule = st.schedule
    BY <1>0, AtFacts
  <2> QED BY <1>2, <2>1
<1> HIDE DEF q, r, a
<1>5. [r EXCEPT !.out = q].state = r.state /\ [r EXCEPT !.out = q].index = r.index
  BY <1>1 DEF Locals
<1>6. \A x, y \in States : x.w = y.w /\ x.round_index = y.round_index /\ x.schedule = y.schedule => x = y
  BY DEF States
<1>7. At(a, n) = At(st, m + n)
  BY <1>1, <1>3, <1>4, <1>5, <1>6
<1> QED BY <1>7 DEF a

\* A call without bytes changes nothing.
LEMMA AtZero ==
  ASSUME NEW st \in States
  PROVE  At(st, 0) = st
<1>1. fill_keystream(st, 0).state = st.w /\ fill_keystream(st, 0).index = st.round_index
  BY FillSteps DEF Start
<1> QED BY <1>1 DEF At, States

\* A fresh instance is a state.
LEMMA NewType ==
  ASSUME NEW k \in Keys
  PROVE  New(k) \in States
<1> DEFINE n == WARMUP_ROUNDS
<1> DEFINE step == [p \in Nat \X Words |-> Round(p[2], k.schedule[p[1] % N])]
<1> DEFINE Body(h) == [r \in 0 .. n |->
      IF r = 0 THEN k.w ELSE Round(h[r - 1], k.schedule[(r - 1) % N])]
<1> DEFINE warm == CHOOSE h : h = Body(h)
<1>1. k.w \in Words /\ k.schedule \in [0 .. N - 1 -> Words] /\ n \in Nat
  BY KeyAssumption, WarmupAssumption
<1>2. \A r \in Nat, s \in Words :
        /\ step[<<r, s>>] = Round(s, k.schedule[r % N])
        /\ step[<<r, s>>] \in Words
  BY <1>1, RoundType, AfterIsRemainder
<1>3. step \in [Nat \X Words -> Words]
  BY <1>1, RoundType, AfterIsRemainder
<1>4. New(k) = [w |-> warm[n], schedule |-> k.schedule, round_index |-> n % M]
  BY DEF New
<1> HIDE DEF step, n
<1>5. PICK f \in [0 .. n -> Words] : f[0] = k.w /\ Follows(f, Words, step, n)
  BY <1>1, <1>3, LoopExists
<1>6. ASSUME NEW r \in 1 .. n PROVE f[r] = Round(f[r - 1], k.schedule[(r - 1) % N])
  <2>1. r - 1 \in Nat /\ r - 1 \in 0 .. n
    BY <1>1
  <2>2. f[r - 1] \in Words
    BY <2>1
  <2> QED BY <1>2, <1>5, <2>1, <2>2 DEF Follows
<1>7. f = Body(f)
  BY <1>1, <1>5, <1>6
<1>8. warm = Body(warm)
  BY <1>7
<1> HIDE DEF warm
<1>9. Follows(warm, Words, step, n)
  <2> SUFFICES ASSUME NEW r \in 1 .. n, warm[r - 1] \in Words
               PROVE  warm[r] = step[<<r - 1, warm[r - 1]>>]
    BY DEF Follows
  <2>1. r - 1 \in Nat /\ r \in 0 .. n /\ r # 0
    BY <1>1
  <2> QED BY <1>2, <1>8, <2>1
<1>10. warm[n] = f[n]
  <2>1. warm[0] = k.w
    BY <1>1, <1>8
  <2>2. \A r \in 0 .. n : f[r] = warm[r]
    BY <1>1, <1>5, <1>9, <2>1, LoopUnique
  <2> QED BY <1>1, <2>2
<1>11. warm[n] \in Words /\ (n % M) \in 0 .. M - 1
  <2>1. n \in 0 .. n
    BY <1>1
  <2> QED BY <1>1, <1>5, <1>10, <2>1, WrapFacts, DivMod
<1> QED BY <1>1, <1>4, <1>11 DEF States

-----------------------------------------------------------------------------
\* What a call returns.

\* Every byte of the result is the message's, combined with the keystream's at
\* its place.
LEMMA CombinedFacts ==
  ASSUME NEW st \in States, NEW msg \in Seq(Bytes)
  PROVE  /\ Advanced(st, msg) = At(st, Len(msg))
         /\ Combined(st, msg) \in Seq(Bytes)
         /\ Len(Combined(st, msg)) = Len(msg)
         /\ \A j \in 1 .. Len(msg) : Combined(st, msg)[j] = XorB[<<ByteAt(st, j), msg[j]>>]
<1> DEFINE n == Len(msg)
<1>1. n \in Nat
  OBVIOUS
<1>2. Advanced(st, msg) = At(st, n)
  BY DEF Advanced, At
<1>3. Combined(st, msg) = [j \in 1 .. n |-> XorB[<<fill_keystream(st, n).out[j], msg[j]>>]]
  BY DEF Combined
<1>4. ASSUME NEW j \in 1 .. n
      PROVE  /\ fill_keystream(st, n).out[j] = ByteAt(st, j)
             /\ XorB[<<ByteAt(st, j), msg[j]>>] \in Bytes
  <2>1. j \in Nat \ {0} /\ msg[j] \in Bytes
    BY ElementOfSeq
  <2>2. ByteAt(st, j) \in Bytes /\ fill_keystream(st, n).out[j] = ByteAt(st, j)
    BY <1>1, <2>1, ByteFacts
  <2> QED BY <2>1, <2>2, XorAssumption
<1> HIDE DEF n
<1>5. Combined(st, msg) \in [1 .. n -> Bytes]
  BY <1>3, <1>4
<1>6. Combined(st, msg) \in Seq(Bytes) /\ Len(Combined(st, msg)) = n
  BY <1>1, <1>5
<1>7. \A j \in 1 .. n : Combined(st, msg)[j] = XorB[<<ByteAt(st, j), msg[j]>>]
  BY <1>3, <1>4
<1> QED BY <1>2, <1>6, <1>7 DEF n

\* Cutting a message in two does not show in what is returned.
LEMMA CombinedConcat ==
  ASSUME NEW st \in States, NEW s \in Seq(Bytes), NEW t \in Seq(Bytes)
  PROVE  Combined(st, s \o t) = Combined(st, s) \o Combined(At(st, Len(s)), t)
<1> DEFINE a == At(st, Len(s))
<1> DEFINE c == Combined(st, s)
<1> DEFINE d == Combined(a, t)
<1> DEFINE e == Combined(st, s \o t)
<1>1. s \o t \in Seq(Bytes) /\ Len(s \o t) = Len(s) + Len(t) /\ Len(s) \in Nat /\ Len(t) \in Nat
  BY ConcatProperties
<1>2. a \in States
  BY <1>1, AtFacts
<1>3. /\ c \in Seq(Bytes) /\ Len(c) = Len(s)
      /\ \A j \in 1 .. Len(s) : c[j] = XorB[<<ByteAt(st, j), s[j]>>]
  BY CombinedFacts
<1>4. /\ d \in Seq(Bytes) /\ Len(d) = Len(t)
      /\ \A j \in 1 .. Len(t) : d[j] = XorB[<<ByteAt(a, j), t[j]>>]
  BY <1>2, CombinedFacts
<1>5. /\ e \in Seq(Bytes) /\ Len(e) = Len(s) + Len(t)
      /\ \A j \in 1 .. Len(s) + Len(t) : e[j] = XorB[<<ByteAt(st, j), (s \o t)[j]>>]
  BY <1>1, CombinedFacts
<1>6. c \o d \in Seq(Bytes) /\ Len(c \o d) = Len(s) + Len(t)
  BY <1>3, <1>4, ConcatProperties
<1>7. ASSUME NEW j \in 1 .. Len(s) + Len(t) PROVE e[j] = (c \o d)[j]
  <2>0. /\ (s \o t)[j] = IF j <= Len(s) THEN s[j] ELSE t[j - Len(s)]
        /\ (c \o d)[j] = IF j <= Len(s) THEN c[j] ELSE d[j - Len(s)]
    BY <1>3, <1>4, ConcatProperties
  <2>1. CASE j <= Len(s)
    <3>1. j \in 1 .. Len(s)
      BY <1>1, <2>1
    <3> QED BY <1>3, <1>5, <2>0, <2>1, <3>1
  <2>2. CASE ~(j <= Len(s))
    <3>1. PICK i \in 1 .. Len(t) : i = j - Len(s) /\ Len(s) + i = j /\ i \in Nat \ {0}
      <4>1. j - Len(s) \in 1 .. Len(t) /\ Len(s) + (j - Len(s)) = j /\ j - Len(s) \in Nat \ {0}
        BY <1>1, <2>2
      <4> QED BY <4>1
    <3>2. ByteAt(a, i) = ByteAt(st, j)
      BY <1>1, <3>1, ByteFacts
    <3>3. e[j] = XorB[<<ByteAt(st, j), t[i]>>] /\ (c \o d)[j] = d[i]
      BY <1>5, <2>0, <2>2, <3>1
    <3>4. d[i] = XorB[<<ByteAt(a, i), t[i]>>]
      BY <1>4, <3>1
    <3> QED BY <3>2, <3>3, <3>4
  <2> QED BY <2>1, <2>2
<1> HIDE DEF c, d, e
<1>8. e = c \o d
  BY <1>5, <1>6, <1>7, SeqEqual
<1> QED BY <1>8 DEF c, d, e
\* A stretch of a sequence.
LEMMA Stretch ==
  ASSUME NEW s \in Seq(Bytes), NEW g \in Nat, NEW n \in Nat, g + n <= Len(s)
  PROVE  /\ SubSeq(s, g + 1, g + n) \in Seq(Bytes)
         /\ Len(SubSeq(s, g + 1, g + n)) = n
         /\ \A j \in 1 .. n : SubSeq(s, g + 1, g + n)[j] = s[g + j]
<1>1. \A i \in g + 1 .. g + n : s[i] \in Bytes
  <2> SUFFICES ASSUME NEW i \in g + 1 .. g + n PROVE s[i] \in Bytes
    OBVIOUS
  <2>1. i \in 1 .. Len(s)
    OBVIOUS
  <2> QED BY <2>1, ElementOfSeq
<1>2. g + 1 \in Int /\ g + n \in Int
  OBVIOUS
<1> DEFINE m == g + 1
<1> DEFINE k == g + n
<1> DEFINE t == SubSeq(s, m, k)
<1>3. /\ t \in Seq(Bytes) /\ Len(t) = IF m <= k THEN k - m + 1 ELSE 0
      /\ \A i \in 1 .. k - m + 1 : t[i] = s[m + i - 1]
  <2> HIDE DEF m, k
  <2>1. m \in Int /\ k \in Int /\ \A i \in m .. k : s[i] \in Bytes
    BY <1>1, <1>2 DEF m, k
  <2> QED BY <2>1, SubSeqProperties
<1> HIDE DEF t
<1>4. t \in Seq(Bytes) /\ Len(t) = n
  BY <1>3
<1>5. ASSUME NEW j \in 1 .. n PROVE t[j] = s[g + j]
  <2>1. j \in 1 .. k - m + 1 /\ m + j - 1 = g + j
    OBVIOUS
  <2> QED BY <1>3, <2>1
<1> QED BY <1>4, <1>5 DEF t

\* Reading a stretch of the ciphertext from the state its place calls for gives
\* that stretch of the plaintext.
LEMMA ReadBack ==
  ASSUME NEW st \in States, NEW s \in Seq(Bytes), NEW g \in Nat, NEW n \in Nat,
         g + n <= Len(s)
  PROVE  /\ SubSeq(Combined(st, s), g + 1, g + n) \in Seq(Bytes)
         /\ Len(SubSeq(Combined(st, s), g + 1, g + n)) = n
         /\ Combined(At(st, g), SubSeq(Combined(st, s), g + 1, g + n)) = SubSeq(s, g + 1, g + n)
<1> DEFINE a == At(st, g)
<1> DEFINE c == Combined(st, s)
<1> DEFINE chunk == SubSeq(c, g + 1, g + n)
<1> DEFINE plain == SubSeq(s, g + 1, g + n)
<1> DEFINE back == Combined(a, chunk)
<1>1. a \in States
  BY AtFacts
<1>2. /\ c \in Seq(Bytes) /\ Len(c) = Len(s)
      /\ \A j \in 1 .. Len(s) : c[j] = XorB[<<ByteAt(st, j), s[j]>>]
  BY CombinedFacts
<1> HIDE DEF c
<1>3. chunk \in Seq(Bytes) /\ Len(chunk) = n /\ \A j \in 1 .. n : chunk[j] = c[g + j]
  BY <1>2, Stretch
<1>4. plain \in Seq(Bytes) /\ Len(plain) = n /\ \A j \in 1 .. n : plain[j] = s[g + j]
  BY Stretch
<1> HIDE DEF a, chunk, plain
<1>5. /\ back \in Seq(Bytes) /\ Len(back) = n
      /\ \A j \in 1 .. n : back[j] = XorB[<<ByteAt(a, j), chunk[j]>>]
  BY <1>1, <1>3, CombinedFacts
<1>6. ASSUME NEW j \in 1 .. n PROVE back[j] = plain[j]
  <2>1. j \in Nat \ {0} /\ g + j \in 1 .. Len(s) /\ g + j \in Nat \ {0}
    OBVIOUS
  <2>2. ByteAt(a, j) = ByteAt(st, g + j)
    BY <2>1, ByteFacts DEF a
  <2>3. s[g + j] \in Bytes
    BY <2>1, ElementOfSeq
  <2>4. ByteAt(st, g + j) \in Bytes
    BY <2>1, ByteFacts
  <2>5. back[j] = XorB[<<ByteAt(st, g + j), XorB[<<ByteAt(st, g + j), s[g + j]>>]>>]
    BY <1>2, <1>3, <1>5, <2>1, <2>2
  <2>6. plain[j] = s[g + j]
    BY <1>4
  <2> QED BY <2>3, <2>4, <2>5, <2>6, XorAssumption
<1> HIDE DEF back
<1>7. back = plain
  BY <1>4, <1>5, <1>6, SeqEqual
<1> QED BY <1>3, <1>7 DEF a, c, chunk, plain, back

-----------------------------------------------------------------------------
\* The sessions.

\* Each side is where the bytes it has handled put it, counted from a fresh
\* instance: nothing else of its history is left in its state.
IInv ==
  /\ key \in Keys
  /\ sent \in Seq(Bytes) /\ got \in Seq(Bytes)
  /\ Len(got) <= Len(sent)
  /\ enc = At(New(key), Len(sent))
  /\ dec = At(New(key), Len(got))
  /\ CutInvisible
  /\ RoundTrip

\* Two fresh instances of one key, and nothing said yet.
LEMMA IInvInit == Init => IInv
<1> SUFFICES ASSUME Init PROVE IInv
  OBVIOUS
<1>1. /\ key \in Keys /\ enc = New(key) /\ dec = New(key)
      /\ sent = <<>> /\ cipher = <<>> /\ got = <<>>
  BY DEF Init
<1>2. New(key) \in States /\ At(New(key), 0) = New(key)
  BY <1>1, NewType, AtZero
<1>3. sent \in Seq(Bytes) /\ got \in Seq(Bytes) /\ Len(sent) = 0 /\ Len(got) = 0
  BY <1>1
<1>4. CutInvisible
  <2>1. Combined(New(key), sent) \in Seq(Bytes) /\ Len(Combined(New(key), sent)) = 0
    BY <1>2, <1>3, CombinedFacts
  <2>2. Combined(New(key), sent) = <<>>
    BY <2>1, EmptySeq
  <2> QED BY <1>1, <2>2 DEF CutInvisible
<1>5. RoundTrip
  <2>1. SubSeq(sent, 1, 0) = <<>>
    BY SubSeqEmpty
  <2> QED BY <1>1, <1>3, <2>1 DEF RoundTrip
<1> QED BY <1>1, <1>2, <1>3, <1>4, <1>5 DEF IInv

\* A call of either side, and a fresh start of the receiver.
LEMMA IInvStep == IInv /\ [Next]_vars => IInv'
<1> SUFFICES ASSUME IInv, [Next]_vars PROVE IInv'
  OBVIOUS
<1> DEFINE base == New(key)
<1>1. /\ key \in Keys /\ base \in States
      /\ sent \in Seq(Bytes) /\ got \in Seq(Bytes)
      /\ Len(sent) \in Nat /\ Len(got) \in Nat /\ Len(got) <= Len(sent)
  BY NewType DEF IInv
<1>2. /\ enc = At(base, Len(sent)) /\ dec = At(base, Len(got))
      /\ cipher = Combined(base, sent)
      /\ got = SubSeq(sent, 1, Len(got))
  BY DEF IInv, CutInvisible, RoundTrip
<1>3. ASSUME NEW msg \in Messages, Encrypt(msg) PROVE IInv'
  <2>1. msg \in Seq(Bytes) /\ Len(msg) \in Nat
    BY MessageAssumption
  <2>2. /\ enc' = Advanced(enc, msg) /\ cipher' = cipher \o Combined(enc, msg)
        /\ sent' = sent \o msg /\ key' = key /\ dec' = dec /\ got' = got
    BY <1>3 DEF Encrypt
  <2>3. sent' \in Seq(Bytes) /\ Len(sent') = Len(sent) + Len(msg)
    BY <1>1, <2>1, <2>2, ConcatProperties
  <2>4. enc \in States
    BY <1>1, <1>2, AtFacts
  <2>5. enc' = At(base, Len(sent'))
    <3>1. enc' = At(enc, Len(msg))
      BY <2>1, <2>2, <2>4, CombinedFacts
    <3>2. At(At(base, Len(sent)), Len(msg)) = At(base, Len(sent) + Len(msg))
      BY <1>1, <2>1, AtComposes
    <3> QED BY <1>2, <2>3, <3>1, <3>2
  <2>6. cipher' = Combined(base, sent')
    BY <1>1, <1>2, <2>1, <2>2, CombinedConcat
  <2>7. got = SubSeq(sent', 1, Len(got))
    <3> DEFINE g == Len(got)
    <3> DEFINE u == SubSeq(sent', 0 + 1, 0 + g)
    <3> DEFINE v == SubSeq(sent, 0 + 1, 0 + g)
    <3>1. g \in Nat /\ 0 \in Nat /\ 0 + g <= Len(sent) /\ 0 + g <= Len(sent')
      BY <1>1, <2>1, <2>3
    <3>2. u \in Seq(Bytes) /\ Len(u) = g /\ \A j \in 1 .. g : u[j] = sent'[0 + j]
      BY <2>3, <3>1, Stretch
    <3>3. v \in Seq(Bytes) /\ Len(v) = g /\ \A j \in 1 .. g : v[j] = sent[0 + j]
      BY <1>1, <3>1, Stretch
    <3>4. ASSUME NEW j \in 1 .. g PROVE u[j] = v[j]
      <4>1. j \in 1 .. Len(sent) + Len(msg) /\ j <= Len(sent) /\ 0 + j = j
        BY <1>1, <2>1, <3>1
      <4>2. sent'[j] = sent[j]
        BY <1>1, <2>1, <2>2, <4>1, ConcatProperties
      <4> QED BY <3>2, <3>3, <4>1, <4>2
    <3> HIDE DEF u, v
    <3>5. u = v
      BY <3>2, <3>3, <3>4, SeqEqual
    <3>6. 0 + 1 = 1 /\ 0 + g = g
      BY <3>1
    <3> QED BY <1>2, <3>5, <3>6 DEF u, v
  <2>8. Len(got) <= Len(sent')
    BY <1>1, <2>1, <2>3
  <2> QED BY <1>1, <1>2, <2>2, <2>3, <2>5, <2>6, <2>7, <2>8
          DEF IInv, CutInvisible, RoundTrip
<1>4. ASSUME NEW n \in 0 .. Len(cipher) - Len(got), Decrypt(n) PROVE IInv'
  <2> DEFINE g == Len(got)
  <2> DEFINE chunk == SubSeq(cipher, g + 1, g + n)
  <2>1. /\ dec' = Advanced(dec, chunk) /\ got' = got \o Combined(dec, chunk)
        /\ key' = key /\ enc' = enc /\ sent' = sent /\ cipher' = cipher
    BY <1>4 DEF Decrypt
  <2>2. Len(cipher) = Len(sent)
    BY <1>1, <1>2, CombinedFacts
  <2>3. n \in Nat /\ g \in Nat /\ g + n <= Len(sent)
    BY <1>1, <2>2
  <2>4. /\ chunk \in Seq(Bytes) /\ Len(chunk) = n
        /\ Combined(At(base, g), chunk) = SubSeq(sent, g + 1, g + n)
    <3> DEFINE c == Combined(base, sent)
    <3> DEFINE part == SubSeq(c, g + 1, g + n)
    <3>1. /\ part \in Seq(Bytes) /\ Len(part) = n
          /\ Combined(At(base, g), part) = SubSeq(sent, g + 1, g + n)
      <4> HIDE DEF base, g
      <4>1. \A i, k \in Nat : i + k <= Len(sent) =>
              /\ SubSeq(c, i + 1, i + k) \in Seq(Bytes)
              /\ Len(SubSeq(c, i + 1, i + k)) = k
              /\ Combined(At(base, i), SubSeq(c, i + 1, i + k)) = SubSeq(sent, i + 1, i + k)
        BY <1>1, ReadBack
      <4> HIDE DEF c
      <4> QED BY <2>3, <4>1
    <3>2. part = chunk
      BY <1>2
    <3> HIDE DEF part, chunk
    <3> QED BY <3>1, <3>2
  <2> HIDE DEF chunk
  <2>5. dec \in States
    BY <1>1, <1>2, AtFacts
  <2>6. dec' = At(base, g + n)
    <3>1. dec' = At(dec, n)
      BY <2>1, <2>4, <2>5, CombinedFacts
    <3>2. At(At(base, g), n) = At(base, g + n)
      BY <1>1, <2>3, AtComposes
    <3> QED BY <1>2, <3>1, <3>2
  <2>7. got' = SubSeq(sent, 1, g + n)
    <3>1. got' = SubSeq(sent, 1, g) \o SubSeq(sent, g + 1, g + n)
      BY <1>2, <2>1, <2>4
    <3>2. 1 \in 1 .. Len(sent) + 1 /\ g \in 1 - 1 .. Len(sent) /\ g + n \in g .. Len(sent)
      BY <1>1, <2>3
    <3>3. SubSeq(sent, 1, g) \o SubSeq(sent, g + 1, g + n) = SubSeq(sent, 1, g + n)
      BY <1>1, <3>2, ConcatAdjacentSubSeq
    <3> QED BY <3>1, <3>3
  <2>8. got' \in Seq(Bytes) /\ Len(got') = g + n
    <3>1. 0 \in Nat /\ g + n \in Nat /\ 0 + (g + n) <= Len(sent) /\ 0 + 1 = 1 /\ 0 + (g + n) = g + n
      BY <2>3
    <3>2. SubSeq(sent, 0 + 1, 0 + (g + n)) \in Seq(Bytes) /\ Len(SubSeq(sent, 0 + 1, 0 + (g + n))) = g + n
      BY <1>1, <3>1, Stretch
    <3> QED BY <2>7, <3>1, <3>2
  <2> QED BY <1>1, <1>2, <2>1, <2>3, <2>6, <2>7, <2>8
          DEF IInv, CutInvisible, RoundTrip
<1>5. CASE Reopen
  <2>1. dec' = base /\ got' = <<>> /\ key' = key /\ enc' = enc /\ sent' = sent /\ cipher' = cipher
    BY <1>5 DEF Reopen
  <2>2. At(base, 0) = base /\ Len(<<>>) = 0 /\ <<>> \in Seq(Bytes) /\ SubSeq(sent, 1, 0) = <<>>
    BY <1>1, AtZero, SubSeqEmpty
  <2>3. 0 <= Len(sent)
    BY <1>1
  <2> QED BY <1>1, <1>2, <2>1, <2>2, <2>3 DEF IInv, CutInvisible, RoundTrip
<1>6. CASE UNCHANGED vars
  BY <1>6 DEF vars, IInv, CutInvisible, RoundTrip
<1> QED BY <1>3, <1>4, <1>5, <1>6 DEF Next

\* Both states stay states, and all that is kept is bytes (Pich256, State).
THEOREM TypeCorrect == Spec => []TypeOK
<1>1. IInv => TypeOK
  <2> SUFFICES ASSUME IInv PROVE TypeOK
    OBVIOUS
  <2>1. /\ key \in Keys /\ sent \in Seq(Bytes) /\ got \in Seq(Bytes)
        /\ Len(sent) \in Nat /\ Len(got) \in Nat /\ New(key) \in States
    BY NewType DEF IInv
  <2>2. enc \in States /\ dec \in States
    BY <2>1, AtFacts DEF IInv
  <2>3. cipher \in Seq(Bytes)
    BY <2>1, CombinedFacts DEF IInv, CutInvisible
  <2> QED BY <2>1, <2>2, <2>3 DEF TypeOK, States
<1> QED BY IInvInit, IInvStep, <1>1, PTL DEF Spec

\* The receiver has what the sender was given, however both cut their calls and
\* after any number of fresh starts (pich256.rs:24-39).
THEOREM ReceiverReads == Spec => []RoundTrip
<1>1. IInv => RoundTrip
  BY DEF IInv
<1> QED BY IInvInit, IInvStep, <1>1, PTL DEF Spec

\* The ciphertext is the one of a single call: fill_keystream carries on where
\* it was, for calls of any length, none included (pich256.rs:24-39).
THEOREM CallsCompose == Spec => []CutInvisible
<1>1. IInv => CutInvisible
  BY DEF IInv
<1> QED BY IInvInit, IInvStep, <1>1, PTL DEF Spec

\* A receiver that has read everything could be the sender.
THEOREM SidesMeet == Spec => []InStep
<1>1. IInv => InStep
  <2> SUFFICES ASSUME IInv, Len(got) = Len(cipher) PROVE dec = enc
    BY DEF InStep
  <2>1. key \in Keys /\ sent \in Seq(Bytes) /\ New(key) \in States
    BY NewType DEF IInv
  <2>2. Len(cipher) = Len(sent)
    BY <2>1, CombinedFacts DEF IInv, CutInvisible
  <2> QED BY <2>2 DEF IInv
<1> QED BY IInvInit, IInvStep, <1>1, PTL DEF Spec
=============================================================================
