------------------------------ MODULE Keystream ------------------------------
(***************************************************************************)
(* One cipher instance: State of pich256.rs together with the keystream    *)
(* loop of arch/mod.rs that it lends its fields to.                        *)
(*                                                                         *)
(* State keeps w, the schedule and round_index, a usize that wraps.  The   *)
(* bulk loop copies w and round_index into locals, tracks the position in  *)
(* the schedule separately to avoid a division per round, and writes the   *)
(* two fields back when the buffer is full; next_byte runs the rounds on   *)
(* the fields themselves.  Both must be the same stream.                   *)
(*                                                                         *)
(* All calls take &mut self, so nothing interleaves inside an instance.    *)
(***************************************************************************)
EXTENDS Cipher

CONSTANTS
  MaxRounds,  \* bound: rounds an instance makes in its life
  MaxLen      \* bound: bytes asked of one fill_keystream call

ASSUME BoundAssumption == MaxRounds \in Nat /\ MaxLen \in Nat

VARIABLES
  pc,           \* "new" | "idle" | "byte" (inside next_byte) | "fill"
  w,            \* State.w
  sub_keys,     \* the sub_key words of State.sub_keys, which next_rk reads
  schedule,     \* State.schedule, the same words flattened, which the loop reads
  round_index,  \* State.round_index
  state,        \* local of the loop: the running word
  index,        \* local of the loop: the running counter
  pos,          \* local of the loop: position in the schedule
  i,            \* local: rounds made in the current 0..WARMUP_ROUNDS or 0..2 loop
  want,         \* length of the buffer being filled
  out,          \* the slots of it already written
  key,          \* history: the expanded key the instance was built from
  rounds,       \* history: rounds made since construction, not wrapped
  given         \* history: bytes returned by the calls that have ended

fields == <<w, round_index>>
locals == <<state, index, pos, want>>
expanded == <<sub_keys, schedule>>
vars == <<pc, w, sub_keys, schedule, round_index, state, index, pos, i, want,
          out, key, rounds, given>>

\* State::new up to the warm-up loop.  key.w is the high limb of the derived
\* key, key.schedule the sub_keys expanded from the low limb.
Init ==
  /\ key \in Keys
  /\ pc = "new"
  /\ w = key.w
  /\ sub_keys = key.schedule
  /\ schedule = sub_keys
  /\ round_index = 0
  /\ state = w /\ index = 0 /\ pos = 0 /\ i = 0 /\ want = 0 /\ out = <<>>
  /\ rounds = 0
  /\ given = <<>>

\* Mutant of next_rk: the counter moves on before the key is taken.
next_rk_advanced == sub_keys[(round_index + 1) % N]

\* next_rk: the key under the counter, then wrapping_add(1).
next_rk == sub_keys[round_index % N]

\* round(): the fields advance by one round.
round ==
  /\ w' = Round(w, next_rk)
  /\ round_index' = (round_index + 1) % M
  /\ rounds' = rounds + 1

\* Mutant of WarmUp: an inclusive range, one warm-up round too many.
WarmUpInclusive ==
  /\ pc = "new"
  /\ round
  /\ i' = IF i = WARMUP_ROUNDS THEN 0 ELSE i + 1
  /\ pc' = IF i = WARMUP_ROUNDS THEN "idle" ELSE "new"
  /\ UNCHANGED <<expanded, locals, out, key, given>>

\* One turn of the warm-up loop; the last one returns the instance.
WarmUp ==
  /\ pc = "new"
  /\ round
  /\ i' = IF i + 1 = WARMUP_ROUNDS THEN 0 ELSE i + 1
  /\ pc' = IF i + 1 = WARMUP_ROUNDS THEN "idle" ELSE "new"
  /\ UNCHANGED <<expanded, locals, out, key, given>>

\* next_byte: the first of its two rounds.
NextByteFirst ==
  /\ pc = "idle"
  /\ rounds + 2 <= MaxRounds
  /\ round
  /\ pc' = "byte"
  /\ i' = 1
  /\ UNCHANGED <<expanded, locals, out, key, given>>

\* next_byte: the second round, and the byte its result names.
NextByteSecond ==
  /\ pc = "byte"
  /\ round
  /\ pc' = "idle"
  /\ i' = 0
  /\ given' = Append(given, Tap(w'))
  /\ UNCHANGED <<expanded, locals, out, key>>

\* Mutant of BeginFill: every call starts again at the schedule's first key.
BeginFillAtZero(n) ==
  /\ pc = "idle"
  /\ rounds + 2 * n <= MaxRounds
  /\ pc' = "fill"
  /\ state' = w /\ index' = round_index /\ pos' = 0
  /\ want' = n
  /\ out' = <<>>
  /\ UNCHANGED <<fields, expanded, i, key, rounds, given>>

\* fill_keystream: the fields are copied out and the loop is entered.
BeginFill(n) ==
  /\ pc = "idle"
  /\ rounds + 2 * n <= MaxRounds
  /\ pc' = "fill"
  /\ state' = w
  /\ index' = round_index
  /\ pos' = round_index % N
  /\ want' = n
  /\ out' = <<>>
  /\ UNCHANGED <<fields, expanded, i, key, rounds, given>>

\* Mutant of LoopRound: the reset is tested against the wrong end.
LoopRoundLateReset ==
  /\ state' = Round(state, schedule[pos])
  /\ pos' = IF pos = N THEN 0 ELSE pos + 1
  /\ rounds' = rounds + 1

\* The loop's round: the key under pos, then pos moves on or returns to 0.
LoopRound ==
  /\ state' = Round(state, schedule[pos])
  /\ pos' = IF pos + 1 = N THEN 0 ELSE pos + 1
  /\ rounds' = rounds + 1

FillFirst ==
  /\ pc = "fill" /\ Len(out) < want /\ i = 0
  /\ LoopRound
  /\ i' = 1
  /\ UNCHANGED <<pc, fields, expanded, index, want, out, key, given>>

\* The second round of a slot; the counter follows once per slot.
FillSecond ==
  /\ pc = "fill" /\ i = 1
  /\ LoopRound
  /\ i' = 0
  /\ index' = (index + 2) % M
  /\ out' = Append(out, Tap(state'))
  /\ UNCHANGED <<pc, fields, expanded, want, key, given>>

\* Mutant of EndFill: only the counter is written back.
EndFillKeepsWord ==
  /\ pc = "fill" /\ Len(out) = want /\ i = 0
  /\ pc' = "idle"
  /\ w' = w
  /\ round_index' = index
  /\ given' = given \o out
  /\ out' = <<>>
  /\ UNCHANGED <<expanded, locals, i, key, rounds>>

\* Buffer full: the loop and fill_keystream write the two fields back.
EndFill ==
  /\ pc = "fill" /\ Len(out) = want /\ i = 0
  /\ pc' = "idle"
  /\ w' = state
  /\ round_index' = index
  /\ given' = given \o out
  /\ out' = <<>>
  /\ UNCHANGED <<expanded, locals, i, key, rounds>>

Next ==
  \/ WarmUp
  \/ NextByteFirst
  \/ NextByteSecond
  \/ \E n \in 0 .. MaxLen : BeginFill(n)
  \/ FillFirst
  \/ FillSecond
  \/ EndFill

Spec == Init /\ [][Next]_vars

-----------------------------------------------------------------------------
\* The type of every variable; the counters stay below M and the loop's
\* position stays inside the schedule it indexes.
TypeOK ==
  /\ pc \in {"new", "idle", "byte", "fill"}
  /\ key \in Keys
  /\ w \in Words
  /\ {sub_keys, schedule} \subseteq [0 .. N - 1 -> Words]
  /\ round_index \in 0 .. M - 1
  /\ state \in Words
  /\ index \in 0 .. M - 1
  /\ pos \in 0 .. N - 1
  /\ i \in Nat
  /\ want \in Nat
  /\ out \in Seq(Bytes)
  /\ rounds \in Nat
  /\ given \in Seq(Bytes)

\* Wherever the instance is, the counter it will resume from and the position
\* the loop will read are those of the number of rounds really made, even
\* after round_index has wrapped: the wrapping counter of State::round and the
\* division-free position of arch::keystream_core never drift apart.
CountersAgree ==
  /\ pc # "fill" => round_index = rounds % M
  /\ pc = "fill" => /\ index = (rounds - i) % M
                    /\ pos = rounds % N

\* Two rounds for every byte handed out or waiting in the buffer, and none
\* lost or repeated between calls: a call that returns never leaves the
\* instance in the middle of a byte, so no two bytes come from the same rounds.
TwoRoundsPerByte ==
  IF pc = "new"
    THEN rounds = i /\ given = <<>> /\ out = <<>>
    ELSE /\ rounds = WARMUP_ROUNDS + 2 * (Len(given) + Len(out)) + i
         /\ i \in {0, 1}
         /\ pc = "idle" => i = 0 /\ out = <<>>

\* The reference keystream, with the field or the loop's local as the state,
\* whichever is live, and the bytes in the buffer as part of the stream.
Reference == INSTANCE KeystreamSpec WITH
  word <- IF pc = "fill" THEN state ELSE w,
  stream <- given \o out

\* The fields, the loop, its counters and its write-back together implement
\* the reference keystream: any mix of next_byte and fill_keystream calls, of
\* any lengths, yields the one stream the key determines.
RefinesReference == Reference!Spec
=============================================================================
