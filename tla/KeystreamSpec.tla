---------------------------- MODULE KeystreamSpec ----------------------------
(***************************************************************************)
(* What the cipher promises its callers, free of counters that wrap, loop  *)
(* locals and write-backs: the state goes through rounds number 0, 1, 2... *)
(* of a round-robin over the schedule, and once the warm-up is over every  *)
(* second round adds one byte to the keystream.  Whichever entry point a   *)
(* caller uses, and however it cuts its requests, the stream is this one.  *)
(***************************************************************************)
EXTENDS Cipher

VARIABLES
  key,     \* the expanded key, fixed for the life of the instance
  word,    \* the cipher state
  rounds,  \* rounds made since construction: a natural number, never wrapped
  stream   \* every keystream byte produced so far

vars == <<key, word, rounds, stream>>

Init ==
  /\ key \in Keys
  /\ word = key.w
  /\ rounds = 0
  /\ stream = <<>>

\* Round number r ends the r'-th byte: two rounds a byte after the warm-up.
EndsByte(r) == r > WARMUP_ROUNDS /\ (r - WARMUP_ROUNDS) % 2 = 0

Step ==
  /\ word' = Round(word, key.schedule[rounds % N])
  /\ rounds' = rounds + 1
  /\ stream' = IF EndsByte(rounds + 1) THEN Append(stream, Tap(word')) ELSE stream
  /\ UNCHANGED key

Spec == Init /\ [][Step]_vars
=============================================================================
