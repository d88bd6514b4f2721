------------------------------- MODULE Session -------------------------------
(***************************************************************************)
(* Two instances of Pich256 built from one base key: one encrypts, the     *)
(* other decrypts what the first produced, in order.  Each side cuts its   *)
(* calls as it likes and they interleave freely; the receiver may also be  *)
(* dropped and built afresh, and then reads the ciphertext from its start. *)
(* A call holds its instance exclusively (&mut self), so it is one step.   *)
(***************************************************************************)
EXTENDS Cipher

CONSTANTS
  XorB,      \* <<dst, src>> |-> their exclusive or, as xor_into leaves it in dst
  Messages,  \* the byte strings given to one call of encrypt
  MaxBytes   \* bound: plaintext bytes encrypted in all

ASSUME XorAssumption ==
  /\ XorB \in [Bytes \X Bytes -> Bytes]
  /\ \A k, a \in Bytes : XorB[<<k, XorB[<<k, a>>]>>] = a

ASSUME MessageAssumption == Messages \subseteq Seq(Bytes) /\ MaxBytes \in Nat

\* State::new: the expanded key, and WARMUP_ROUNDS rounds on it.
New(key) ==
  LET warm[r \in 0 .. WARMUP_ROUNDS] ==
        IF r = 0 THEN key.w ELSE Round(warm[r - 1], key.schedule[(r - 1) % N])
  IN [w |-> warm[WARMUP_ROUNDS], schedule |-> key.schedule,
      round_index |-> WARMUP_ROUNDS % M]

After(pos) == IF pos + 1 = N THEN 0 ELSE pos + 1

\* Mutant of Slot: plain addition, which runs past usize::MAX.
SlotWithoutWrap(l, schedule) ==
  LET once == Round(l.state, schedule[l.pos])
      twice == Round(once, schedule[After(l.pos)])
  IN [state |-> twice, pos |-> After(After(l.pos)), index |-> l.index + 2,
      out |-> Append(l.out, Tap(twice))]

\* Mutant of Slot: the counter follows the bytes, not the rounds.
SlotCountingBytes(l, schedule) ==
  LET once == Round(l.state, schedule[l.pos])
      twice == Round(once, schedule[After(l.pos)])
  IN [state |-> twice, pos |-> After(After(l.pos)), index |-> (l.index + 1) % M,
      out |-> Append(l.out, Tap(twice))]

\* One slot of the loop of arch::keystream_core, on its locals.
Slot(l, schedule) ==
  LET once == Round(l.state, schedule[l.pos])
      twice == Round(once, schedule[After(l.pos)])
  IN [state |-> twice, pos |-> After(After(l.pos)), index |-> (l.index + 2) % M,
      out |-> Append(l.out, Tap(twice))]

\* Mutant of fill_keystream: every call starts again at the schedule's first key.
FillFromFirstKey(st, n) ==
  LET loop[k \in 0 .. n] ==
        IF k = 0
          THEN [state |-> st.w, pos |-> 0, index |-> st.round_index, out |-> <<>>]
          ELSE Slot(loop[k - 1], st.schedule)
  IN loop[n]

\* fill_keystream over a buffer of n bytes: the locals when the loop is over.
fill_keystream(st, n) ==
  LET loop[k \in 0 .. n] ==
        IF k = 0
          THEN [state |-> st.w, pos |-> st.round_index % N,
                index |-> st.round_index, out |-> <<>>]
          ELSE Slot(loop[k - 1], st.schedule)
  IN loop[n]

\* Mutant of Advanced: the counter is not written back.
AdvancedWordOnly(st, msg) == [st EXCEPT !.w = fill_keystream(st, Len(msg)).state]

\* encrypt, and decrypt, which is the same call: the state it leaves ...
Advanced(st, msg) ==
  LET l == fill_keystream(st, Len(msg))
  IN [st EXCEPT !.w = l.state, !.round_index = l.index]

\* ... and the bytes it returns.
Combined(st, msg) ==
  LET l == fill_keystream(st, Len(msg))
  IN [j \in 1 .. Len(msg) |-> XorB[<<l.out[j], msg[j]>>]]

VARIABLES
  key,     \* what the base key both sides were given expands to
  enc,     \* the sender's State
  dec,     \* the receiver's State
  sent,    \* history: the plaintext encrypted so far
  cipher,  \* the ciphertext, kept in order
  got      \* what the receiver has decrypted of it: as many bytes as it has read

vars == <<key, enc, dec, sent, cipher, got>>

Init ==
  /\ key \in Keys
  /\ enc = New(key)
  /\ dec = New(key)
  /\ sent = <<>> /\ cipher = <<>> /\ got = <<>>

Encrypt(msg) ==
  /\ Len(sent) + Len(msg) <= MaxBytes
  /\ enc' = Advanced(enc, msg)
  /\ cipher' = cipher \o Combined(enc, msg)
  /\ sent' = sent \o msg
  /\ UNCHANGED <<key, dec, got>>

\* The receiver decrypts the next n bytes it has not read.
Decrypt(n) ==
  LET chunk == SubSeq(cipher, Len(got) + 1, Len(got) + n)
  IN /\ dec' = Advanced(dec, chunk)
     /\ got' = got \o Combined(dec, chunk)
     /\ UNCHANGED <<key, enc, sent, cipher>>

\* The receiver is built again from the base key and starts over.
Reopen ==
  /\ dec' = New(key)
  /\ got' = <<>>
  /\ UNCHANGED <<key, enc, sent, cipher>>

Next ==
  \/ \E msg \in Messages : Encrypt(msg)
  \/ \E n \in 0 .. Len(cipher) - Len(got) : Decrypt(n)
  \/ Reopen

Spec == Init /\ [][Next]_vars

-----------------------------------------------------------------------------
TypeOK ==
  /\ key \in Keys
  /\ {enc, dec} \subseteq
       [w : Words, schedule : [0 .. N - 1 -> Words], round_index : 0 .. M - 1]
  /\ {sent, cipher, got} \subseteq Seq(Bytes)

\* What the receiver has is what the sender was given, however the two sides
\* cut their calls, whichever is ahead, and after any number of fresh starts.
RoundTrip == got = SubSeq(sent, 1, Len(got))

\* The ciphertext does not show how the plaintext was cut into calls: it is the
\* one a single call on a fresh instance makes of all of it.
CutInvisible == cipher = Combined(New(key), sent)

\* A receiver that has read everything is in the sender's state, counter
\* included, so the two can exchange roles from there.
InStep == Len(got) = Len(cipher) => dec = enc
=============================================================================
