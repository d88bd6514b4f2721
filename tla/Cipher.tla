------------------------------- MODULE Cipher -------------------------------
(***************************************************************************)
(* The data of the cipher, shared by every module that runs rounds: the    *)
(* 128-bit state words, their little-endian bytes, and the three layers of *)
(* a round.  The layers are constant functions, so what is checked and     *)
(* proved about the control of the keystream does not depend on the        *)
(* permutation that the S-box and the rotation happen to be.               *)
(***************************************************************************)
EXTENDS Integers, Sequences

CONSTANTS
  Words,          \* the 128-bit words the state and the round keys range over
  Bytes,          \* the bytes of a word, of a message and of the keystream
  Lanes,          \* bytes in a word: 16
  N,              \* round keys in the schedule: 16
  M,              \* usize::MAX + 1, where round_index wraps
  WARMUP_ROUNDS,  \* rounds State::new makes before the first byte: 62
  Rotr7,          \* word |-> the word rotated right by 7
  Sub,            \* word |-> the word with every byte substituted
  XorW,           \* <<word, word>> |-> their exclusive or
  LeBytes,        \* word |-> its bytes, least significant first, from 0
  Nibble,         \* byte |-> its low nibble, read as a lane number
  Keys            \* what a base key expands to: [w, schedule]

ASSUME ScheduleAssumption == N \in Nat \ {0}

\* The power of two that the counter wraps at is a multiple of the schedule's
\* length, so wrapping the counter does not move the position in the schedule.
ASSUME WrapAssumption == M \in Nat \ {0} /\ \E k \in 1 .. M : M = N * k

ASSUME WarmupAssumption == WARMUP_ROUNDS \in Nat \ {0}

\* Each layer of a round maps words to words, and a low nibble names a lane.
ASSUME LayerAssumption ==
  /\ Lanes \in Nat \ {0}
  /\ Rotr7 \in [Words -> Words]
  /\ Sub \in [Words -> Words]
  /\ XorW \in [Words \X Words -> Words]
  /\ LeBytes \in [Words -> [0 .. Lanes - 1 -> Bytes]]
  /\ Nibble \in [Bytes -> 0 .. Lanes - 1]

ASSUME KeyAssumption ==
  Keys \subseteq [w : Words, schedule : [0 .. N - 1 -> Words]]

\* One round: rotation, substitution of every byte, round key.
Round(s, k) == XorW[<<Sub[Rotr7[s]], k>>]

\* The keystream byte of a state: its first byte names the lane to emit.
Tap(s) == LeBytes[s][Nibble[LeBytes[s][0]]]
=============================================================================
