------------------------------ MODULE Pich256 ------------------------------
(***************************************************************************)
(* From the passphrase to the keystream: Setup makes the fields of State,  *)
(* and Keystream runs on them, at the code's own sizes but for the width   *)
(* of round_index.                                                         *)
(***************************************************************************)
EXTENDS Setup

CONSTANTS
  M,        \* usize::MAX + 1, a multiple of 16
  MaxBytes  \* bound: keystream bytes taken from an instance

ASSUME CounterAssumption == M \in Nat \ {0} /\ M % 16 = 0 /\ MaxBytes \in Nat

\* Keystream's variables; w, sub_keys and schedule are shared with Setup, and
\* `turn` is its i, `emitted` its given, `stage` its pc.
VARIABLES stage, round_index, state, index, pos, turn, want, out, rounds, emitted

WARMUP_ROUNDS == 62

setup == <<vars, sub_keys, w, schedule>>
instance == <<stage, round_index, state, index, pos, turn, want, out, rounds, emitted>>

Word128 == [ByteIndex -> Byte]
Rotated(x) == RotateRight(x, 7)
Substituted(x) == [b \in ByteIndex |-> Kernels!SBOX[x[b]]]
Mixed128(x, y) == [b \in ByteIndex |-> XorBytes[<<x[b], y[b]>>]]

Stream == INSTANCE Keystream WITH
  Words <- Word128, Bytes <- Byte, Lanes <- 16, N <- 16, Keys <- {},
  Rotr7 <- [x \in Word128 |-> Rotated(x)],
  Sub <- [x \in Word128 |-> Substituted(x)],
  XorW <- [pair \in Word128 \X Word128 |-> Mixed128(pair[1], pair[2])],
  LeBytes <- [x \in Word128 |-> x],
  Nibble <- [b \in Byte |-> b % 16],
  MaxRounds <- WARMUP_ROUNDS + 2 * MaxBytes, MaxLen <- MaxBytes,
  pc <- stage, sub_keys <- KeyWords(sub_keys), i <- turn, key <- [schedule |-> KeyWords(sub_keys)], given <- emitted

Init256 ==
  /\ SetupInit
  /\ stage = "setup" /\ round_index = 0
  /\ state = w /\ index = 0 /\ pos = 0 /\ turn = 0 /\ want = 0 /\ out = <<>>
  /\ rounds = 0 /\ emitted = <<>>

SetUp == (Derive \/ Split \/ Expand) /\ UNCHANGED instance

\* The struct is made; State::new goes on to the warm-up.
Construct ==
  /\ Flatten
  /\ stage' = "new"
  /\ UNCHANGED <<round_index, state, index, pos, turn, want, out, rounds, emitted>>

\* Any of Keystream's steps.
Use == UNCHANGED <<vars, sub_keys, schedule>> /\ Stream!Next

Next256 == SetUp \/ Construct \/ Use

Spec256 == Init256 /\ [][Next256]_<<setup, instance>>

-----------------------------------------------------------------------------
\* What the passphrase alone determines: the key of the standard derivation.
StandardKey == Hmac(Hmac(Zeros(32), given[1]), <<1>>)

\* A State begins in the documented roles: the first sixteen big-endian bytes
\* of the derived key are its word, the last sixteen its first round key, and the
\* schedule the bulk loop reads is the whole chain that grows from that key.
StateFromPassphrase ==
  stage = "new" /\ rounds = 0 =>
    /\ given # <<>> => BigEndian(w) \o BigEndian(schedule[0]) = StandardKey
    /\ DOMAIN schedule = 0 .. 15
    /\ \A k \in 1 .. 15 : schedule[k] = Following(schedule[k - 1], k)

\* From then on, every step of an instance is a round of the reference keystream
\* under the keys as gen_sub_keys left them, or gives nothing: the warm-up and
\* next_byte, which read sub_keys, and fill_keystream, which reads the flattened
\* schedule, take the same key for the same round and share the bytes in any way.
StreamOfTheKeys ==
  [][stage = "setup" \/ Stream!Reference!Step]_(Stream!Reference!vars)
=============================================================================
