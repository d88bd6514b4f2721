------------------------------- MODULE Setup -------------------------------
(***************************************************************************)
(* Pich256::new from the passphrase to the fields of State, before the     *)
(* warm-up: KeyDerivation's steps, the cut of their result into the        *)
(* initial word and the seed, KeySchedule's loop, and the schedule         *)
(* flattened out of the round keys.                                        *)
(***************************************************************************)
EXTENDS KeyDerivation, KeySchedule

CONSTANT Seeds  \* the pairs of words State::new is called with directly

ASSUME SeedAssumption == Seeds \subseteq [ByteIndex -> Byte] \X [ByteIndex -> Byte]

VARIABLES
  w,        \* State's word; <<>> before there is a State
  schedule  \* State's flattened keys; <<>> before they are made

\* Tests also call State::new on its own; nothing is derived then.
CalledWith(start, ke) ==
  /\ pc = "none" /\ caller = "key"
  /\ next = <<>> /\ key = <<>> /\ data = <<>> /\ input = <<>> /\ msg = <<>> /\ given = <<>>
  /\ h = SHA256_IV
  /\ w = start /\ sub_keys = FirstKey(ke)

SetupInit ==
  /\ schedule = <<>>
  /\ \/ Init /\ w = <<>> /\ sub_keys = <<>>
     \/ \E pair \in Seeds : CalledWith(pair[1], pair[2])

\* A call of hmac_sha256 from outside leads no further.
Derived == pc = "done" /\ Len(given) = 1

Derive == Next /\ UNCHANGED <<sub_keys, w, schedule>>

\* i128::from_be_bytes on sixteen of the bytes, as little-endian bytes.
FromBigEndian(s) == [i \in ByteIndex |-> s[16 - i]]
BigEndian(x) == [b \in 1 .. 16 |-> x[16 - b]]

\* Mutant of Split: the halves change roles.
SplitSwapped ==
  /\ Derived /\ w = <<>>
  /\ w' = FromBigEndian(SubSeq(h, 17, 32))
  /\ sub_keys' = FirstKey(FromBigEndian(SubSeq(h, 1, 16)))
  /\ UNCHANGED <<vars, schedule>>

\* The high half of the derived key is the initial word, the low half the seed.
Split ==
  /\ Derived /\ w = <<>>
  /\ w' = FromBigEndian(SubSeq(h, 1, 16))
  /\ sub_keys' = FirstKey(FromBigEndian(SubSeq(h, 17, 32)))
  /\ UNCHANGED <<vars, schedule>>

Expand ==
  /\ NextKey
  /\ UNCHANGED <<vars, w, schedule>>

\* The words of the keys, numbered as the code numbers them.
KeyWords(keys) == [k \in 0 .. Len(keys) - 1 |-> keys[k + 1].sub_key]

\* gen_sub_keys has returned.
Flatten ==
  /\ Len(sub_keys) = 16 /\ schedule = <<>>
  /\ schedule' = KeyWords(sub_keys)
  /\ UNCHANGED <<vars, sub_keys, w>>
=============================================================================
