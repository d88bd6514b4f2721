--------------------------- MODULE KeyDerivation ---------------------------
(***************************************************************************)
(* derive_256bit_key, hmac_sha256 and sha256, down to the blocks handed to *)
(* the compression.  Every sha256 call is followed through its padding     *)
(* loop; the compression itself is a constant (ShaCompress is about that), *)
(* and a hash value is its 32 big-endian bytes.                            *)
(***************************************************************************)
EXTENDS Integers, Sequences

CONSTANTS
  Compress(_, _),  \* hash value, block of 64 bytes |-> hash value
  SHA256_IV,       \* the initial hash value
  XorBytes,        \* <<byte, byte>> |-> their exclusive or
  Passphrases,     \* the base keys considered
  MacKeys,         \* the keys hmac_sha256 is called with directly
  MacTexts         \* and the texts

Byte == 0 .. 255

ASSUME InputAssumption ==
  /\ XorBytes \in [Byte \X Byte -> Byte]
  /\ SHA256_IV \in [1 .. 32 -> Byte]
  /\ Passphrases \cup MacKeys \cup MacTexts \subseteq Seq(Byte)

VARIABLES
  pc,      \* "key", "pad", "compress", "derived" or "done"
  caller,  \* what the sha256 call is for: "key", "inner" or "outer"
  next,    \* the text of the hmac_sha256 call to come; <<>> for none
  key,     \* hmac's `key`: as given, then of one block
  data,    \* hmac's text
  input,   \* the slice sha256 was called with
  msg,     \* sha256's buffer; the blocks not yet compressed, once padded
  h,       \* the hash value so far
  given    \* history: the call from outside, <<key, text>> or <<passphrase>>

vars == <<pc, caller, next, key, data, input, msg, h, given>>

BlockSize == 64
Zeros(n) == [b \in 1 .. n |-> 0]

\* derive_256bit_key begins with a salt of zeros as the key, and goes on with
\* the byte 1 as the text; hmac_sha256 is also called on its own by tests.
Init ==
  /\ pc = "key"
  /\ \/ \E k \in MacKeys, text \in MacTexts :
          key = k /\ data = text /\ next = <<>> /\ given = <<k, text>>
     \/ \E p \in Passphrases :
          key = Zeros(32) /\ data = p /\ next = <<1>> /\ given = <<p>>
  /\ caller = "key"
  /\ input = <<>> /\ msg = <<>> /\ h = SHA256_IV

\* A call of sha256: the copy of the slice, and the byte 0x80.
CallSha256(who, slice) ==
  /\ caller' = who
  /\ input' = slice
  /\ msg' = Append(slice, 128)
  /\ h' = SHA256_IV
  /\ pc' = "pad"

\* The block of a key, combined with a byte.
Pad(k, byte) == [b \in 1 .. BlockSize |-> XorBytes[<<k[b], byte>>]]

\* key.resize, the pads, and the inner call.
UseKey(k) ==
  LET resized == k \o Zeros(BlockSize - Len(k))
  IN /\ key' = resized
     /\ CallSha256("inner", Pad(resized, 54) \o data)

\* Mutant of ChooseKey: a key of exactly one block is hashed as well.
ChooseKeyInclusive ==
  /\ pc = "key"
  /\ IF Len(key) >= BlockSize THEN CallSha256("key", key) /\ UNCHANGED key ELSE UseKey(key)
  /\ UNCHANGED <<next, data, given>>

\* The beginning of hmac_sha256.
ChooseKey ==
  /\ pc = "key"
  /\ IF Len(key) > BlockSize THEN CallSha256("key", key) /\ UNCHANGED key ELSE UseKey(key)
  /\ UNCHANGED <<next, data, given>>

PushZero ==
  /\ pc = "pad" /\ Len(msg) % BlockSize # 56
  /\ msg' = Append(msg, 0)
  /\ UNCHANGED <<pc, caller, next, key, data, input, h, given>>

\* u64::to_be_bytes.  What goes beyond eight bytes is lost, as it is to the
\* multiplication by eight where overflow is not checked.  The upper four bytes
\* are taken from the upper half, which two divisions reach: no power of 256 here
\* passes the integers of TLC.
BeBytes(n) ==
  LET high == (n \div 65536) \div 65536
  IN [b \in 1 .. 8 |-> ((IF b < 5 THEN high ELSE n) \div 256 ^ ((8 - b) % 4)) % 256]

\* Mutant of AppendLength: the length is taken after padding.
AppendPaddedLength ==
  /\ pc = "pad" /\ Len(msg) % BlockSize = 56
  /\ msg' = msg \o BeBytes(8 * Len(msg))
  /\ pc' = "compress"
  /\ UNCHANGED <<caller, next, key, data, input, h, given>>

AppendLength ==
  /\ pc = "pad" /\ Len(msg) % BlockSize = 56
  /\ msg' = msg \o BeBytes(8 * Len(input))
  /\ pc' = "compress"
  /\ UNCHANGED <<caller, next, key, data, input, h, given>>

CompressBlock ==
  /\ pc = "compress" /\ msg # <<>>
  /\ h' = Compress(h, SubSeq(msg, 1, BlockSize))
  /\ msg' = SubSeq(msg, BlockSize + 1, Len(msg))
  /\ UNCHANGED <<pc, caller, next, key, data, input, given>>

\* sha256 returns, to each of its three call sites in hmac_sha256.
ReturnKey ==
  /\ pc = "compress" /\ msg = <<>> /\ caller = "key"
  /\ UseKey(h)
  /\ UNCHANGED <<next, data, given>>

ReturnInner ==
  /\ pc = "compress" /\ msg = <<>> /\ caller = "inner"
  /\ CallSha256("outer", Pad(key, 92) \o h)
  /\ UNCHANGED <<next, key, data, given>>

\* hmac_sha256 returns: the first result is the key of derive_256bit_key's
\* second call, the second its output keying material.
ReturnOuter ==
  /\ pc = "compress" /\ msg = <<>> /\ caller = "outer"
  /\ IF next = <<>>
     THEN pc' = "done" /\ UNCHANGED <<key, data>>
     ELSE pc' = "key" /\ key' = h /\ data' = next
  /\ next' = <<>>
  /\ UNCHANGED <<caller, input, msg, h, given>>

Next ==
  \/ ChooseKey \/ PushZero \/ AppendLength \/ CompressBlock
  \/ ReturnKey \/ ReturnInner \/ ReturnOuter

Spec == Init /\ [][Next]_vars

-----------------------------------------------------------------------------
\* The standards, in closed form: FIPS 180-4 pads with the fewest zeros that end
\* the length on a block, RFC 2104 keys the hash twice, RFC 5869 extracts and
\* expands.

\* Long division: what is left of a number without its last k bytes.
Quotients(l) ==
  LET q[k \in 0 .. 8] == IF k = 0 THEN l ELSE q[k - 1] \div 256
  IN q
LengthField(l) == [b \in 1 .. 8 |-> Quotients(l)[8 - b] % 256]

\* The number of a message's bits is less than 2^64; the standard has no others.
Fits(s) == Quotients(8 * Len(s))[8] = 0

Padded(s) ==
  s \o <<128>> \o Zeros((BlockSize + 55 - (Len(s) % BlockSize)) % BlockSize) \o LengthField(8 * Len(s))
Sha256(s) ==
  LET hash[n \in 0 .. Len(Padded(s)) \div BlockSize] ==
        IF n = 0 THEN SHA256_IV
        ELSE Compress(hash[n - 1],
                      SubSeq(Padded(s), BlockSize * (n - 1) + 1, BlockSize * n))
  IN hash[Len(Padded(s)) \div BlockSize]
Hmac(k, text) ==
  LET k0 == IF Len(k) > BlockSize THEN Sha256(k) ELSE k
      kb == [b \in 1 .. BlockSize |-> IF b <= Len(k0) THEN k0[b] ELSE 0]
  IN Sha256(Pad(kb, 92) \o Sha256(Pad(kb, 54) \o text))

\* The number eight bytes spell.
Spelled(field) ==
  LET v[k \in 0 .. 8] == IF k = 0 THEN 0 ELSE 256 * v[k - 1] + field[k]
  IN v[8]

\* The standard's own words for p being the padding of s: s, a one bit, the fewest
\* zeros that will do, and 64 bits that spell the number of bits in s.
IsPadding(p, s) ==
  LET z == Len(p) - Len(s) - 9
  IN /\ p \in Seq(Byte) /\ Len(p) % BlockSize = 0
     /\ z \in 0 .. BlockSize - 1
     /\ SubSeq(p, 1, Len(s) + 1 + z) = s \o <<128>> \o Zeros(z)
     /\ Spelled(SubSeq(p, Len(p) - 7, Len(p))) = 8 * Len(s)

\* Whatever the length, if it is one the standard covers, and above all around 55,
\* 56, 63 and 64, the padding loop stops with the slice, the marker, fewer than a
\* block of zeros and the bit length of the slice alone, in whole blocks: sha256
\* compresses FIPS 180-4's padding, from the initial hash value.
PaddedToBlocks ==
  [][pc = "pad" /\ pc' = "compress" =>
       h' = SHA256_IV /\ (Fits(input) => IsPadding(msg', input))]_vars

\* The value hmac_sha256 ends with is RFC 2104's for keys on both sides of one
\* block, and the value derive_256bit_key ends with is the two-step derivation,
\* with the first result the key and not the text of the second.
StandardResult ==
  pc = "done" =>
    h = IF Len(given) = 2 THEN Hmac(given[1], given[2])
        ELSE Hmac(Hmac(Zeros(32), given[1]), <<1>>)
=============================================================================
