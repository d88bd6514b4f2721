# Pich256 in TLA+

A verification project for the `pich256` crate: a byte-oriented stream cipher
with run-time selected vector backends. Source paths below are those of the
repository, whose crate lies in `src/src/`.

## 1. Inventory

| Component | Source | State it keeps | Operations | What makes it correct |
|---|---|---|---|---|
| Cipher instance (`State`, keystream loop) | `pich256.rs`, `arch/mod.rs` `keystream_core` | `w`, `schedule`, `round_index` (wrapping `usize`); inside the loop `state`, `index`, `pos` | `State::new` (warm-up), `next_byte`, `fill_keystream` | the stream is a function of the key only, whatever the entry points and the lengths of the calls; counters that wrap and counters that are reset stay in step |
| Session (`Pich256`) | `pich256.rs` | one `State` | `new`, `encrypt`, `decrypt` | decrypting what was encrypted with the same key gives it back, however either side cuts its calls |
| Backend dispatch | `arch/mod.rs` | three process-wide relaxed atomic bytes: `SELECTED`, and the caches of `has_avx2` and `has_sha_ni`; in tests `BACKEND_LOCK` | `backend`, `force_backend`, `reset_backend`, `supported_backends`, the dispatched primitives, `for_each_backend` | no CPU is given an instruction it lacks; a pinned backend is the one that runs; tests leave nothing behind |
| Vector kernels | `arch/x86_64/sbox.rs`, `arch/x86_64/aes.rs` | none | `sub_bytes_*`, `round128_*`, `fill_keystream_*`, `xor_into_*` | each computes what `arch/fallback.rs` computes, on every length and lane |
| Integer assembly | `arch/x86_64/int.rs` | none | `rotl128`, `rotr128`, `mul128` | equals arithmetic modulo 2^128, at shift counts 0, 63, 64, 127 and above |
| Portable kernels | `arch/fallback.rs` | none | `sub_bytes`, `round128`, rotations, `mul128`, `xor_into`, `sha256_compress` | the reference for the others |
| SHA-256, HMAC, key derivation | `sha256.rs`, `kdf.rs` | none | `sha256`, `hmac_sha256`, `derive_256bit_key`, `split_key_into_128bit_limbs` | padding at every length; long HMAC keys hashed first; the first result keys the second step |
| SHA-NI compression | `arch/x86_64/sha.rs` | four message registers and two state registers within a call | `sha256_compress_shani` | equals the portable compression, over any number of blocks |
| Key schedule | `key_gen.rs`, `rc.rs`, `round_key.rs` | the sixteen sub keys being built | `gen_sub_keys`, `g`, round constants | sixteen keys, each from the running words and its own constant |
| S-box | `sbox.rs` | none | `sbox`, `sbox_transform`; `xbox`, `sboxes`, `cbox` (only tests use these three) | the detour through 192 bits is the bytewise substitution |
| Big integers | `bigint/*.rs` (`I128`, `I192`, `I256`) | none | addition, subtraction, negation, multiplication, bytes; rotations of `I128` | equals arithmetic modulo 2^w |
| Examples, benches, tests | `examples/`, `benches/` | none | call `force_backend` and `reset_backend` while the cipher runs | - |

**Interaction.** `Pich256::new` derives a key (`kdf` over `sha256`), expands it
(`key_gen`), and builds a `State`. `encrypt` and `decrypt` ask the `State` for a
buffer of keystream and combine it with `arch::xor_into`. `State` lends its
fields to `arch::fill_keystream`, which asks `backend()` once per call and runs
the loop in that backend's code; `next_byte` asks once per round. The backends
share nothing but the three atomics.

**What is hard.** Inside an instance nothing is concurrent: every call takes
`&mut self`, nothing is stored on disk, there are no messages and no timeouts.
The difficulty is in long sequences of calls (a counter that wraps, a position
that is reset separately, a byte that takes two rounds) and in numeric edges
(chunk tails, padding, carries). The dispatch is the one concurrent part: its
loads and stores are separate relaxed atomic accesses that any thread makes, and
tests, benches and examples write the selection from outside. `PROJECT.json`
lists the hazards with the line where each one bites.

## 2. Modules

| Module | Models | Built on |
|---|---|---|
| `Cipher` | words, bytes and the layers of a round as constant functions, with the assumptions on them; `Round`, `Tap` | |
| `KeystreamSpec` | the abstract keystream: rounds numbered by a natural, one byte every second round | `Cipher` |
| `Keystream` | `State` and `keystream_core`, one action per round; refines `KeystreamSpec` | `Cipher` |
| `Keystream_proof` | theorems about `Keystream` | `Keystream`, `NumberFacts` |
| `NumberFacts` | lemmas on `%` and wrapping counters; induction over the naturals and the loops defined by it | |
| `Session` | two `Pich256` of one key, a call per action | `Cipher` |
| `Session_proof` | theorems about `Session` | `Session`, `NumberFacts` |
| `Dispatch` | the backend selection, one action per atomic access | |
| `Dispatch_proof` | theorems about `Dispatch` | `Dispatch` |
| `SboxKernels` | the S-box table and the register functions of the five vector backends, at real size | |
| `SubBytes` | `arch::sub_bytes` on a slice: chunks, remainders, masked tail | `SboxKernels` |
| `VectorRounds` | a cipher round in registers, with the two-lane AVX2 loop | `SboxKernels` |
| `XorInto` | the three loops of `xor_into` over two pointers and a count | |
| `Kernels_proof` | theorems about `SubBytes`, `VectorRounds` and `XorInto` | those three, `NumberFacts` |
| `ShaCompress` | the portable SHA-256 compression and the SHA-NI pipeline, side by side | |
| `ShaCompress_proof` | theorems about `ShaCompress` | `ShaCompress` |
| `KeyDerivation` | `sha256`, `hmac_sha256`, `derive_256bit_key` down to blocks | |
| `KeySchedule` | `gen_sub_keys`, `g`, `p` and the round constants, at real size | `SboxKernels` |
| `Setup` | `Pich256::new` up to the fields of `State` | `KeyDerivation`, `KeySchedule` |
| `Pich256` | the whole of one instance: `Setup`, the warm-up and the calls, at real size | `Setup`, `Keystream` |
| `Pich256_proof` | theorems about `KeyDerivation`, `KeySchedule`, `Setup` and `Pich256` | `Pich256`, `NumberFacts` |
| `BigInts` | `I192`, `I256`, the register sequences of `int.rs`, the 192-bit detour of `sbox.rs` | |
| `BigInts_proof` | theorems about `BigInts` | `BigInts`, `NumberFacts` |
| `SmallCipher`, `MC*` | the instances TLC checks | |

### Cipher, KeystreamSpec, Keystream

`w`, `schedule`, `round_index` are the fields of `State`; `state`, `index`,
`pos`, `i`, `want`, `out` are the locals of `keystream_core` (the loops' counters
and the part of the buffer already written); `pc` says which function the
instance is inside. `WarmUp` is a turn of the loop in `State::new`,
`NextByteFirst` and `NextByteSecond` the two rounds of `next_byte`, `BeginFill` the prologue of
the bulk loop, `FillFirst` and `FillSecond` the two rounds of a slot, `EndFill`
the write-backs of the loop and of `State::fill_keystream`. `round` and
`LoopRound` are the two ways the code has of making a round: on the fields, with
the key found by a remainder, and on the locals, with the key under `pos`.
`key`, `rounds` and `given` are history. A `State` keeps its round keys twice:
`sub_keys`, which `next_rk` reads by remainder, and `schedule`, which the loop
reads under `pos`; both are variables.

`usize` wraps at `M`. The round counter may wrap without moving the position in
the schedule only because the schedule's length divides `M`
(`WrapAssumption`: sixteen divides 2^64, and 2^32); with any other length
`next_rk` and the loop would part at the wrap.

`KeystreamSpec` has neither wrap, position, locals nor entry points.
`Keystream` implements it with the live copy of the word (`state` inside the
bulk loop, `w` elsewhere) and with the bytes already in the buffer as part of the
stream.

The three layers of a round are constant functions. Nothing checked here depends
on which permutation the S-box is, so `SmallCipher` gives TLC words of two 2-bit
lanes.

### Session

`encrypt` and `decrypt` are the same function of the state (`decrypt` calls
`encrypt`), so each is a step: the locals of the loop after `Len(msg)` slots,
their write-back, and the exclusive or. The receiver keeps up, lags, or is built
again (`Reopen`) and starts from the first byte.

### SboxKernels, SubBytes, VectorRounds, XorInto

The data path, at the code's own size: the 256 entries, registers of 16, 32 and
64 bytes. `SboxKernels` has one function per way of computing the table.
`AllRows` is sixteen masked shuffles merged by OR, `EvenRows` and `OddRows` the
two halves the AVX2 round leaves in its lanes, `Blended` the two 128-entry
lookups of AVX-512, `AffineOfInverse` the GFNI instruction, and `SubstituteXor`
`aesenclast` behind the inverse of its row shift. What an instruction does
(`Pshufb`, `AddSaturating`, `Aesenclast`, `GfInverse`) is modelled from the use
the code makes of it.

`SubBytes` is a call on a slice that begins at address 0 of a memory: `Chunk` is
a turn of `chunks_exact_mut`, `Remainder` hands on what is left (AVX2 to the
16-byte loop, that one to the table), `MaskedRemainder` is the AVX-512 tail.
`VectorRounds` follows the register through `Rotate`, one of the substitutions,
`Fold` where the lanes have parted, and `MixKey`; `reg` has two lanes, which only
the AVX2 paths let differ. `Avx2` is a call of `round128_avx2` per round and
`Avx2Loop` the loop of `fill_keystream_avx2`; both fold the lanes together, and
the broadcast at the start of the next call is in the first one's `Fold`. The
counters of that loop are `Keystream`'s: it is `keystream_core` written out
again around the two-lane register. `XorInto` has a pointer for each slice and
the count; the initial `loop` is the one the backend enters first (AVX2, SSE2,
portable).

### ShaCompress, KeyDerivation, KeySchedule, Setup, Pich256

`ShaCompress` takes each block through the portable loops (`LoadPortable` to
`PortableFeedForward`) and then through the registers (`LoadRegisters` to
`FeedForward`), so that `m`, `state0` and `state1` can be compared with `w` and
with what `a` to `h` were after as many rounds. A block is bytes: `LoadPortable` reads
its words big-endian, `LoadRegisters` loads them little-endian and moves their bytes
by `byte_swap` (`ByteSwap`, byte for byte), so a wrong mask is a wrong word.
`FourRounds` is one of the
sixteen unrolled groups: its conditions on `group` are where the source's
unrolled text starts and stops finishing and beginning quartets. The registers
keep the state transposed from block to block, and memory is written once, by
`StoreState`. The functions of the standard are constants.

`KeyDerivation` follows every `sha256` call through the padding loop
(`PushZero`), the length and the blocks. The length is stored in all its eight bytes
(`BeBytes`); from 2^61 bytes on the code's multiplication by eight passes 64 bits: a
release build, which is modelled, wraps there, a debug build panics, and FIPS 180-4 has
no hash. What the standard says is written without the code's conversion:
`Padded` takes the length field from a long division (`LengthField`), and `IsPadding`
is the standard's own description of a padding, which
names no algorithm: the message, a one bit, zeros, and 64 bits that spell the number of bits
(`Spelled`). `caller` says which of the call sites in
`hmac_sha256` it returns to; `next` holds the text of the second HMAC of
`derive_256bit_key`. The compression is a constant, so the two modules meet at
`sha256_compress`: one says which blocks reach it, the other that its two
implementations agree on them.

`KeySchedule` keeps 128-bit words as sixteen bytes and does the arithmetic of
the portable backend on them: `RotateLeft`, the product `WrappingMul`, the
sign-extended constant. `NextKey` is a turn of the loop in `gen_sub_keys`.
`Following` is what a key should become, put together differently: no product of
two words (four shifted copies times the Fibonacci number are added up) and no
rotations to and fro.

`Setup` runs `KeyDerivation`, cuts the result (`Split`), runs `KeySchedule`
(`Expand`) and flattens the keys (`Flatten`). `Pich256` adds the variables of
`Keystream` and instantiates it on the fields that `Setup` made, with the real
S-box, rotation, exclusive or, sixteen keys and a warm-up of 62: `SetUp`,
`Construct`, and `Use` for any step of `Keystream`. What `Keystream` takes as
a constant, the expanded key, is there computed from the passphrase. The
compression stays a constant, and `round_index` wraps early.

### BigInts

One module for integers in several registers, with the register's width a
parameter. `kind` is the type: `I128` for the primitives of `arch` on a native
integer, `I192` and `I256` for the limb types; `acc` is the integer and `exact`
the number it should stand for. `Add` to `Mul` are the operators of the limb
types; `Multiply`, `TurnLeft` and `TurnRight` the assembly (`mul128`, `rotl128`,
`rotr128`) beside the portable functions; `Detour` is `cbox(sboxes(xbox(a)))`
beside `sbox_transform`. `MidSum192`, `CarryMid192`, `HiSum192`, `MidSum256` and
`MulHi` are the accumulators of a product before they are truncated. `I128`'s own
operators are single native ones and serve as the arithmetic compared with.

### Dispatch

A thread's call is split at each access to an atomic: `LoadCached` or
`LoadUnprobed` followed by `DetectAndStore` (`backend`), `HasAvx2` and
`StoreAvx2`, `HasShaNi` and `StoreShaNi`. `Run` is the code the call ends up in, recorded in
`ran`; `forced` is history, the backends that were ever forced. A relaxed access
to one byte has a single modification order, and each of the three bytes is read or written alone by the decisions modelled, so
interleaving the accesses covers what the relaxed orderings allow of each of
them; no property relates the values of two of the bytes at one moment.

Threads have one of three roles. `Callers` only use the cipher. `Pinners` run
tests through `for_each_backend`: `Lock`, then for each supported backend `ForceNext`, a body of
calls, and `BodyEnds` or `BodyPanics`, then `ResetAfterLoop` and `Unlock`. `Overriders` call
`force_backend` and `reset_backend` without the lock, as the examples, the
benches and one test do, with a backend the host supports, which is what
`force_backend`'s contract asks for.

`Detect`, `Listed`, the attributes of each file (`HardwareFeatures`,
`ShuffleFeatures`, `XorFeatures`, `ShaNiFeatures`) and `ShaFeatures` are written out
separately because the source states them separately: the `if` ladder of
`detect`, the tests of `supported_backends`, the `#[target_feature]` attributes,
and the test of `has_sha_ni`. `NoFault` is about their agreement. So are
`Discriminant` and `FromU8`, the enumeration's values and the arms of the `match`
that reads them back.

## 3. Runs

| Run | Asks | Bounds, and why they are enough |
|---|---|---|
| `keystream` (`MCKeystream.cfg`) | does every mix of `next_byte` and `fill_keystream` give the reference stream, with counters that agree? | schedule of 3 keys, so the two rounds of a byte straddle its end; counter wraps at 6, warm-up 4, 16 rounds in a life: the counter wraps twice, in the middle of calls; fills of 0 to 3 bytes; all 16 words and two schedules |
| `session` (`MCSession.cfg`) | do two instances understand each other? | six plaintext bytes (16 rounds with the warm-up: past the wrap), messages of 0 to 3 bytes, any cut and any number of fresh starts |
| `dispatch_faults` | can any thread run code the CPU lacks, or a backend nobody chose? | eight hosts: one per backend `detect` can pick, one with AVX-512 but without vbmi, one with everything; one thread that calls all primitives and one that forces and resets, two calls each, so that every store falls between another thread's load and store |
| `dispatch_pinned` | does `for_each_backend` keep its promises when bodies panic? | two tests that contend for the lock, four calls each, two hosts: one where the detected backend is not first among the listed ones' alternatives, one with a choice |
| `sub_bytes` | does every backend substitute a whole slice once and nothing else? | every length from 0 to 131: two AVX-512 chunks and a tail, with each smaller tail; two contents that hold all 256 values; 64 bytes after the slice, the reach of an unmasked store |
| `vector_rounds` | does a round in registers, repeated, stay the portable round? | six kernels, four states with all-zero and all-one bytes among them, twelve rounds under three keys: enough for every lane to depend on every row it came through |
| `xor_into` | does each loop leave off where the next begins? | registers of 4 and 2 bytes and memory of 7, so all of the loops run, or any of them not at all; one-bit bytes, every content, every pair of lengths |
| `sha_compress` | does the register pipeline keep up with the portable compression? | all 64 rounds; one to three blocks, two states; bytes of one bit and words of four, with functions that depend on every argument |
| `pich256` | does a passphrase lead to the right blocks, roles, keys and bytes? | passphrases around 0, 55, 63, 119 and 128 bytes, where the padding or the number of blocks changes; HMAC keys around 0, 56, 64 and 128 bytes with texts around 0, 56 and 64; nine further seeds for the key schedule (zeros, ones, single bits at either end and in the S-box byte, negative numbers); two bytes from each instance in every mix of calls, which take rounds 62 to 65, across the end of the schedule and, `M` being 64, across the wrap of the counter |
| `integers` | do carries, borrows, signs, products, shift counts and the 192-bit detour come out as arithmetic says? | every pair of operands at limbs of 2 to 4 bits (`I128` 2 and 4, `I192` 2 and 3, `I256` 2), every count up to twice the width; carries and signs do not depend on the width of a limb, and one bit is too narrow for the sums of four products that `IntermediatesFit` is about (`Base` must be at least 4) |
| `dispatch_race` | does a forced backend always override detection? (violated) | one caller in its first probe, one overriding thread |
| `dispatch_unlocked` | does a test keep the backend it pinned, next to the test that pins without the lock? (violated) | one of each |

What the properties say is stated beside each in the modules. Deadlock is not
checked in runs whose threads simply have no calls left (`MaxOps`, `MaxRounds`);
`session` checks it.

**Fairness.** Only `LockReleased` needs any: weak fairness of each thread's next
step inside a call (`Proceed`). It stands for the operating system scheduling a
runnable thread and for test bodies that return or panic. No fairness is assumed
of starting calls, of forcing, or of panicking.

**Divergences found.** The two violated runs are disagreements between a
comment and what the code does; each is confined to processes that
override the selection:

1. `backend()` (`arch/mod.rs:157-162`) stores what it detected without looking
   again, so a `force_backend` between its load and its store is lost, although
   line 166 says it overrides detection and line 102 calls the race benign.
2. `for_each_backend` is documented (`arch/mod.rs:508-510`) to serialise every
   test that pins a backend; `pich256.rs:467` pins one without it.

Neither changes ciphertext: every backend computes the same round (`vector_rounds`).

## 4. Proofs

All for every value of the constants that satisfies the named assumptions and,
where a theorem has one, its own hypothesis, which is explained below.

* `Keystream_proof!TypeCorrect`, `CountersNeverDrift`, `NoByteSharesRounds`: the
  inductive invariant is `TypeOK /\ CallShape /\ TwoRoundsPerByte /\
  CountersAgree`. `CountersAgree` alone is not inductive: that `pos` and `index`
  keep up needs to know how far into a slot the loop is (`i` is 0 or 1), and
  that nothing is pending between calls, which `CallShape` and `TwoRoundsPerByte` state. The arithmetic
  (incrementing a wrapped value, wrapping at a multiple of `N`) is in `NumberFacts`.
* `KeystreamImplementsReference`: each action of `Keystream` maps to `Step` or to
  a stutter. The key used at a round is the reference's because of
  `CountersAgree` and `WrapAssumption`; the byte is emitted at the right
  round because of `TwoRoundsPerByte`.
* `Session_proof!TypeCorrect`, `ReceiverReads`, `CallsCompose`, `SidesMeet`: for
  every set of words and layers, every schedule and wrap point, and every way of
  cutting the messages. The invariant says that `enc` and `dec` are the fresh
  instance moved on by `Len(sent)` and `Len(got)` bytes. It is preserved because
  of the lemma `FillComposes`: filling `m` bytes, writing the locals back, and filling
  `n` gives what filling `m + n` gives. That one is an induction on `n`, and rests on
  `PositionFollowsIndex`: the position the loop leaves is the remainder of the
  counter it leaves, so the next call, which takes a remainder, starts where
  this one stopped. `ReadBack` uses that combining with a byte twice is the identity
  (`XorAssumption`).
* `Dispatch_proof!TypeCorrect`, `NoThreadFaults`: with `HostTruth`, which says
  that each cached byte, each backend held by a thread and each list entry is
  something the host supports. The proof uses only the baseline facts of
  `HostAssumption`.
* `NoThirdAnswer`: whatever runs is on `Detect(host)` or a backend some thread
  forced. The invariant `OriginInv` carries that origin from where a backend
  enters (`ForceBackend`, `ForceNext`, `DetectAndStore`) through the cached byte
  and the thread's local to `ran`; it needs `from_u8` to read back what was
  stored, which is why a byte it does not know (read as `Fallback`) would break it.
* `NothingLeftBehind` (`ResetRestores`): the invariant `LockOwned` says that the
  loop and a forced backend belong to the holder of `BACKEND_LOCK`, that a holder
  whose body runs has forced one, and that `SELECTED` is back before the lock is; the
  other steps of a call store only what detection finds (`CallSteps`). Its hypothesis `Overriders = {}` is the
  discipline the comment at `arch/mod.rs:508` asks for; callers of the cipher
  may run beside the tests.
* `PinsHold` (`PinHolds`) needs `Callers = {}` as well, and that is a fact about the
  code: a mere caller that has read `UNPROBED` before a test forces its backend
  stores the detected one over it (`dispatch_race` shows the same store), so a
  test that only calls the cipher can spoil a pin that another test holds under
  the lock. With every thread under the lock, `PinInForce` is inductive: the
  holder's pin is the byte, so it never takes the probing branch.
* `Kernels_proof!EveryByteSubstituted`, `MemoryAfterUntouched`: for every length and
  content, on every backend. The two properties are inductive together with the type
  (`SubBytesInv`): the bytes before `off` are substituted, the others as they were,
  and a chunk moves that border by its own width. What is put through the table is
  the register functions' part, one lemma each: of the sixteen rows, and of the two
  halves of them, the saturating addition lets exactly one answer (`RowsAreTable`),
  an OR or exclusive or with zeros changes nothing, the blend picks the right half,
  the inverse row shift undoes the one in `aesenclast`.
* `RegistersKeepUp`: the invariant `RegisterInv` says at each of the four points of
  a round what both lanes hold (the word, the word turned, even and odd rows apart,
  the word substituted), which `LanesInStep` says between rounds only.
* `EveryByteOnce`: for every two register widths of `xor_into` and every
  memory. The invariant adds `PointersAgree` (both pointers have advanced by the same
  amount, and that and the count make up the overlap), without which a step could
  read another index than it writes. One lemma, `StoreCombines`, serves the three
  loops.
* `ShaCompress_proof!WordsArriveInTime`, `RegistersHoldTheRounds`, `PathsAgree`:
  for bytes of every width and words of four of them, every choice of the standard's
  functions and every number of blocks. `SwappedLoad` is the byte order: what `byte_swap`
  makes of a little-endian load is the word read big-endian. `WordsInTime` is about one register when its group runs; the invariant
  `Quartets` says of all four, at every group, whether they are waiting, begun
  (`sha256msg1` done) or ready, and `PortableInv` keeps the schedule and the rounds
  of the portable loop at hand to compare with.
* `Pich256_proof!OnlyPadding`: for every message of fewer than 2^64 bits (`Fits`), `Padded` is a
  padding in the sense of `IsPadding` and nothing else is: the zeros are the fewest, and
  the eight bytes that spell the length are the ones of the long division
  (`DigitsUnique`). `StoredAsDivided` says that `BeBytes` stores these, for every number.
  The theorems about padding and derivation rest on both, and so hold of the standard's own
  functions wherever these are defined, upper length bytes included; of longer
  messages, which no machine can hold, they only say that code and closed form wrap alike.
* `PadsEveryLength`, `DerivesTheStandardKey`: for every length,
  and every compression that makes a hash value of a hash value and a block, which
  is `sha256_compress`'s signature (the hypothesis `CompressReturnsHash`; TLC could not
  enumerate the blocks). The invariant `IInv` has the argument of the `sha256` call under
  way (`CallInv`: which of the five it is, what the standard gives it) and how far
  that call is (`HashInv`: some of the missing zeros, or some links of the chain).
  `ChainExists` is the induction over blocks. `PaddedToBlocks` is an action property
  because as a state predicate, recognising the first block by its hash value, it
  would fail for a compression that comes back to the initial value. These two are
  about `KeyDerivation` on its own; `DerivesWithinNew` has both of the whole.
* `ChainOfKeys`: for every seed, whatever its bytes. What is proved once and
  for all words is `GIsFollowing`, that `g` with the x-th constant is the closed
  form: `ConstantBytes` and `ColumnOfProduct` reduce the product by four equal
  16-bit fields to a column of four copies of the word, `CarryOver` and
  `ColumnsAgree` move the carries of its two bytes together, `RotatedByFour` and
  `RotatedBack` make the two rotations around the S-box a byte that straddles two,
  and `ConstantsAreFibonacci` says that the table in `rc.rs` is the sequence, with
  the topmost constant below 2^15, so no sign is carried upwards. `Chained`, the
  invariant, has the closed form of the whole vector and not only of its last key.
* `PassphraseMakesState`: `Roles` keeps what `Split` did (the word and the first key
  spell the derived key) until the first round; what the derivation ends with comes
  from `IInv`. The invariant of the whole, `Inv256`, is `Derivation`, `Chained`,
  `Roles` and `Made`, the last with nothing yet moved before `Construct`, and
  `InstanceInv` after it.
* `KeystreamOfTheKeys`: each step of `Keystream`, instantiated on the fields `Setup`
  made, is one of the reference under the keys in `sub_keys`. `InstanceInv` is
  the invariant of `Keystream_proof` with the types of the code's own words. The theorems of
  that module are not simply instantiated: they are about its `Init`, where an
  expanded key is chosen and the locals of the loop begin as a word, while here the
  keys are computed and the local word is set when a loop begins. What the proof
  needs of `M` is `CounterAssumption`: sixteen divides it.
* `BigInts_proof!LimbArithmetic`: for limbs of every width, the operators of `I192`
  and `I256` are arithmetic modulo theirs; one lemma for each operator, from
  identities over the limbs proved with the base as a variable. `AccumulatorsFit`
  bounds the sums inside the products. Its hypothesis, limbs of at least two bits for
  `I192`, is needed: with one-bit limbs of ones `HiSum192` is 4. The code's have
  sixty-four.
* `RegistersAreNative`: for registers of any number of whole bytes, every count and every
  substitution. `Pow2` is a recursive function, and `PowersOfTwo` and `Exponents` its laws;
  a rotation cuts the two halves at powers of two into four digits, which `shld` and
  `shrd` and the portable shifts put together in the same order (a count of half
  the width or more exchanges the halves first). `Mul128Native` does the product. The
  detour is a run of bytes (`RunOfBytes`): both ways substitute the same digits, and
  the zeros in front, which are substituted too, are what `cbox` drops.

**Induction.** The library's induction theorems take an operator, which the
provers cannot instantiate. `NumberFacts!Induction` states it with a set instead,
from well-foundedness, and `LoopExists` and `LoopUnique` turn it into what the
recursive definitions need: a function defined by recursion on its bound exists
and there is only one, so `fill_keystream`, `Sha256`, the carries of a product and the bytes of a
number are the loops they look like.

**Model-checked only.**

* Liveness (`LockReleased`): fairness is out of the prover's reach. It is the only
  property of a passing run that no theorem states.
* `GfniAssumption`: that the field inverse followed by the affine map of
  `GFNI_SBOX_MATRIX` is the table, which `sbox.rs:46-49` says of it. It is a closed
  formula, 256 inverses found by search, which TLC evaluates before every run
  whose modules reach it; `Kernels_proof` uses it for the two GFNI kernels.

## 5. Not modelled, and the plan

Every component with state or arithmetic is modelled, and what the runs check of
it is proved but for the list above.

Not planned: `cpu_summary`, `Debug` and `name` only make text; `get_round_key` is
read by tests only; examples and benches only measure, their use of
`force_backend` and `reset_backend` being in `Dispatch` already. The compression
and the derivation meet at a constant: a passphrase through the real SHA-256 would
add the standard's own functions and none of this crate's control.

Timing, constant-time claims and cryptographic strength are out of scope: they
are not properties of states and steps.
