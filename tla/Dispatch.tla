------------------------------ MODULE Dispatch ------------------------------
(***************************************************************************)
(* The run-time choice of backend in arch/mod.rs, built with `simd` on     *)
(* x86_64.  Three process-wide atomic bytes cache what CPUID said; every   *)
(* dispatched primitive of every thread reads them, the first readers fill *)
(* them, and force_backend / reset_backend write the first one from        *)
(* outside.  The reads and writes are relaxed and separate, so threads     *)
(* interleave between them.  for_each_backend, which the tests pin         *)
(* backends with, is the only code that holds BACKEND_LOCK.                *)
(***************************************************************************)
EXTENDS Integers, Sequences, FiniteSets

CONSTANTS
  Callers,     \* threads that call the cipher and never touch the selection
  Pinners,     \* threads that pin backends through for_each_backend
  Overriders,  \* threads that call force_backend and reset_backend directly
  Hosts,       \* the CPUs considered, each the set of its features
  Ops,         \* the dispatched primitives the threads call
  MaxOps,      \* bound: calls one thread makes in its life
  None         \* no thread, no backend, nothing run

Threads == Callers \cup Pinners \cup Overriders

Features == {"sse2", "ssse3", "sse4.1", "avx2", "avx512f", "avx512bw",
             "avx512vl", "avx512vbmi", "sha", "aes", "gfni"}

\* What the architecture guarantees of any x86_64 CPU: SSE2 is the baseline,
\* and AVX2 implies SSSE3, which the tail of sub_bytes_avx2 relies on.
ASSUME HostAssumption ==
  /\ Hosts \subseteq SUBSET Features
  /\ \A h \in Hosts : "sse2" \in h /\ ("avx2" \in h => "ssse3" \in h)

Backends == {"Fallback", "Sse2", "Ssse3", "Avx2", "Avx512Vbmi", "AesNi", "Gfni"}

\* Mutant of Discriminant: a value from_u8 has no arm for.
DiscriminantGap ==
  [Fallback |-> 0, Sse2 |-> 1, Ssse3 |-> 2, Avx2 |-> 3, Avx512Vbmi |-> 4,
   AesNi |-> 7, Gfni |-> 6]

\* The enumeration's repr(u8) values, which SELECTED stores.
Discriminant ==
  [Fallback |-> 0, Sse2 |-> 1, Ssse3 |-> 2, Avx2 |-> 3, Avx512Vbmi |-> 4,
   AesNi |-> 5, Gfni |-> 6]

\* The dispatched primitives, and backend() itself as Pich256::backend_name and
\* the tests call it.  rotl128, rotr128 and mul128 are chosen at compile time.
AllOps == {"backend", "sub_bytes", "round128", "fill_keystream", "xor_into",
           "sha256_compress"}

ASSUME ThreadAssumption ==
  /\ Ops \subseteq AllOps
  /\ None \notin Threads /\ None \notin AllOps /\ None \notin Backends
  /\ MaxOps \in Nat

UNPROBED == 255

\* Mutant of FromU8: the arm for AES-NI is missing.
FromU8WithoutAesNi(v) ==
  CASE v = 1 -> "Sse2"
    [] v = 2 -> "Ssse3"
    [] v = 3 -> "Avx2"
    [] v = 4 -> "Avx512Vbmi"
    [] v = 6 -> "Gfni"
    [] OTHER -> "Fallback"

\* Backend::from_u8, arm by arm: the values are written a second time in the
\* code, apart from the enumeration's.
FromU8(v) ==
  CASE v = 1 -> "Sse2"
    [] v = 2 -> "Ssse3"
    [] v = 3 -> "Avx2"
    [] v = 4 -> "Avx512Vbmi"
    [] v = 5 -> "AesNi"
    [] v = 6 -> "Gfni"
    [] OTHER -> "Fallback"

Avx512Features == {"avx512f", "avx512bw", "avx512vl", "avx512vbmi"}

\* Mutant of Detect: vbmi is taken to come with the other AVX-512 features.
DetectWithoutVbmi(h) ==
  IF {"aes", "ssse3"} \subseteq h THEN "AesNi"
  ELSE IF "gfni" \in h THEN "Gfni"
  ELSE IF Avx512Features \ {"avx512vbmi"} \subseteq h THEN "Avx512Vbmi"
  ELSE IF "avx2" \in h THEN "Avx2"
  ELSE IF "ssse3" \in h THEN "Ssse3"
  ELSE "Sse2"

\* detect: AES hardware first, then the widest byte shuffle.
Detect(h) ==
  IF {"aes", "ssse3"} \subseteq h THEN "AesNi"
  ELSE IF "gfni" \in h THEN "Gfni"
  ELSE IF Avx512Features \subseteq h THEN "Avx512Vbmi"
  ELSE IF "avx2" \in h THEN "Avx2"
  ELSE IF "ssse3" \in h THEN "Ssse3"
  ELSE "Sse2"

\* What supported_backends tests before it pushes each backend.
Listed ==
  [AesNi |-> {"aes", "ssse3"}, Gfni |-> {"gfni"}, Avx512Vbmi |-> Avx512Features,
   Avx2 |-> {"avx2"}, Ssse3 |-> {"ssse3"}, Sse2 |-> {}, Fallback |-> {}]

Pushed(h, b) == IF Listed[b] \subseteq h THEN <<b>> ELSE <<>>

\* supported_backends: in this order, always ending with the portable one.
SupportedBackends(h) ==
  Pushed(h, "AesNi") \o Pushed(h, "Gfni") \o Pushed(h, "Avx512Vbmi")
    \o Pushed(h, "Avx2") \o Pushed(h, "Ssse3") \o <<"Sse2", "Fallback">>

Supported(h) == {b \in Backends : Listed[b] \subseteq h}

\* The #[target_feature] attributes, file by file.  aes.rs: sub_bytes_*,
\* round128_* and fill_keystream_* of the two hardware backends.
HardwareFeatures == [AesNi |-> {"aes", "ssse3"}, Gfni |-> {"gfni"}]

\* sbox.rs: the same three of each backend that shuffles bytes.
ShuffleFeatures == [Ssse3 |-> {"ssse3"}, Avx2 |-> {"avx2"}, Avx512Vbmi |-> Avx512Features]

\* sbox.rs: xor_into_avx2 and xor_into_sse2.
XorFeatures(wide) == IF wide THEN {"avx2"} ELSE {"sse2"}

\* sha.rs: sha256_compress_shani.
ShaNiFeatures == {"sha", "sse2", "ssse3", "sse4.1"}

\* The features a CPU must have to execute the code an operation runs: those of
\* the function dispatched to and of what it calls, as the tail of
\* sub_bytes_avx2 calls sub_bytes_ssse3.  `wide` is what has_avx2 or has_sha_ni
\* answered, where the operation asks.
KernelNeeds(o, b, wide) ==
  CASE o = "backend" -> {}
    [] o = "sha256_compress" -> IF wide THEN ShaNiFeatures ELSE {}
    [] o = "xor_into" -> IF b = "Fallback" THEN {} ELSE XorFeatures(wide)
    [] OTHER ->
         (IF b \in DOMAIN HardwareFeatures THEN HardwareFeatures[b] ELSE {})
           \cup (IF b \in DOMAIN ShuffleFeatures THEN ShuffleFeatures[b] ELSE {})
           \cup (IF o = "sub_bytes" /\ b = "Avx2" THEN ShuffleFeatures["Ssse3"] ELSE {})

VARIABLES
  host,      \* the features of the CPU the process runs on
  selected,  \* SELECTED: UNPROBED or a discriminant
  avx2,      \* has_avx2's cache: UNPROBED, 0 or 1
  sha_ni,    \* has_sha_ni's cache: UNPROBED, 0 or 1
  lock,      \* who holds BACKEND_LOCK
  pc,        \* thread |-> where it is between two accesses to the atomics
  op,        \* thread |-> the operation under way, or None
  chosen,    \* thread |-> what backend() answered it, while it still needs it
  todo,      \* thread |-> the backends for_each_backend has still to force
  ops,       \* thread |-> calls made, for MaxOps
  pin,       \* history: thread |-> the backend it forced and has not reset
  ran,       \* history: thread |-> the code it ran last since it last forced
  forced     \* history: every backend any thread has forced so far

shared == <<selected, avx2, sha_ni>>
vars == <<host, shared, lock, pc, op, chosen, todo, ops, pin, ran, forced>>

Init ==
  /\ host \in Hosts
  /\ selected = UNPROBED /\ avx2 = UNPROBED /\ sha_ni = UNPROBED
  /\ lock = None
  /\ pc = [t \in Threads |-> "idle"]
  /\ op = [t \in Threads |-> None]
  /\ chosen = [t \in Threads |-> None]
  /\ todo = [t \in Threads |-> <<>>]
  /\ ops = [t \in Threads |-> 0]
  /\ pin = [t \in Threads |-> None]
  /\ ran = [t \in Threads |-> None]
  /\ forced = {}

-----------------------------------------------------------------------------
\* A thread enters a dispatched operation.  A pinner does so in the body of
\* for_each_backend only, an overrider whether it has forced a backend or not.
Start(t, o) ==
  /\ pc[t] = "idle"
  /\ ops[t] < MaxOps
  /\ t \in Pinners => pin[t] # None
  /\ ops' = [ops EXCEPT ![t] = @ + 1]
  /\ op' = [op EXCEPT ![t] = o]
  /\ pc' = [pc EXCEPT ![t] = IF o = "sha256_compress" THEN "has_sha_ni" ELSE "backend"]
  /\ UNCHANGED <<host, shared, lock, chosen, todo, pin, ran, forced>>

\* The thread runs the code chosen for its operation and returns.
Run(t, b, wide) ==
  /\ ran' = [ran EXCEPT ![t] = [op |-> op[t], on |-> b, wide |-> wide]]
  /\ pc' = [pc EXCEPT ![t] = "idle"]
  /\ op' = [op EXCEPT ![t] = None]
  /\ chosen' = [chosen EXCEPT ![t] = None]

\* backend() has answered b: xor_into asks has_avx2 next unless b is the
\* portable backend, and everything else runs.
Answered(t, b) ==
  IF op[t] = "xor_into" /\ b # "Fallback"
    THEN /\ pc' = [pc EXCEPT ![t] = "has_avx2"]
         /\ chosen' = [chosen EXCEPT ![t] = b]
         /\ UNCHANGED <<op, ran>>
    ELSE Run(t, b, FALSE)

\* backend(): the load finds a cached choice...
LoadCached(t) ==
  /\ pc[t] = "backend" /\ selected # UNPROBED
  /\ Answered(t, FromU8(selected))
  /\ UNCHANGED <<host, shared, lock, todo, ops, pin, forced>>

\* ... or finds none, and the thread goes to probe the CPU.
LoadUnprobed(t) ==
  /\ pc[t] = "backend" /\ selected = UNPROBED
  /\ pc' = [pc EXCEPT ![t] = "store"]
  /\ UNCHANGED <<host, shared, lock, op, chosen, todo, ops, pin, ran, forced>>

\* backend(): detect, and the store that does not look at SELECTED again.
DetectAndStore(t) ==
  /\ pc[t] = "store"
  /\ selected' = Discriminant[Detect(host)]
  /\ Answered(t, Detect(host))
  /\ UNCHANGED <<host, avx2, sha_ni, lock, todo, ops, pin, forced>>

AsByte(b) == IF b THEN 1 ELSE 0

\* has_avx2, with its own cache: load, and store on a miss.
HasAvx2(t) ==
  /\ pc[t] = "has_avx2"
  /\ \/ /\ avx2 # UNPROBED
        /\ Run(t, chosen[t], avx2 = 1)
     \/ /\ avx2 = UNPROBED
        /\ pc' = [pc EXCEPT ![t] = "store_avx2"]
        /\ UNCHANGED <<op, chosen, ran>>
  /\ UNCHANGED <<host, shared, lock, todo, ops, pin, forced>>

StoreAvx2(t) ==
  /\ pc[t] = "store_avx2"
  /\ avx2' = AsByte({"avx2"} \subseteq host)
  /\ Run(t, chosen[t], {"avx2"} \subseteq host)
  /\ UNCHANGED <<host, selected, sha_ni, lock, todo, ops, pin, forced>>

ShaFeatures == {"sha", "ssse3", "sse4.1"}

\* has_sha_ni, likewise; SHA-256 does not depend on the backend.
HasShaNi(t) ==
  /\ pc[t] = "has_sha_ni"
  /\ \/ /\ sha_ni # UNPROBED
        /\ Run(t, None, sha_ni = 1)
     \/ /\ sha_ni = UNPROBED
        /\ pc' = [pc EXCEPT ![t] = "store_sha_ni"]
        /\ UNCHANGED <<op, chosen, ran>>
  /\ UNCHANGED <<host, shared, lock, todo, ops, pin, forced>>

StoreShaNi(t) ==
  /\ pc[t] = "store_sha_ni"
  /\ sha_ni' = AsByte(ShaFeatures \subseteq host)
  /\ Run(t, None, ShaFeatures \subseteq host)
  /\ UNCHANGED <<host, selected, avx2, lock, todo, ops, pin, forced>>

-----------------------------------------------------------------------------
\* force_backend, and what the thread may rely on from then on.
ForceBackend(t, b) ==
  /\ selected' = Discriminant[b]
  /\ pin' = [pin EXCEPT ![t] = b]
  /\ forced' = forced \cup {b}
  /\ ran' = [ran EXCEPT ![t] = None]

\* reset_backend.
ResetBackend(t) ==
  /\ selected' = UNPROBED
  /\ pin' = [pin EXCEPT ![t] = None]

\* An unlocked call of force_backend, as tests, benches and examples make it:
\* its contract allows only what the host can execute.
Override(t) ==
  /\ t \in Overriders /\ pc[t] = "idle" /\ ops[t] < MaxOps
  /\ ops' = [ops EXCEPT ![t] = @ + 1]
  /\ \E b \in Supported(host) : ForceBackend(t, b)
  /\ UNCHANGED <<host, avx2, sha_ni, lock, pc, op, chosen, todo>>

Restore(t) ==
  /\ t \in Overriders /\ pc[t] = "idle" /\ pin[t] # None
  /\ ResetBackend(t)
  /\ UNCHANGED <<host, avx2, sha_ni, lock, pc, op, chosen, todo, ops, ran, forced>>

\* Mutant of Lock: the guard is taken without waiting for the holder.
LockWithoutWaiting(t) ==
  /\ t \in Pinners /\ pc[t] = "idle" /\ ops[t] < MaxOps
  /\ lock' = t
  /\ ops' = [ops EXCEPT ![t] = @ + 1]
  /\ todo' = [todo EXCEPT ![t] = SupportedBackends(host)]
  /\ pc' = [pc EXCEPT ![t] = "loop"]
  /\ UNCHANGED <<host, shared, op, chosen, pin, ran, forced>>

\* for_each_backend takes the lock and lists the backends.
Lock(t) ==
  /\ t \in Pinners /\ pc[t] = "idle" /\ ops[t] < MaxOps
  /\ lock = None
  /\ lock' = t
  /\ ops' = [ops EXCEPT ![t] = @ + 1]
  /\ todo' = [todo EXCEPT ![t] = SupportedBackends(host)]
  /\ pc' = [pc EXCEPT ![t] = "loop"]
  /\ UNCHANGED <<host, shared, op, chosen, pin, ran, forced>>

\* Mutant of ForceNext: the list is not consumed.
ForceNextForEver(t) ==
  /\ pc[t] = "loop" /\ todo[t] # <<>>
  /\ ForceBackend(t, Head(todo[t]))
  /\ pc' = [pc EXCEPT ![t] = "idle"]
  /\ UNCHANGED <<host, avx2, sha_ni, lock, op, chosen, todo, ops>>

\* The loop forces the next backend and calls the body.
ForceNext(t) ==
  /\ pc[t] = "loop" /\ todo[t] # <<>>
  /\ ForceBackend(t, Head(todo[t]))
  /\ todo' = [todo EXCEPT ![t] = Tail(@)]
  /\ pc' = [pc EXCEPT ![t] = "idle"]
  /\ UNCHANGED <<host, avx2, sha_ni, lock, op, chosen, ops>>

\* The body returns to the loop ...
BodyEnds(t) ==
  /\ lock = t /\ pc[t] = "idle"
  /\ pc' = [pc EXCEPT ![t] = "loop"]
  /\ UNCHANGED <<host, shared, lock, op, chosen, todo, ops, pin, ran, forced>>

\* Mutant of BodyPanics: no catch_unwind, so unwinding drops the guard at once.
BodyPanicsUncaught(t) ==
  /\ lock = t /\ pc[t] = "idle"
  /\ todo' = [todo EXCEPT ![t] = <<>>]
  /\ pin' = [pin EXCEPT ![t] = None]
  /\ pc' = [pc EXCEPT ![t] = "unlock"]
  /\ UNCHANGED <<host, shared, lock, op, chosen, ops, ran, forced>>

\* ... or panics, and catch_unwind drops the rest of the list.
BodyPanics(t) ==
  /\ lock = t /\ pc[t] = "idle"
  /\ todo' = [todo EXCEPT ![t] = <<>>]
  /\ pc' = [pc EXCEPT ![t] = "loop"]
  /\ UNCHANGED <<host, shared, lock, op, chosen, ops, pin, ran, forced>>

\* Either way the loop is over: reset_backend, and then the guard is dropped.
ResetAfterLoop(t) ==
  /\ pc[t] = "loop" /\ todo[t] = <<>>
  /\ ResetBackend(t)
  /\ pc' = [pc EXCEPT ![t] = "unlock"]
  /\ UNCHANGED <<host, avx2, sha_ni, lock, op, chosen, todo, ops, ran, forced>>

Unlock(t) ==
  /\ pc[t] = "unlock"
  /\ lock' = None
  /\ pc' = [pc EXCEPT ![t] = "idle"]
  /\ UNCHANGED <<host, shared, op, chosen, todo, ops, pin, ran, forced>>

\* The steps of a call that has begun, and of a body that ends.
Proceed(t) ==
  \/ LoadCached(t) \/ LoadUnprobed(t) \/ DetectAndStore(t)
  \/ HasAvx2(t) \/ StoreAvx2(t) \/ HasShaNi(t) \/ StoreShaNi(t)
  \/ ForceNext(t) \/ BodyEnds(t) \/ ResetAfterLoop(t) \/ Unlock(t)

Next ==
  \E t \in Threads :
    \/ Proceed(t)
    \/ \E o \in Ops : Start(t, o)
    \/ Override(t) \/ Restore(t)
    \/ Lock(t) \/ BodyPanics(t)

Spec == Init /\ [][Next]_vars

\* A thread inside a call is scheduled in the end, and a test's body returns.
FairSpec == Spec /\ \A t \in Threads : WF_vars(Proceed(t))

-----------------------------------------------------------------------------
RunRecord == [op : Ops, on : Backends \cup {None}, wide : BOOLEAN]

TypeOK ==
  /\ host \in Hosts
  /\ selected \in 0 .. 6 \cup {UNPROBED}
  /\ avx2 \in {UNPROBED, 0, 1} /\ sha_ni \in {UNPROBED, 0, 1}
  /\ lock \in Pinners \cup {None}
  /\ pc \in [Threads -> {"idle", "backend", "store", "has_avx2", "store_avx2",
                         "has_sha_ni", "store_sha_ni", "loop", "unlock"}]
  /\ op \in [Threads -> Ops \cup {None}]
  /\ chosen \in [Threads -> Backends \cup {None}]
  /\ todo \in [Threads -> Seq(Backends)]
  /\ ops \in [Threads -> 0 .. MaxOps]
  /\ pin \in [Threads -> Backends \cup {None}]
  /\ ran \in [Threads -> RunRecord \cup {None}]
  /\ forced \subseteq Backends

\* No thread ever executes an instruction the host lacks, whatever the threads
\* forced, reset and probed in between ("selecting a backend the host cannot
\* execute will fault"): the ladder of detect, the list of supported_backends,
\* the two independent caches and the #[target_feature] lists fit together.
NoFault ==
  \A t \in Threads :
    ran[t] # None => KernelNeeds(ran[t].op, ran[t].on, ran[t].wide) \subseteq host

\* What a thread ran since it forced a backend ran on that backend.
RanOnPin(t) ==
  pin[t] # None /\ ran[t] # None /\ ran[t].on # None => ran[t].on = pin[t]

\* The body of for_each_backend(b) runs on b: what the tests of arch/mod.rs
\* and pich256.rs mean when they check "every backend" one by one.
PinHolds == \A t \in Pinners : RanOnPin(t)

\* After force_backend(b), and until it resets it, a thread's own calls run on
\* b: "forces a specific backend, overriding CPU detection".
OverrideHolds == \A t \in Overriders : RanOnPin(t)

\* for_each_backend leaves nothing behind, panic or not: while nobody holds the
\* lock, the next reader finds what detection finds or nothing yet.
ResetRestores ==
  lock = None => selected \in {UNPROBED, Discriminant[Detect(host)]}

\* Whatever a thread runs on is what detection finds on this CPU or a backend
\* some thread forced: no race between first probes, no byte read back and no
\* reset makes up a third answer.  While nobody forces, every thread so gets
\* one and the same backend for ever ("detection settles on one and stays
\* there").
DetectedOrForced ==
  \A t \in Threads :
    ran[t] # None /\ ran[t].on # None => ran[t].on \in forced \cup {Detect(host)}

\* A pinner that took the lock gives it back, also when a body panics.
LockReleased == \A t \in Pinners : lock = t ~> lock # t
=============================================================================
