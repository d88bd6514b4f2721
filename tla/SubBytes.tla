------------------------------ MODULE SubBytes ------------------------------
(***************************************************************************)
(* arch::sub_bytes on a slice of any length: whole registers first, then   *)
(* what is left over, in place.  Every backend must leave the slice as the *)
(* portable loop over the table would, and the memory after it alone.      *)
(***************************************************************************)
EXTENDS SboxKernels

CONSTANTS
  Kernels,   \* the backends considered
  MaxLen,    \* bound: the longest slice
  Beyond,    \* bytes of memory modelled after the longest slice
  Contents   \* what memory may hold: functions from Addresses to bytes

Addresses == 0 .. MaxLen + Beyond - 1

ASSUME MemoryAssumption ==
  /\ Kernels \subseteq {"Fallback", "Ssse3", "Avx2", "Avx512Vbmi", "AesNi", "Gfni"}
  /\ MaxLen \in Nat /\ Beyond \in Nat
  /\ Contents \subseteq [Addresses -> Byte]

VARIABLES
  kernel,  \* the backend dispatched to
  len,     \* length of the slice, which starts at address 0
  bytes,   \* memory
  off,     \* bytes of the slice the loops have gone past
  pc,      \* the loop under way, by the width of its chunks, "scalar" or "done"
  before   \* history: memory at the call

vars == <<kernel, len, bytes, off, pc, before>>

\* The loop each backend's function starts with.
FirstLoop ==
  [Fallback |-> "scalar", Ssse3 |-> "x16", AesNi |-> "x16", Gfni |-> "x16",
   Avx2 |-> "x32", Avx512Vbmi |-> "x64"]

Width == [x16 |-> 16, x32 |-> 32, x64 |-> 64]

Init ==
  /\ kernel \in Kernels
  /\ len \in 0 .. MaxLen
  /\ before \in Contents
  /\ bytes = before
  /\ off = 0
  /\ pc = FirstLoop[kernel]

\* What the register function of the loop makes of the register x.  The 16-byte
\* loop of the AVX2 backend is the SSSE3 one.
Substituted(x) ==
  IF pc = "x64" THEN [i \in DOMAIN x |-> Blended[x[i]]]
  ELSE IF kernel = "AesNi" THEN SubstituteXor(x, Zero)
  ELSE IF kernel = "Gfni" THEN [i \in DOMAIN x |-> AffineOfInverse[x[i]]]
  ELSE [i \in DOMAIN x |-> AllRows[x[i]]]

Loaded(n) == [i \in 0 .. n - 1 |-> bytes[off + i]]

\* Memory after storing the first n bytes of x at off.
Stored(x, n) ==
  [a \in Addresses |-> IF a \in off .. off + n - 1 THEN x[a - off] ELSE bytes[a]]

\* One chunk of chunks_exact_mut.
Chunk ==
  /\ pc \in DOMAIN Width
  /\ len - off >= Width[pc]
  /\ bytes' = Stored(Substituted(Loaded(Width[pc])), Width[pc])
  /\ off' = off + Width[pc]
  /\ UNCHANGED <<kernel, len, pc, before>>

\* Mutant of Remainder: the AVX2 tail hands the whole slice to the SSSE3 path.
RemainderRestarts ==
  /\ pc \in {"x16", "x32"}
  /\ len - off < Width[pc]
  /\ pc' = IF pc = "x32" THEN "x16" ELSE "scalar"
  /\ off' = IF pc = "x32" THEN 0 ELSE off
  /\ UNCHANGED <<kernel, len, bytes, before>>

\* into_remainder: the 32-byte loop leaves it to the 16-byte one, and that one
\* to the table.
Remainder ==
  /\ pc \in {"x16", "x32"}
  /\ len - off < Width[pc]
  /\ pc' = IF pc = "x32" THEN "x16" ELSE "scalar"
  /\ UNCHANGED <<kernel, len, bytes, off, before>>

\* Mutant of MaskedRemainder: the store does not take the mask.
UnmaskedRemainder ==
  /\ pc = "x64" /\ len - off < 64
  /\ LET rest == len - off
         v == [i \in 0 .. 63 |-> IF i < rest THEN bytes[off + i] ELSE 0]
     IN bytes' = IF rest > 0 THEN Stored(Substituted(v), 64) ELSE bytes
  /\ off' = len
  /\ pc' = "done"
  /\ UNCHANGED <<kernel, len, before>>

\* AVX-512: what is left is loaded and stored under a mask of its lanes.
MaskedRemainder ==
  /\ pc = "x64" /\ len - off < 64
  /\ LET rest == len - off
         v == [i \in 0 .. 63 |-> IF i < rest THEN bytes[off + i] ELSE 0]
     IN bytes' = IF rest > 0 THEN Stored(Substituted(v), rest) ELSE bytes
  /\ off' = len
  /\ pc' = "done"
  /\ UNCHANGED <<kernel, len, before>>

\* fallback::sub_bytes over the slice or what is left of it.
Scalar ==
  /\ pc = "scalar"
  /\ bytes' = Stored([i \in 0 .. len - off - 1 |-> SBOX[bytes[off + i]]], len - off)
  /\ off' = len
  /\ pc' = "done"
  /\ UNCHANGED <<kernel, len, before>>

Next == Chunk \/ Remainder \/ MaskedRemainder \/ Scalar

Spec == Init /\ [][Next]_vars

-----------------------------------------------------------------------------
\* At every point of every backend's loops the part of the slice gone past has
\* been through the table exactly once and the rest not yet, and a backend that
\* returns has gone past all of it: chunks, remainders and masks leave no byte
\* out and take none twice, and each register function is the table.
SubstitutedOnce ==
  /\ \A a \in 0 .. len - 1 :
       bytes[a] = IF a < off THEN SBOX[before[a]] ELSE before[a]
  /\ pc = "done" => off = len

\* No backend writes after the end of the slice it was given, whatever lanes of
\* its registers the last bytes leave unused.
NothingBeyond == \A a \in Addresses : a >= len => bytes[a] = before[a]
=============================================================================
