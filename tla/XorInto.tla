------------------------------ MODULE XorInto ------------------------------
(***************************************************************************)
(* arch::xor_into, the last step of encrypt: dst[i] ^= src[i] over the     *)
(* overlap of the two slices.  The vector versions walk two raw pointers   *)
(* and a count through a wide loop, a narrow loop and a byte-wise rest.    *)
(***************************************************************************)
EXTENDS Integers

CONSTANTS
  Bytes,   \* what a byte of memory holds
  XorB,    \* <<byte, byte>> |-> their exclusive or
  Wide,    \* bytes in a register of the wide loop: 32
  Narrow,  \* bytes in a register of the narrow loop: 16
  Size     \* bound: addresses of memory modelled

ASSUME WidthAssumption ==
  /\ Wide \in Nat \ {0} /\ Narrow \in Nat \ {0} /\ Size \in Nat
  /\ XorB \in [Bytes \X Bytes -> Bytes]

Slots == 0 .. Size - 1

VARIABLES
  dst,      \* the memory the destination slice is the beginning of
  src,      \* the memory the source slice is the beginning of
  n,        \* the length of their overlap
  d,        \* bytes the destination pointer has advanced
  s,        \* bytes the source pointer has advanced
  left,     \* bytes the loops have still to do
  loop,     \* "wide", "narrow", "rest" or "done"
  original  \* history: dst at the call

xorVars == <<dst, src, n, d, s, left, loop, original>>

\* The overlap of two lengths.
Overlap(a, b) == IF a <= b THEN a ELSE b

\* A call: the backend decides which loop is the first.
XorInit ==
  /\ dst \in [Slots -> Bytes]
  /\ src \in [Slots -> Bytes]
  /\ \E dlen, slen \in 0 .. Size : n = Overlap(dlen, slen)
  /\ d = 0 /\ s = 0 /\ left = n
  /\ loop \in {"wide", "narrow", "rest"}
  /\ original = dst

\* w bytes loaded from each pointer, combined, stored at the first.
Combined(w) ==
  [a \in Slots |->
     IF a \in d .. d + w - 1 THEN XorB[<<dst[a], src[s + (a - d)]>>] ELSE dst[a]]

WideStep ==
  /\ loop = "wide" /\ left >= Wide
  /\ dst' = Combined(Wide)
  /\ d' = d + Wide /\ s' = s + Wide /\ left' = left - Wide
  /\ UNCHANGED <<src, n, loop, original>>

WideEnd ==
  /\ loop = "wide" /\ left < Wide
  /\ loop' = "narrow"
  /\ UNCHANGED <<dst, src, n, d, s, left, original>>

\* Mutant of NarrowStep: the source pointer stays.
NarrowStepSameSource ==
  /\ loop = "narrow" /\ left >= Narrow
  /\ dst' = Combined(Narrow)
  /\ d' = d + Narrow /\ left' = left - Narrow
  /\ UNCHANGED <<src, n, s, loop, original>>

NarrowStep ==
  /\ loop = "narrow" /\ left >= Narrow
  /\ dst' = Combined(Narrow)
  /\ d' = d + Narrow /\ s' = s + Narrow /\ left' = left - Narrow
  /\ UNCHANGED <<src, n, loop, original>>

NarrowEnd ==
  /\ loop = "narrow" /\ left < Narrow
  /\ loop' = "rest"
  /\ UNCHANGED <<dst, src, n, d, s, left, original>>

\* fallback::xor_into over slices rebuilt from the pointers and the count.
Rest ==
  /\ loop = "rest"
  /\ dst' = Combined(left)
  /\ d' = d + left /\ s' = s + left /\ left' = 0
  /\ loop' = "done"
  /\ UNCHANGED <<src, n, original>>

XorNext == WideStep \/ WideEnd \/ NarrowStep \/ NarrowEnd \/ Rest

XorSpec == XorInit /\ [][XorNext]_xorVars

-----------------------------------------------------------------------------
XorTypeOK ==
  /\ dst \in [Slots -> Bytes]
  /\ src \in [Slots -> Bytes]
  /\ original \in [Slots -> Bytes]
  /\ n \in 0 .. Size
  /\ d \in 0 .. n /\ s \in 0 .. n /\ left \in 0 .. n
  /\ loop \in {"wide", "narrow", "rest", "done"}

\* Wherever the loops stand, each byte of the overlap gone past has been
\* combined once with the source byte of its own index, every other byte of
\* memory is as it was, and a call that returns has gone past the whole
\* overlap: pointers and count stay in step from one loop to the next.
CombinedOnce ==
  /\ \A a \in Slots :
       dst[a] = IF a < d THEN XorB[<<original[a], src[a]>>] ELSE original[a]
  /\ loop = "done" => d = n
=============================================================================
