----------------------------- MODULE MCDispatch -----------------------------
(***************************************************************************)
(* The CPUs and the thread roles the runs of Dispatch use.                 *)
(***************************************************************************)
EXTENDS Dispatch

Baseline == {"sse2"}
Shuffle == Baseline \cup {"ssse3", "sse4.1"}
Vector == Shuffle \cup {"avx2"}

\* AVX-512 without vbmi: a CPU that must not be given the vpermi2b path.
EarlyAvx512 == Vector \cup (Avx512Features \ {"avx512vbmi"})

\* One CPU per backend detect can pick, one that has every feature, and one
\* that has most of what a backend needs.
MCHosts ==
  {Baseline, Shuffle, Vector, EarlyAvx512, Vector \cup Avx512Features,
   Shuffle \cup {"gfni"}, Shuffle \cup {"aes", "sha"}, Features}

\* Two CPUs are enough where the question is about the order of the steps: one
\* whose detected backend is last but one in the list, and one with a choice.
FewHosts == {Baseline, Shuffle \cup {"aes"}}
=============================================================================
