--------------------------- MODULE Dispatch_proof ---------------------------
(***************************************************************************)
(* Proofs about Dispatch for any threads in any roles, any number of calls *)
(* and any set of CPUs that satisfy HostAssumption.                        *)
(***************************************************************************)
EXTENDS Dispatch, SequenceTheorems, TLAPS

\* Storing a backend and reading it back gives that backend.
LEMMA FromDiscriminant ==
  ASSUME NEW b \in Backends
  PROVE  /\ FromU8(Discriminant[b]) = b
         /\ Discriminant[b] \in 0 .. 6
  BY DEF Backends, Discriminant, FromU8

\* A byte always reads as some backend.
LEMMA FromU8Type ==
  ASSUME NEW v
  PROVE  FromU8(v) \in Backends
  BY DEF FromU8, Backends

\* Detection picks a backend that supported_backends would list.
LEMMA DetectSupported ==
  ASSUME NEW h
  PROVE  Detect(h) \in Supported(h)
  BY DEF Detect, Supported, Backends, Listed

\* supported_backends lists backends the host can execute, nothing else.
LEMMA ListSupported ==
  ASSUME NEW h
  PROVE  SupportedBackends(h) \in Seq(Supported(h))
<1>1. \A b \in Backends : Pushed(h, b) \in Seq(Supported(h))
  BY DEF Pushed, Supported
<1>2. <<"Sse2", "Fallback">> \in Seq(Supported(h))
  BY DEF Supported, Backends, Listed
<1>3. {"AesNi", "Gfni", "Avx512Vbmi", "Avx2", "Ssse3"} \subseteq Backends
  BY DEF Backends
<1> QED BY <1>1, <1>2, <1>3, ConcatProperties DEF SupportedBackends

\* A backend a host supports faults in none of the operations that use it,
\* whatever their own caches answer, as long as the answers are true.
LEMMA SupportedRuns ==
  ASSUME NEW h \in Hosts, NEW b \in Supported(h), NEW o \in AllOps,
         NEW wide \in BOOLEAN, o # "sha256_compress",
         o = "xor_into" /\ wide => "avx2" \in h
  PROVE  KernelNeeds(o, b, wide) \subseteq h
  BY HostAssumption
  DEF KernelNeeds, Supported, Backends, Listed, HardwareFeatures, ShuffleFeatures,
      XorFeatures, AllOps

\* The same for SHA-256, which no backend decides.
LEMMA ShaRuns ==
  ASSUME NEW h \in Hosts, NEW b, NEW wide \in BOOLEAN,
         wide => ShaFeatures \subseteq h
  PROVE  KernelNeeds("sha256_compress", b, wide) \subseteq h
  BY HostAssumption DEF KernelNeeds, ShaFeatures, ShaNiFeatures

-----------------------------------------------------------------------------
\* Which operation a thread can be in at each point between the atomics.
OpShape ==
  \A t \in Threads :
    /\ pc[t] \in {"backend", "store"} => op[t] \in Ops \ {"sha256_compress"}
    /\ pc[t] \in {"has_avx2", "store_avx2"} => op[t] \in Ops /\ op[t] = "xor_into"
    /\ pc[t] \in {"has_sha_ni", "store_sha_ni"} =>
         op[t] \in Ops /\ op[t] = "sha256_compress"

TypeInv == TypeOK /\ OpShape

\* A thread that runs the code it chose returns with well-typed variables.
LEMMA RunType ==
  ASSUME TypeInv, NEW t \in Threads, NEW b \in Backends \cup {None},
         NEW wide \in BOOLEAN, op[t] \in Ops, Run(t, b, wide)
  PROVE  /\ pc' = [pc EXCEPT ![t] = "idle"]
         /\ op' \in [Threads -> Ops \cup {None}]
         /\ \A u \in Threads \ {t} : op'[u] = op[u]
         /\ chosen' \in [Threads -> Backends \cup {None}]
         /\ ran' \in [Threads -> RunRecord \cup {None}]
<1>1. [op |-> op[t], on |-> b, wide |-> wide] \in RunRecord
  BY DEF RunRecord
<1> QED BY <1>1 DEF Run, TypeInv, TypeOK

\* The same after an answer of backend(), which may lead on to has_avx2.
LEMMA AnsweredType ==
  ASSUME TypeInv, NEW t \in Threads, NEW b \in Backends,
         op[t] \in Ops \ {"sha256_compress"}, Answered(t, b)
  PROVE  /\ \/ pc' = [pc EXCEPT ![t] = "idle"]
            \/ pc' = [pc EXCEPT ![t] = "has_avx2"] /\ op' = op /\ op[t] = "xor_into"
         /\ op' \in [Threads -> Ops \cup {None}]
         /\ \A u \in Threads \ {t} : op'[u] = op[u]
         /\ chosen' \in [Threads -> Backends \cup {None}]
         /\ ran' \in [Threads -> RunRecord \cup {None}]
<1>1. CASE op[t] = "xor_into" /\ b # "Fallback"
  BY <1>1 DEF Answered, TypeInv, TypeOK
<1>2. CASE ~(op[t] = "xor_into" /\ b # "Fallback")
  <2>1. Run(t, b, FALSE)
    BY <1>2 DEF Answered
  <2> QED BY <2>1, RunType
<1> QED BY <1>1, <1>2

\* The process starts well typed.
LEMMA TypeInit == Init => TypeInv
<1> SUFFICES ASSUME Init PROVE TypeInv
  OBVIOUS
<1>1. TypeOK
  BY ThreadAssumption DEF Init, TypeOK
<1>2. OpShape
  BY DEF Init, OpShape
<1> QED BY <1>1, <1>2 DEF TypeInv

\* No step of a thread takes a variable out of its type.
LEMMA TypeStep == TypeInv /\ [Next]_vars => TypeInv'
<1> SUFFICES ASSUME TypeInv, [Next]_vars PROVE TypeInv'
  OBVIOUS
<1> USE DEF TypeInv, TypeOK, OpShape
<1>1. ASSUME NEW t \in Threads, LoadCached(t) PROVE TypeInv'
  BY <1>1, AnsweredType, FromU8Type DEF LoadCached, shared
<1>2. ASSUME NEW t \in Threads, LoadUnprobed(t) PROVE TypeInv'
  BY <1>2 DEF LoadUnprobed, shared
<1>3. ASSUME NEW t \in Threads, DetectAndStore(t) PROVE TypeInv'
  <2>1. Detect(host) \in Backends
    BY DetectSupported DEF Supported
  <2> QED BY <1>3, <2>1, AnsweredType, FromDiscriminant DEF DetectAndStore
<1>4. ASSUME NEW t \in Threads, HasAvx2(t) PROVE TypeInv'
  <2>1. CASE avx2 # UNPROBED
    <3>1. PICK wide \in BOOLEAN : Run(t, chosen[t], wide)
      BY <1>4, <2>1 DEF HasAvx2
    <3> QED BY <1>4, <3>1, RunType DEF HasAvx2, shared
  <2>2. CASE avx2 = UNPROBED
    BY <1>4, <2>2 DEF HasAvx2, shared
  <2> QED BY <2>1, <2>2
<1>5. ASSUME NEW t \in Threads, StoreAvx2(t) PROVE TypeInv'
  <2>0. op[t] \in Ops /\ chosen[t] \in Backends \cup {None}
    BY <1>5 DEF StoreAvx2
  <2>1. PICK wide \in BOOLEAN : Run(t, chosen[t], wide)
    BY <1>5 DEF StoreAvx2
  <2>2. avx2' \in {UNPROBED, 0, 1}
    BY <1>5 DEF StoreAvx2, AsByte
  <2>3. /\ pc' = [pc EXCEPT ![t] = "idle"]
        /\ op' \in [Threads -> Ops \cup {None}]
        /\ \A u \in Threads \ {t} : op'[u] = op[u]
        /\ chosen' \in [Threads -> Backends \cup {None}]
        /\ ran' \in [Threads -> RunRecord \cup {None}]
    BY <2>0, <2>1, RunType
  <2> QED BY <1>5, <2>2, <2>3 DEF StoreAvx2
<1>6. ASSUME NEW t \in Threads, HasShaNi(t) PROVE TypeInv'
  <2>1. CASE sha_ni # UNPROBED
    <3>1. PICK wide \in BOOLEAN : Run(t, None, wide)
      BY <1>6, <2>1 DEF HasShaNi
    <3> QED BY <1>6, <3>1, RunType DEF HasShaNi, shared
  <2>2. CASE sha_ni = UNPROBED
    BY <1>6, <2>2 DEF HasShaNi, shared
  <2> QED BY <2>1, <2>2
<1>7. ASSUME NEW t \in Threads, StoreShaNi(t) PROVE TypeInv'
  <2>1. PICK wide \in BOOLEAN : Run(t, None, wide)
    BY <1>7 DEF StoreShaNi
  <2>2. sha_ni' \in {UNPROBED, 0, 1}
    BY <1>7 DEF StoreShaNi, AsByte
  <2> QED BY <1>7, <2>1, <2>2, RunType DEF StoreShaNi
<1>8. ASSUME NEW t \in Threads, ForceNext(t) PROVE TypeInv'
  <2>1. Head(todo[t]) \in Backends /\ Tail(todo[t]) \in Seq(Backends)
    BY <1>8, HeadTailProperties DEF ForceNext
  <2> QED BY <1>8, <2>1, FromDiscriminant DEF ForceNext, ForceBackend
<1>9. ASSUME NEW t \in Threads, BodyEnds(t) PROVE TypeInv'
  BY <1>9 DEF BodyEnds, shared
<1>10. ASSUME NEW t \in Threads, ResetAfterLoop(t) PROVE TypeInv'
  BY <1>10 DEF ResetAfterLoop, ResetBackend
<1>11. ASSUME NEW t \in Threads, Unlock(t) PROVE TypeInv'
  BY <1>11 DEF Unlock, shared
<1>12. ASSUME NEW t \in Threads, NEW o \in Ops, Start(t, o) PROVE TypeInv'
  BY <1>12, ThreadAssumption DEF Start, shared
<1>13. ASSUME NEW t \in Threads, Override(t) PROVE TypeInv'
  <2>1. PICK b \in Supported(host) : ForceBackend(t, b)
    BY <1>13 DEF Override
  <2>2. b \in Backends
    BY DEF Supported
  <2> QED BY <1>13, <2>1, <2>2, FromDiscriminant, ThreadAssumption
          DEF Override, ForceBackend
<1>14. ASSUME NEW t \in Threads, Restore(t) PROVE TypeInv'
  BY <1>14 DEF Restore, ResetBackend
<1>15. ASSUME NEW t \in Threads, Lock(t) PROVE TypeInv'
  <2>1. SupportedBackends(host) \in Seq(Backends)
    <3>1. Supported(host) \subseteq Backends
      BY DEF Supported
    <3> QED BY <3>1, ListSupported, SeqMonotonic
  <2> QED BY <1>15, <2>1, ThreadAssumption DEF Lock, shared
<1>16. ASSUME NEW t \in Threads, BodyPanics(t) PROVE TypeInv'
  BY <1>16 DEF BodyPanics, shared
<1>17. CASE UNCHANGED vars
  BY <1>17 DEF vars, shared
<1> QED BY <1>1, <1>2, <1>3, <1>4, <1>5, <1>6, <1>7, <1>8, <1>9, <1>10, <1>11,
           <1>12, <1>13, <1>14, <1>15, <1>16, <1>17 DEF Next, Proceed

\* Every variable keeps its type; SELECTED only ever holds UNPROBED or one of
\* the seven discriminants, whoever stored it (arch/mod.rs:98-178).
THEOREM TypeCorrect == Spec => []TypeOK
<1>1. TypeInv => TypeOK
  BY DEF TypeInv
<1> QED BY <1>1, TypeInit, TypeStep, PTL DEF Spec

-----------------------------------------------------------------------------
\* Everything that decides what runs is true of the host: SELECTED names a
\* supported backend, the two caches do not claim a feature that is missing,
\* and the backends still to be forced or already chosen are supported.
HostTruth ==
  /\ selected # UNPROBED => FromU8(selected) \in Supported(host)
  /\ avx2 = 1 => "avx2" \in host
  /\ sha_ni = 1 => ShaFeatures \subseteq host
  /\ \A t \in Threads :
       /\ todo[t] \in Seq(Supported(host))
       /\ pc[t] \in {"has_avx2", "store_avx2"} => chosen[t] \in Supported(host)

\* NoFault alone is not inductive: what runs next depends on the atomics.
SafeInv == TypeInv /\ HostTruth /\ NoFault

\* Running code the host can execute keeps NoFault.
LEMMA RunSafe ==
  ASSUME SafeInv, NEW t \in Threads, NEW b, NEW wide \in BOOLEAN, Run(t, b, wide),
         host' = host, KernelNeeds(op[t], b, wide) \subseteq host
  PROVE  NoFault'
<1> SUFFICES ASSUME NEW u \in Threads, ran'[u] # None
             PROVE  KernelNeeds(ran'[u].op, ran'[u].on, ran'[u].wide) \subseteq host'
  BY DEF NoFault
<1>1. CASE u = t
  <2>1. ran'[u] = [op |-> op[t], on |-> b, wide |-> wide]
    BY <1>1 DEF Run, SafeInv, TypeInv, TypeOK
  <2> QED BY <2>1
<1>2. CASE u # t
  <2>1. ran'[u] = ran[u]
    BY <1>2 DEF Run, SafeInv, TypeInv, TypeOK
  <2> QED BY <2>1 DEF SafeInv, NoFault
<1> QED BY <1>1, <1>2

\* A thread whose backend() answered with a supported backend stays safe.
LEMMA AnsweredSafe ==
  ASSUME SafeInv, NEW t \in Threads, NEW b \in Supported(host), Answered(t, b),
         op[t] \in Ops \ {"sha256_compress"}, host' = host
  PROVE  /\ NoFault'
         /\ pc'[t] \in {"has_avx2", "store_avx2"} => chosen'[t] = b
         /\ \A u \in Threads \ {t} : pc'[u] = pc[u] /\ chosen'[u] = chosen[u]
<1>1. CASE op[t] = "xor_into" /\ b # "Fallback"
  BY <1>1 DEF Answered, SafeInv, TypeInv, TypeOK, NoFault
<1>2. CASE ~(op[t] = "xor_into" /\ b # "Fallback")
  <2>1. Run(t, b, FALSE)
    BY <1>2 DEF Answered
  <2>2. KernelNeeds(op[t], b, FALSE) \subseteq host
    BY SupportedRuns, ThreadAssumption DEF SafeInv, TypeInv, TypeOK
  <2>3. NoFault'
    BY <2>1, <2>2, RunSafe
  <2> QED BY <2>1, <2>3 DEF Run, SafeInv, TypeInv, TypeOK
<1> QED BY <1>1, <1>2

\* The process starts with nothing selected and nothing run.
LEMMA SafeInit == Init => SafeInv
<1> SUFFICES ASSUME Init PROVE SafeInv
  OBVIOUS
<1>1. HostTruth
  BY DEF Init, HostTruth, UNPROBED
<1>2. NoFault
  BY DEF Init, NoFault
<1> QED BY <1>1, <1>2, TypeInit DEF SafeInv

\* Every step of every thread keeps the host's truth and never faults.
LEMMA SafeStep == SafeInv /\ [Next]_vars => SafeInv'
<1> SUFFICES ASSUME SafeInv, [Next]_vars PROVE (HostTruth /\ NoFault)'
  BY TypeStep DEF SafeInv
<1>0. TypeInv /\ TypeInv' /\ HostTruth /\ NoFault /\ host \in Hosts
  BY TypeStep DEF SafeInv, TypeInv, TypeOK
<1> USE DEF HostTruth
<1>1. ASSUME NEW t \in Threads, LoadCached(t) PROVE (HostTruth /\ NoFault)'
  <2>1. FromU8(selected) \in Supported(host) /\ op[t] \in Ops \ {"sha256_compress"}
    BY <1>0, <1>1 DEF LoadCached, TypeInv, OpShape
  <2> QED BY <1>0, <1>1, <2>1, AnsweredSafe DEF LoadCached, shared
<1>2. ASSUME NEW t \in Threads, LoadUnprobed(t) PROVE (HostTruth /\ NoFault)'
  BY <1>0, <1>2 DEF LoadUnprobed, shared, NoFault, TypeInv, TypeOK
<1>3. ASSUME NEW t \in Threads, DetectAndStore(t) PROVE (HostTruth /\ NoFault)'
  <2>1. Detect(host) \in Supported(host) /\ Detect(host) \in Backends
    BY DetectSupported DEF Supported
  <2>2. op[t] \in Ops \ {"sha256_compress"}
    BY <1>0, <1>3 DEF DetectAndStore, TypeInv, OpShape
  <2> QED BY <1>0, <1>3, <2>1, <2>2, FromDiscriminant, AnsweredSafe
          DEF DetectAndStore
<1>4. ASSUME NEW t \in Threads, HasAvx2(t) PROVE (HostTruth /\ NoFault)'
  <2>0. op[t] = "xor_into" /\ op[t] \in AllOps /\ chosen[t] \in Supported(host)
    BY <1>0, <1>4, ThreadAssumption DEF HasAvx2, TypeInv, OpShape
  <2>1. CASE avx2 # UNPROBED
    <3>1. PICK wide \in BOOLEAN : Run(t, chosen[t], wide) /\ (wide => "avx2" \in host)
      BY <1>0, <1>4, <2>1 DEF HasAvx2
    <3>2. NoFault'
      BY <1>0, <1>4, <2>0, <3>1, SupportedRuns, RunSafe DEF HasAvx2
    <3> QED BY <1>0, <1>4, <3>1, <3>2 DEF HasAvx2, shared, Run, TypeInv, TypeOK
  <2>2. CASE avx2 = UNPROBED
    BY <1>0, <1>4, <2>0, <2>2 DEF HasAvx2, shared, NoFault, TypeInv, TypeOK
  <2> QED BY <2>1, <2>2
<1>5. ASSUME NEW t \in Threads, StoreAvx2(t) PROVE (HostTruth /\ NoFault)'
  <2>0. op[t] = "xor_into" /\ op[t] \in AllOps /\ chosen[t] \in Supported(host)
    BY <1>0, <1>5, ThreadAssumption DEF StoreAvx2, TypeInv, OpShape
  <2>1. PICK wide \in BOOLEAN : Run(t, chosen[t], wide) /\ (wide => "avx2" \in host)
    BY <1>5 DEF StoreAvx2
  <2>2. NoFault'
    BY <1>0, <1>5, <2>0, <2>1, SupportedRuns, RunSafe DEF StoreAvx2
  <2>3. avx2' = 1 => "avx2" \in host
    BY <1>5 DEF StoreAvx2, AsByte
  <2> QED BY <1>0, <1>5, <2>1, <2>2, <2>3 DEF StoreAvx2, Run, TypeInv, TypeOK
<1>6. ASSUME NEW t \in Threads, HasShaNi(t) PROVE (HostTruth /\ NoFault)'
  <2>0. op[t] = "sha256_compress"
    BY <1>0, <1>6 DEF HasShaNi, TypeInv, OpShape
  <2>1. CASE sha_ni # UNPROBED
    <3>1. PICK wide \in BOOLEAN : Run(t, None, wide) /\ (wide => ShaFeatures \subseteq host)
      BY <1>0, <1>6, <2>1 DEF HasShaNi
    <3>2. NoFault'
      BY <1>0, <1>6, <2>0, <3>1, ShaRuns, RunSafe DEF HasShaNi
    <3> QED BY <1>0, <1>6, <3>1, <3>2 DEF HasShaNi, shared, Run, TypeInv, TypeOK
  <2>2. CASE sha_ni = UNPROBED
    BY <1>0, <1>6, <2>0, <2>2 DEF HasShaNi, shared, NoFault, TypeInv, TypeOK
  <2> QED BY <2>1, <2>2
<1>7. ASSUME NEW t \in Threads, StoreShaNi(t) PROVE (HostTruth /\ NoFault)'
  <2>0. op[t] = "sha256_compress"
    BY <1>0, <1>7 DEF StoreShaNi, TypeInv, OpShape
  <2>1. PICK wide \in BOOLEAN : Run(t, None, wide) /\ (wide => ShaFeatures \subseteq host)
    BY <1>7 DEF StoreShaNi
  <2>2. NoFault'
    BY <1>0, <1>7, <2>0, <2>1, ShaRuns, RunSafe DEF StoreShaNi
  <2>3. sha_ni' = 1 => ShaFeatures \subseteq host
    BY <1>7 DEF StoreShaNi, AsByte
  <2> QED BY <1>0, <1>7, <2>1, <2>2, <2>3 DEF StoreShaNi, Run, TypeInv, TypeOK
<1>8. ASSUME NEW t \in Threads, NEW b \in Supported(host), ForceBackend(t, b), host' = host
      PROVE  /\ NoFault'
             /\ FromU8(selected') \in Supported(host)
  <2>1. b \in Backends
    BY DEF Supported
  <2>2. ran' = [ran EXCEPT ![t] = None]
    BY <1>8 DEF ForceBackend
  <2>3. NoFault'
    BY <1>0, <1>8, <2>2 DEF NoFault, TypeInv, TypeOK
  <2> QED BY <1>8, <2>1, <2>3, FromDiscriminant DEF ForceBackend
<1>9. ASSUME NEW t \in Threads, ForceNext(t) PROVE (HostTruth /\ NoFault)'
  <2>1. /\ Head(todo[t]) \in Supported(host)
        /\ Tail(todo[t]) \in Seq(Supported(host))
    BY <1>0, <1>9, HeadTailProperties DEF ForceNext
  <2>2. NoFault' /\ FromU8(selected') \in Supported(host)
    BY <1>8, <1>9, <2>1 DEF ForceNext
  <2> QED BY <1>0, <1>9, <2>1, <2>2 DEF ForceNext, TypeInv, TypeOK
<1>10. ASSUME NEW t \in Threads, BodyEnds(t) PROVE (HostTruth /\ NoFault)'
  BY <1>0, <1>10 DEF BodyEnds, shared, NoFault, TypeInv, TypeOK
<1>11. ASSUME NEW t \in Threads, ResetAfterLoop(t) PROVE (HostTruth /\ NoFault)'
  BY <1>0, <1>11 DEF ResetAfterLoop, ResetBackend, NoFault, TypeInv, TypeOK
<1>12. ASSUME NEW t \in Threads, Unlock(t) PROVE (HostTruth /\ NoFault)'
  BY <1>0, <1>12 DEF Unlock, shared, NoFault, TypeInv, TypeOK
<1>13. ASSUME NEW t \in Threads, NEW o \in Ops, Start(t, o)
       PROVE  (HostTruth /\ NoFault)'
  BY <1>0, <1>13 DEF Start, shared, NoFault, TypeInv, TypeOK
<1>14. ASSUME NEW t \in Threads, Override(t) PROVE (HostTruth /\ NoFault)'
  <2>1. PICK b \in Supported(host) : ForceBackend(t, b)
    BY <1>14 DEF Override
  <2>2. NoFault' /\ FromU8(selected') \in Supported(host)
    BY <1>8, <1>14, <2>1 DEF Override
  <2> QED BY <1>0, <1>14, <2>2 DEF Override
<1>15. ASSUME NEW t \in Threads, Restore(t) PROVE (HostTruth /\ NoFault)'
  BY <1>0, <1>15 DEF Restore, ResetBackend, NoFault
<1>16. ASSUME NEW t \in Threads, Lock(t) PROVE (HostTruth /\ NoFault)'
  BY <1>0, <1>16, ListSupported DEF Lock, shared, NoFault, TypeInv, TypeOK
<1>17. ASSUME NEW t \in Threads, BodyPanics(t) PROVE (HostTruth /\ NoFault)'
  BY <1>0, <1>17 DEF BodyPanics, shared, NoFault, TypeInv, TypeOK
<1>18. CASE UNCHANGED vars
  BY <1>0, <1>18 DEF vars, shared, NoFault
<1> QED BY <1>1, <1>2, <1>3, <1>4, <1>5, <1>6, <1>7, <1>9, <1>10, <1>11, <1>12,
           <1>13, <1>14, <1>15, <1>16, <1>17, <1>18 DEF Next, Proceed

\* No thread executes an instruction the host lacks, whatever any thread forced,
\* reset or probed before (the dispatchers of arch/mod.rs:311-499).
THEOREM NoThreadFaults == Spec => []NoFault
<1>1. SafeInv => NoFault
  BY DEF SafeInv
<1> QED BY <1>1, SafeInit, SafeStep, PTL DEF Spec

-----------------------------------------------------------------------------
\* What a thread may run on: what detection finds, or what somebody forced.
Allowed == forced \cup {Detect(host)}

\* The atomic and the choices already made come from there as well.
Provenance ==
  /\ selected # UNPROBED => FromU8(selected) \in Allowed
  /\ \A t \in Threads :
       pc[t] \in {"has_avx2", "store_avx2"} => chosen[t] \in Allowed

OriginInv == TypeInv /\ Provenance /\ DetectedOrForced

\* Running on an allowed backend, or on none as SHA-256 does.
LEMMA RunAllowed ==
  ASSUME OriginInv, NEW t \in Threads, NEW b \in Allowed \cup {None}, NEW wide \in BOOLEAN,
         Run(t, b, wide), UNCHANGED <<host, forced>>
  PROVE  DetectedOrForced'
<1> SUFFICES ASSUME NEW u \in Threads, ran'[u] # None, ran'[u].on # None
             PROVE  ran'[u].on \in Allowed
  BY DEF DetectedOrForced, Allowed
<1>1. CASE u = t
  <2>1. ran'[u] = [op |-> op[t], on |-> b, wide |-> wide]
    BY <1>1 DEF Run, OriginInv, TypeInv, TypeOK
  <2> QED BY <2>1
<1>2. CASE u # t
  <2>1. ran'[u] = ran[u]
    BY <1>2 DEF Run, OriginInv, TypeInv, TypeOK
  <2> QED BY <2>1 DEF OriginInv, DetectedOrForced, Allowed
<1> QED BY <1>1, <1>2

\* An allowed answer of backend() is run on, or kept for has_avx2.
LEMMA AnsweredAllowed ==
  ASSUME OriginInv, NEW t \in Threads, NEW b \in Allowed, Answered(t, b),
         UNCHANGED <<host, forced>>
  PROVE  /\ DetectedOrForced'
         /\ \A u \in Threads :
              pc'[u] \in {"has_avx2", "store_avx2"} => chosen'[u] \in Allowed
<1>1. CASE op[t] = "xor_into" /\ b # "Fallback"
  BY <1>1 DEF Answered, OriginInv, TypeInv, TypeOK, DetectedOrForced, Provenance, Allowed
<1>2. CASE ~(op[t] = "xor_into" /\ b # "Fallback")
  <2>1. Run(t, b, FALSE)
    BY <1>2 DEF Answered
  <2>2. DetectedOrForced'
    BY <2>1, RunAllowed
  <2> QED BY <2>1, <2>2 DEF Run, OriginInv, TypeInv, TypeOK, Provenance
<1> QED BY <1>1, <1>2

\* Forcing a backend allows it.
LEMMA ForceAllowed ==
  ASSUME OriginInv, NEW t \in Threads, NEW b \in Backends, ForceBackend(t, b), host' = host
  PROVE  /\ DetectedOrForced'
         /\ FromU8(selected') \in Allowed'
         /\ Allowed \subseteq Allowed'
<1>1. FromU8(selected') = b /\ b \in Allowed' /\ Allowed \subseteq Allowed'
  BY FromDiscriminant DEF ForceBackend, Allowed
<1>2. \A u \in Threads : ran'[u] = ran[u] \/ ran'[u] = None
  BY DEF ForceBackend, OriginInv, TypeInv, TypeOK
<1>3. DetectedOrForced'
  BY <1>1, <1>2 DEF OriginInv, DetectedOrForced, Allowed
<1> QED BY <1>1, <1>3

\* The process starts with nothing selected and nothing run.
LEMMA OriginInit == Init => OriginInv
  BY TypeInit DEF Init, OriginInv, Provenance, DetectedOrForced, UNPROBED

\* No step of a thread makes up a backend.
LEMMA OriginStep == OriginInv /\ [Next]_vars => OriginInv'
<1> SUFFICES ASSUME OriginInv, [Next]_vars PROVE (Provenance /\ DetectedOrForced)'
  BY TypeStep DEF OriginInv
<1>0. TypeInv /\ Provenance /\ DetectedOrForced
  BY DEF OriginInv
<1> DEFINE Goal == (Provenance /\ DetectedOrForced)'
<1>1. ASSUME NEW t \in Threads, LoadCached(t) PROVE Goal
  <2>1. FromU8(selected) \in Allowed
    BY <1>0, <1>1 DEF LoadCached, Provenance
  <2> QED BY <1>0, <1>1, <2>1, AnsweredAllowed DEF LoadCached, shared, Provenance, Allowed
<1>2. ASSUME NEW t \in Threads, DetectAndStore(t) PROVE Goal
  <2>1. Detect(host) \in Allowed /\ FromU8(Discriminant[Detect(host)]) = Detect(host)
    BY DetectSupported, FromDiscriminant DEF Supported, Allowed
  <2> QED BY <1>0, <1>2, <2>1, AnsweredAllowed DEF DetectAndStore, Provenance, Allowed
<1>3. ASSUME NEW t \in Threads, HasAvx2(t) \/ StoreAvx2(t) \/ HasShaNi(t) \/ StoreShaNi(t)
      PROVE  Goal
  <2>0. UNCHANGED <<host, forced, selected>>
    BY <1>3 DEF HasAvx2, StoreAvx2, HasShaNi, StoreShaNi, shared
  <2>1. \/ \E b \in Allowed \cup {None}, wide \in BOOLEAN : Run(t, b, wide)
        \/ /\ UNCHANGED <<chosen, ran>>
           /\ \/ pc[t] = "has_avx2" /\ pc' = [pc EXCEPT ![t] = "store_avx2"]
              \/ pc' = [pc EXCEPT ![t] = "store_sha_ni"]
    BY <1>0, <1>3 DEF HasAvx2, StoreAvx2, HasShaNi, StoreShaNi, Provenance
  <2>2. CASE \E b \in Allowed \cup {None}, wide \in BOOLEAN : Run(t, b, wide)
    <3>1. PICK b \in Allowed \cup {None}, wide \in BOOLEAN : Run(t, b, wide)
      BY <2>2
    <3>2. DetectedOrForced'
      BY <2>0, <3>1, RunAllowed
    <3> QED BY <1>0, <2>0, <3>1, <3>2 DEF Run, Provenance, Allowed, TypeInv, TypeOK
  <2>3. CASE /\ UNCHANGED <<chosen, ran>>
             /\ \/ pc[t] = "has_avx2" /\ pc' = [pc EXCEPT ![t] = "store_avx2"]
                \/ pc' = [pc EXCEPT ![t] = "store_sha_ni"]
    BY <1>0, <2>0, <2>3 DEF Provenance, DetectedOrForced, Allowed, TypeInv, TypeOK
  <2> QED BY <2>1, <2>2, <2>3
<1>4. ASSUME NEW t \in Threads, ForceNext(t) \/ Override(t) PROVE Goal
  <2>1. PICK b \in Backends : ForceBackend(t, b)
    BY <1>0, <1>4, HeadTailProperties DEF ForceNext, Override, Supported, TypeInv, TypeOK
  <2>2. /\ UNCHANGED <<host, chosen>>
        /\ \A u \in Threads : pc'[u] = pc[u] \/ pc'[u] = "idle"
    BY <1>0, <1>4 DEF ForceNext, Override, TypeInv, TypeOK
  <2>3. DetectedOrForced' /\ FromU8(selected') \in Allowed' /\ Allowed \subseteq Allowed'
    BY <2>1, <2>2, ForceAllowed
  <2> QED BY <1>0, <2>2, <2>3 DEF Provenance
<1>5. ASSUME NEW t \in Threads, ResetAfterLoop(t) \/ Restore(t) PROVE Goal
  BY <1>0, <1>5 DEF ResetAfterLoop, Restore, ResetBackend, Provenance, DetectedOrForced,
                    Allowed, TypeInv, TypeOK
<1>6. ASSUME NEW t \in Threads,
             \/ LoadUnprobed(t) \/ BodyEnds(t) \/ BodyPanics(t) \/ Lock(t) \/ Unlock(t)
             \/ \E o \in Ops : Start(t, o)
      PROVE  Goal
  <2>1. UNCHANGED <<host, selected, chosen, ran, forced>>
    BY <1>6 DEF LoadUnprobed, BodyEnds, BodyPanics, Lock, Unlock, Start, shared
  <2>2. \A u \in Threads : pc'[u] = pc[u] \/ pc'[u] \notin {"has_avx2", "store_avx2"}
    BY <1>0, <1>6 DEF LoadUnprobed, BodyEnds, BodyPanics, Lock, Unlock, Start, TypeInv, TypeOK
  <2> QED BY <1>0, <2>1, <2>2 DEF Provenance, DetectedOrForced, Allowed
<1>7. CASE UNCHANGED vars
  BY <1>0, <1>7 DEF vars, shared, Provenance, DetectedOrForced, Allowed
<1> QED BY <1>1, <1>2, <1>3, <1>4, <1>5, <1>6, <1>7 DEF Next, Proceed

\* Whatever runs, runs on what detection finds or on a backend some thread
\* forced, for any threads and any number of calls (arch/mod.rs:98-178).
THEOREM NoThirdAnswer == Spec => []DetectedOrForced
<1>1. OriginInv => DetectedOrForced
  BY DEF OriginInv
<1> QED BY <1>1, OriginInit, OriginStep, PTL DEF Spec

-----------------------------------------------------------------------------
\* The bytes for_each_backend may leave in SELECTED.
Restored == {UNPROBED, Discriminant[Detect(host)]}

\* Who is where in for_each_backend, when nobody overrides from outside: the
\* loop and a forced backend belong to the holder of the lock, a holder whose
\* body runs has forced one, and SELECTED is back before the lock is.
LockOwned ==
  /\ \A t \in Threads :
       /\ pc[t] \in {"loop", "unlock"} => lock = t
       /\ pin[t] # None => lock = t
       /\ lock = t /\ pc[t] # "loop" /\ pc[t] # "unlock" => pin[t] # None
       /\ pc[t] = "unlock" => pin[t] = None /\ selected \in Restored
       /\ t \in Pinners /\ pc[t] \notin {"idle", "loop", "unlock"} => pin[t] # None
  /\ ResetRestores

OwnerInv == TypeInv /\ LockOwned

\* The steps of a call leave the lock alone, and move SELECTED only to what
\* detection finds.
LEMMA CallSteps ==
  ASSUME TypeInv, NEW t \in Threads,
         \/ LoadCached(t) \/ LoadUnprobed(t) \/ DetectAndStore(t)
         \/ HasAvx2(t) \/ StoreAvx2(t) \/ HasShaNi(t) \/ StoreShaNi(t)
  PROVE  /\ UNCHANGED <<host, lock, pin>>
         /\ selected' = selected \/ selected' = Discriminant[Detect(host)]
         /\ pc[t] \notin {"idle", "loop", "unlock"}
         /\ pc'[t] \notin {"loop", "unlock"}
         /\ \A u \in Threads \ {t} : pc'[u] = pc[u]
<1> USE DEF TypeInv, TypeOK
<1>1. CASE LoadCached(t) \/ DetectAndStore(t)
  <2>1. PICK b : Answered(t, b)
    BY <1>1 DEF LoadCached, DetectAndStore
  <2>2. pc' = [pc EXCEPT ![t] = "has_avx2"] \/ pc' = [pc EXCEPT ![t] = "idle"]
    BY <2>1 DEF Answered, Run
  <2> QED BY <1>1, <2>2 DEF LoadCached, DetectAndStore, shared
<1>2. CASE LoadUnprobed(t)
  BY <1>2 DEF LoadUnprobed, shared
<1>3. CASE HasAvx2(t) \/ StoreAvx2(t) \/ HasShaNi(t) \/ StoreShaNi(t)
  BY <1>3 DEF HasAvx2, StoreAvx2, HasShaNi, StoreShaNi, Run, shared
<1> QED BY <1>1, <1>2, <1>3

\* The process starts with the lock free and nothing selected.
LEMMA OwnerInit == Init => OwnerInv
<1> SUFFICES ASSUME Init PROVE LockOwned
  BY TypeInit DEF OwnerInv
<1> QED BY ThreadAssumption DEF Init, LockOwned, ResetRestores, Restored

\* As long as nobody forces a backend from outside for_each_backend, no step
\* of any thread parts the lock from what it guards.
LEMMA OwnerStep ==
  ASSUME Overriders = {}
  PROVE  OwnerInv /\ [Next]_vars => OwnerInv'
<1> SUFFICES ASSUME OwnerInv, [Next]_vars PROVE LockOwned'
  BY TypeStep DEF OwnerInv
<1>0. TypeInv /\ LockOwned /\ lock \in Pinners \cup {None}
  BY DEF OwnerInv, TypeInv, TypeOK
<1> USE ThreadAssumption DEF LockOwned, ResetRestores, Restored
<1>1. ASSUME NEW t \in Threads,
             \/ LoadCached(t) \/ LoadUnprobed(t) \/ DetectAndStore(t)
             \/ HasAvx2(t) \/ StoreAvx2(t) \/ HasShaNi(t) \/ StoreShaNi(t)
      PROVE  LockOwned'
  BY <1>0, <1>1, CallSteps
<1>2. ASSUME NEW t \in Threads, NEW o \in Ops, Start(t, o) PROVE LockOwned'
  BY <1>0, <1>2 DEF Start, shared, TypeInv, TypeOK
<1>3. ASSUME NEW t \in Threads, Lock(t) PROVE LockOwned'
  BY <1>0, <1>3 DEF Lock, shared, TypeInv, TypeOK
<1>4. ASSUME NEW t \in Threads, ForceNext(t) PROVE LockOwned'
  <2>1. Head(todo[t]) \in Backends
    BY <1>0, <1>4, HeadTailProperties DEF ForceNext, TypeInv, TypeOK
  <2> QED BY <1>0, <1>4, <2>1 DEF ForceNext, ForceBackend, TypeInv, TypeOK
<1>5. ASSUME NEW t \in Threads, BodyEnds(t) \/ BodyPanics(t) PROVE LockOwned'
  BY <1>0, <1>5 DEF BodyEnds, BodyPanics, shared, TypeInv, TypeOK
<1>6. ASSUME NEW t \in Threads, ResetAfterLoop(t) PROVE LockOwned'
  BY <1>0, <1>6 DEF ResetAfterLoop, ResetBackend, TypeInv, TypeOK
<1>7. ASSUME NEW t \in Threads, Unlock(t) PROVE LockOwned'
  BY <1>0, <1>7 DEF Unlock, shared, TypeInv, TypeOK
<1>8. ASSUME NEW t \in Threads, Override(t) \/ Restore(t) PROVE FALSE
  BY <1>8 DEF Override, Restore
<1>9. CASE UNCHANGED vars
  BY <1>0, <1>9 DEF vars, shared
<1> QED BY <1>1, <1>2, <1>3, <1>4, <1>5, <1>6, <1>7, <1>8, <1>9 DEF Next, Proceed

\* for_each_backend leaves nothing behind, panic or not, whatever the threads
\* that merely call the cipher do meanwhile: once the lock is free, SELECTED is
\* unprobed or what detection finds (arch/mod.rs:512-534).
THEOREM NothingLeftBehind ==
  ASSUME Overriders = {}
  PROVE  Spec => []ResetRestores
<1>1. OwnerInv => ResetRestores
  BY DEF OwnerInv, LockOwned
<1> QED BY <1>1, OwnerInit, OwnerStep, PTL DEF Spec

-----------------------------------------------------------------------------
\* While a thread has a backend forced, SELECTED is that backend, no probe of
\* its own is about to overwrite it, and what it chose or ran is that backend.
PinInForce ==
  \A t \in Threads :
    pin[t] # None =>
      /\ selected = Discriminant[pin[t]]
      /\ pc[t] # "store"
      /\ pc[t] \in {"has_avx2", "store_avx2"} => chosen[t] = pin[t]
      /\ RanOnPin(t)

\* PinHolds is not inductive: what runs next depends on SELECTED, and SELECTED
\* on who else may write it.
PinInv == OwnerInv /\ PinInForce

\* The holder of the lock runs what it has chosen, which is its pin.
LEMMA RunOnPin ==
  ASSUME PinInv, NEW t \in Threads, NEW b, NEW wide, Run(t, b, wide),
         UNCHANGED <<selected, pin>>, b = None \/ b = pin[t]
  PROVE  PinInForce'
<1>0. TypeOK
  BY DEF PinInv, OwnerInv, TypeInv
<1> SUFFICES ASSUME NEW u \in Threads, pin[u] # None
             PROVE  /\ pc'[u] # "store"
                    /\ pc'[u] \in {"has_avx2", "store_avx2"} => chosen'[u] = pin[u]
                    /\ ran'[u] # None /\ ran'[u].on # None => ran'[u].on = pin[u]
  BY DEF PinInForce, RanOnPin, PinInv
<1>1. CASE u = t
  <2>1. ran'[u] = [op |-> op[t], on |-> b, wide |-> wide] /\ pc'[u] = "idle"
    BY <1>0, <1>1 DEF Run, TypeOK
  <2> QED BY <1>1, <2>1
<1>2. CASE u # t
  <2>1. ran'[u] = ran[u] /\ pc'[u] = pc[u] /\ chosen'[u] = chosen[u]
    BY <1>0, <1>2 DEF Run, TypeOK
  <2> QED BY <2>1 DEF PinInv, PinInForce, RanOnPin
<1> QED BY <1>1, <1>2

\* When every thread is a pinner, a thread in a call is the one that holds the
\* lock and the only one with a pin.
LEMMA AloneInCall ==
  ASSUME Callers = {}, Overriders = {}, PinInv, NEW t \in Threads,
         pc[t] \notin {"idle", "loop", "unlock"}
  PROVE  pin[t] # None /\ pin[t] \in Backends /\ lock = t
<1>1. t \in Pinners
  BY DEF Threads
<1> QED BY <1>1 DEF PinInv, OwnerInv, LockOwned, TypeInv, TypeOK

\* The process starts with no backend forced.
LEMMA PinInit == Init => PinInv
  BY OwnerInit DEF Init, PinInv, PinInForce

\* Among threads that all go through for_each_backend, no step makes a body run
\* on anything but the backend it was called for.
LEMMA PinStep ==
  ASSUME Callers = {}, Overriders = {}
  PROVE  PinInv /\ [Next]_vars => PinInv'
<1> SUFFICES ASSUME PinInv, [Next]_vars PROVE PinInForce'
  BY OwnerStep DEF PinInv
<1>0. TypeOK /\ LockOwned /\ PinInForce
  BY DEF PinInv, OwnerInv, TypeInv
<1>1. ASSUME NEW t \in Threads, LoadCached(t) PROVE PinInForce'
  <2>1. pin[t] \in Backends /\ FromU8(selected) = pin[t]
    <3>1. pin[t] # None /\ pin[t] \in Backends
      BY <1>1, AloneInCall DEF LoadCached
    <3> QED BY <1>0, <3>1, FromDiscriminant DEF PinInForce
  <2>2. Answered(t, pin[t]) /\ UNCHANGED <<selected, pin>>
    BY <1>1, <2>1 DEF LoadCached, shared
  <2>3. CASE op[t] = "xor_into" /\ pin[t] # "Fallback"
    BY <1>0, <2>2, <2>3 DEF Answered, PinInForce, RanOnPin, TypeOK
  <2>4. CASE ~(op[t] = "xor_into" /\ pin[t] # "Fallback")
    <3>1. Run(t, pin[t], FALSE)
      BY <2>2, <2>4 DEF Answered
    <3> QED BY <2>2, <3>1, RunOnPin
  <2> QED BY <2>3, <2>4
<1>2. ASSUME NEW t \in Threads, LoadUnprobed(t) PROVE FALSE
  <2>1. pin[t] \in Backends /\ pin[t] # None
    BY <1>2, AloneInCall DEF LoadUnprobed
  <2>2. selected \in 0 .. 6
    BY <1>0, <2>1, FromDiscriminant DEF PinInForce
  <2> QED BY <1>2, <2>2 DEF LoadUnprobed, UNPROBED
<1>3. ASSUME NEW t \in Threads, DetectAndStore(t) PROVE FALSE
  BY <1>0, <1>3, AloneInCall DEF DetectAndStore, PinInForce
<1>4. ASSUME NEW t \in Threads, HasAvx2(t) \/ StoreAvx2(t) PROVE PinInForce'
  <2>1. chosen[t] = pin[t] /\ UNCHANGED <<selected, pin>>
    BY <1>0, <1>4, AloneInCall DEF HasAvx2, StoreAvx2, PinInForce, shared
  <2>2. CASE \E wide : Run(t, chosen[t], wide)
    BY <2>1, <2>2, RunOnPin
  <2>3. CASE pc' = [pc EXCEPT ![t] = "store_avx2"] /\ UNCHANGED <<chosen, ran>>
    BY <1>0, <2>1, <2>3 DEF PinInForce, RanOnPin, TypeOK
  <2> QED BY <1>4, <2>2, <2>3 DEF HasAvx2, StoreAvx2
<1>5. ASSUME NEW t \in Threads, HasShaNi(t) \/ StoreShaNi(t) PROVE PinInForce'
  <2>1. UNCHANGED <<selected, pin>>
    BY <1>5 DEF HasShaNi, StoreShaNi, shared
  <2>2. CASE \E wide : Run(t, None, wide)
    BY <2>1, <2>2, RunOnPin
  <2>3. CASE pc' = [pc EXCEPT ![t] = "store_sha_ni"] /\ UNCHANGED <<chosen, ran>>
    BY <1>0, <2>1, <2>3 DEF PinInForce, RanOnPin, TypeOK
  <2> QED BY <1>5, <2>2, <2>3 DEF HasShaNi, StoreShaNi
<1>6. ASSUME NEW t \in Threads, ForceNext(t) PROVE PinInForce'
  <2>1. lock = t /\ \A u \in Threads \ {t} : pin[u] = None
    BY <1>0, <1>6 DEF ForceNext, LockOwned
  <2> QED BY <1>0, <1>6, <2>1
          DEF ForceNext, ForceBackend, PinInForce, RanOnPin, TypeOK
<1>7. ASSUME NEW t \in Threads, ResetAfterLoop(t) PROVE PinInForce'
  <2>1. lock = t /\ \A u \in Threads \ {t} : pin[u] = None
    BY <1>0, <1>7 DEF ResetAfterLoop, LockOwned
  <2> QED BY <1>0, <1>7, <2>1 DEF ResetAfterLoop, ResetBackend, PinInForce, TypeOK
<1>8. ASSUME NEW t \in Threads,
             \/ BodyEnds(t) \/ BodyPanics(t) \/ Lock(t) \/ Unlock(t)
             \/ \E o \in Ops : Start(t, o)
      PROVE  PinInForce'
  <2>1. UNCHANGED <<selected, chosen, ran, pin>>
    BY <1>8 DEF BodyEnds, BodyPanics, Lock, Unlock, Start, shared
  <2>2. \A u \in Threads :
          pc'[u] = pc[u] \/ pc'[u] \notin {"store", "has_avx2", "store_avx2"}
    BY <1>0, <1>8 DEF BodyEnds, BodyPanics, Lock, Unlock, Start, TypeOK
  <2> QED BY <1>0, <2>1, <2>2 DEF PinInForce, RanOnPin
<1>9. ASSUME NEW t \in Threads, Override(t) \/ Restore(t) PROVE FALSE
  BY <1>9 DEF Override, Restore
<1>10. CASE UNCHANGED vars
  BY <1>0, <1>10 DEF vars, shared, PinInForce, RanOnPin
<1> QED BY <1>1, <1>2, <1>3, <1>4, <1>5, <1>6, <1>7, <1>8, <1>9, <1>10
        DEF Next, Proceed

\* Where every thread goes through for_each_backend, each body runs on the
\* backend it was called for, for any number of such threads and calls: what
\* BACKEND_LOCK buys (arch/mod.rs:512-534).
THEOREM PinsHold ==
  ASSUME Callers = {}, Overriders = {}
  PROVE  Spec => []PinHolds
<1>1. PinInv => PinHolds
  BY DEF PinInv, PinInForce, PinHolds, RanOnPin, Threads
<1> QED BY <1>1, PinInit, PinStep, PTL DEF Spec
=============================================================================
