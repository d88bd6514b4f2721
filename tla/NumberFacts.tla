---------------------------- MODULE NumberFacts ----------------------------
(***************************************************************************)
(* Facts about % and \div for every divisor, which the solvers only know   *)
(* for literal ones: they carry the arguments about counters that wrap and *)
(* positions in a schedule.  And induction over the naturals, stated with  *)
(* a set for the property, which is what the provers can instantiate, with *)
(* the loops it justifies: functions defined by recursion on their bound.  *)
(***************************************************************************)
EXTENDS Integers, WellFoundedInduction, TLAPS

\* Division with remainder.
LEMMA DivMod ==
  ASSUME NEW a \in Nat, NEW n \in Nat \ {0}
  PROVE  /\ (a % n) \in 0 .. n - 1
         /\ (a \div n) \in Nat
         /\ a = n * (a \div n) + (a % n)
  BY Z3

\* The remainder is the only one: n * q + r leaves r.
LEMMA ModUnique ==
  ASSUME NEW n \in Nat \ {0}, NEW q \in Nat, NEW r \in 0 .. n - 1
  PROVE  (n * q + r) % n = r
  BY Z3

\* Counting up modulo n is the test for n and the reset to 0 that the
\* keystream loops make instead of dividing (arch/mod.rs:378-381).
LEMMA ModSucc ==
  ASSUME NEW a \in Nat, NEW n \in Nat \ {0}
  PROVE  (a + 1) % n = IF (a % n) + 1 = n THEN 0 ELSE (a % n) + 1
<1> DEFINE q == a \div n
<1> DEFINE r == a % n
<1>1. r \in 0 .. n - 1 /\ q \in Nat /\ a = n * q + r
  BY DivMod
<1> HIDE DEF q, r
<1>2. CASE r + 1 = n
  <2>1. a + 1 = n * (q + 1) + 0
    BY <1>1, <1>2, SMT
  <2>2. (n * (q + 1) + 0) % n = 0
    BY <1>1, ModUnique
  <2> QED BY <2>1, <2>2, <1>2 DEF r
<1>3. CASE r + 1 # n
  <2>1. a + 1 = n * q + (r + 1)
    BY <1>1, SMT
  <2>2. (n * q + (r + 1)) % n = r + 1
    BY <1>1, <1>3, ModUnique
  <2> QED BY <2>1, <2>2, <1>3 DEF r
<1> QED BY <1>2, <1>3

\* Multiplication is associative.
LEMMA MulAssoc ==
  ASSUME NEW a \in Nat, NEW b \in Nat, NEW c \in Nat
  PROVE  (a * b) * c = a * (b * c)
  BY Z3

\* Multiplication distributes over addition.
LEMMA MulDistributes ==
  ASSUME NEW a \in Nat, NEW b \in Nat, NEW c \in Nat
  PROVE  a * (b + c) = a * b + a * c
  BY Z3

\* Two digits stay below the product of their bounds.
LEMMA TwoDigits ==
  ASSUME NEW P \in Nat \ {0}, NEW Q \in Nat \ {0}, NEW x \in 0 .. Q - 1, NEW y \in 0 .. P - 1
  PROVE  /\ x * P + y \in 0 .. (P * Q) - 1
         /\ x * P \in 0 .. (P * Q) - 1
<1>1. x * P >= 0 /\ x * P \in Int
  BY Z3
<1>2. \A z \in Nat : z * P >= 0
  BY Z3
<1>3. (Q - 1 - x) * P >= 0
  <2>1. Q - 1 - x \in Nat
    OBVIOUS
  <2> QED BY <1>2, <2>1
<1>4. (Q - 1 - x) * P = P * Q - P - x * P
  BY Z3
<1>5. P * Q \in Int
  OBVIOUS
<1> DEFINE pq == P * Q
<1> DEFINE xp == x * P
<1>6. pq \in Int /\ xp \in Int /\ xp >= 0 /\ pq - P - xp >= 0
  BY <1>1, <1>3, <1>4, <1>5
<1> HIDE DEF pq, xp
<1>7. xp + y \in 0 .. pq - 1 /\ xp \in 0 .. pq - 1
  BY <1>6
<1> QED BY <1>7 DEF pq, xp

\* Carrying a remainder from one sum into the next.
LEMMA SumRearranged ==
  ASSUME NEW a \in Nat, NEW b \in Nat, NEW x \in Nat, NEW y \in Nat, NEW r \in Nat,
         NEW s \in Nat, a = x + r, r + b = y + s
  PROVE  a + b = (x + y) + s
  OBVIOUS

\* wrapping_add: adding to a counter already reduced modulo n gives what
\* reducing the unbounded sum gives.
LEMMA ModAdd ==
  ASSUME NEW a \in Nat, NEW b \in Nat, NEW n \in Nat \ {0}
  PROVE  ((a % n) + b) % n = (a + b) % n
<1>1. PICK q \in Nat, r \in 0 .. n - 1 : a = n * q + r /\ r = a % n
  BY DivMod
<1>2. PICK p \in Nat, s \in 0 .. n - 1 : r + b = n * p + s /\ s = (r + b) % n
  <2>1. r + b \in Nat
    OBVIOUS
  <2> QED BY <2>1, DivMod
<1>3. a + b = n * (q + p) + s /\ q + p \in Nat
  <2>1. n * q \in Nat /\ n * p \in Nat /\ n * (q + p) = n * q + n * p
    BY MulDistributes
  <2>2. a + b = (n * q + n * p) + s
    <3> DEFINE x == n * q
    <3> DEFINE y == n * p
    <3>1. x \in Nat /\ y \in Nat /\ a = x + r /\ r + b = y + s
      BY <1>1, <1>2, <2>1
    <3> HIDE DEF x, y
    <3>2. a + b = (x + y) + s
      BY <3>1, SumRearranged
    <3> QED BY <3>2 DEF x, y
  <2> QED BY <2>1, <2>2
<1>4. (n * (q + p) + s) % n = s
  BY <1>3, ModUnique
<1> QED BY <1>1, <1>2, <1>3, <1>4

\* Reducing modulo a multiple of n first does not disturb the residue modulo n:
\* a wrapped round_index names the same round key.
LEMMA ModOfMultiple ==
  ASSUME NEW a \in Nat, NEW n \in Nat \ {0}, NEW m \in Nat \ {0},
         \E k \in Nat \ {0} : m = n * k
  PROVE  (a % m) % n = a % n
<1>0. PICK k \in Nat \ {0} : m = n * k
  OBVIOUS
<1>1. PICK q \in Nat, r \in 0 .. m - 1 : a = m * q + r /\ r = a % m
  BY DivMod
<1>2. r \in Nat
  OBVIOUS
<1>3. PICK p \in Nat, s \in 0 .. n - 1 : r = n * p + s /\ s = r % n
  BY <1>2, DivMod
<1>4. m * q = n * (k * q) /\ k * q \in Nat
  BY <1>0, MulAssoc
<1>5. a = n * (p + k * q) + s /\ p + k * q \in Nat
  <2>1. /\ n * p \in Nat /\ n * (k * q) \in Nat
        /\ n * (p + k * q) = n * p + n * (k * q)
    BY <1>4, MulDistributes
  <2>2. r + n * (k * q) = (n * p + n * (k * q)) + s
    BY <1>3, <2>1, SumRearranged
  <2> QED BY <1>1, <1>4, <2>1, <2>2
<1>6. (n * (p + k * q) + s) % n = s
  BY <1>5, ModUnique
<1> QED BY <1>1, <1>3, <1>5, <1>6

-----------------------------------------------------------------------------
\* Induction and recursion.

\* A set of naturals that is not empty has a least one.
LEMMA LeastNumber ==
  ASSUME NEW T \in SUBSET Nat, T # {}
  PROVE  \E n \in T : \A k \in T : n <= k
<1> DEFINE R == OpToRel(<, Nat)
<1>1. IsWellFoundedOn(R, Nat)
  BY NatLessThanWellFounded
<1>2. \A k, n \in Nat : k < n => <<k, n>> \in R
  BY DEF OpToRel
<1> HIDE DEF R
<1>3. PICK n \in T : \A k \in T : ~(<<k, n>> \in R)
  BY <1>1, WFMin
<1>4. \A k \in T : n <= k
  <2> SUFFICES ASSUME NEW k \in T PROVE n <= k
    OBVIOUS
  <2>1. k \in Nat /\ n \in Nat /\ ~(k < n)
    BY <1>2, <1>3
  <2> QED BY <2>1
<1> QED BY <1>4

\* What holds of 0 and passes from each number to the next holds of all.
LEMMA Induction ==
  ASSUME NEW S \in SUBSET Nat, 0 \in S, \A n \in S : n + 1 \in S
  PROVE  S = Nat
<1> SUFFICES ASSUME Nat \ S # {} PROVE FALSE
  OBVIOUS
<1>1. PICK n \in Nat \ S : \A k \in Nat \ S : n <= k
  <2>1. Nat \ S \in SUBSET Nat
    OBVIOUS
  <2> QED BY <2>1, LeastNumber
<1>2. n # 0 /\ n - 1 \in Nat /\ ~(n <= n - 1) /\ (n - 1) + 1 = n
  BY <1>1
<1>3. n - 1 \in S
  BY <1>1, <1>2
<1> QED BY <1>1, <1>2, <1>3

\* Each of the first n passes of f that starts from a value in T is one of step.
Follows(f, T, step, n) ==
  \A k \in 1 .. n : f[k - 1] \in T => f[k] = step[<<k - 1, f[k - 1]>>]

\* A loop has a value after any number of passes.
LEMMA LoopExists ==
  ASSUME NEW T, NEW base \in T, NEW step \in [Nat \X T -> T], NEW n \in Nat
  PROVE  \E f \in [0 .. n -> T] : f[0] = base /\ Follows(f, T, step, n)
<1> DEFINE Loop(m, f) ==
      /\ f \in [0 .. m -> T]
      /\ f[0] = base
      /\ \A k \in 1 .. m : f[k] = step[<<k - 1, f[k - 1]>>]
<1> DEFINE S == {m \in Nat : \E f : Loop(m, f)}
<1>1. 0 \in S
  <2> DEFINE f == [k \in 0 .. 0 |-> base]
  <2>1. Loop(0, f)
    OBVIOUS
  <2> QED BY <2>1
<1>2. ASSUME NEW m \in S PROVE m + 1 \in S
  <2>1. PICK f : Loop(m, f)
    OBVIOUS
  <2> DEFINE g == [k \in 0 .. m + 1 |-> IF k = m + 1 THEN step[<<m, f[m]>>] ELSE f[k]]
  <2>2. f[m] \in T /\ m \in Nat
    BY <2>1
  <2>3. step[<<m, f[m]>>] \in T
    BY <2>2
  <2>4. g \in [0 .. m + 1 -> T] /\ g[0] = base
    BY <2>1, <2>2, <2>3
  <2>5. ASSUME NEW k \in 1 .. m + 1 PROVE g[k] = step[<<k - 1, g[k - 1]>>]
    <3>1. k \in 0 .. m + 1 /\ k - 1 \in 0 .. m + 1 /\ k - 1 # m + 1
      BY <2>2
    <3>2. g[k - 1] = f[k - 1]
      BY <3>1
    <3>3. CASE k = m + 1
      <4>1. k - 1 = m /\ g[k] = step[<<m, f[m]>>]
        BY <2>2, <3>1, <3>3
      <4> QED BY <3>2, <4>1
    <3>4. CASE k # m + 1
      <4>1. g[k] = f[k] /\ k \in 1 .. m
        BY <2>2, <3>1, <3>4
      <4> QED BY <2>1, <3>2, <4>1
    <3> QED BY <3>3, <3>4
  <2> HIDE DEF g
  <2>6. Loop(m + 1, g)
    BY <2>4, <2>5
  <2>7. m + 1 \in Nat /\ \E h : Loop(m + 1, h)
    BY <2>2, <2>6
  <2> HIDE DEF Loop
  <2> QED BY <2>7
<1>3. S \in SUBSET Nat
  OBVIOUS
<1> HIDE DEF S
<1>4. S = Nat
  BY <1>1, <1>2, <1>3, Induction
<1>5. PICK f : Loop(n, f)
  BY <1>4 DEF S
<1> QED BY <1>5 DEF Follows

\* And only one: whatever starts and goes on as a loop does is that loop.
LEMMA LoopUnique ==
  ASSUME NEW T, NEW step, NEW n \in Nat, NEW f \in [0 .. n -> T], NEW g, f[0] = g[0],
         Follows(f, T, step, n), Follows(g, T, step, n)
  PROVE  \A k \in 0 .. n : f[k] = g[k]
<1> DEFINE S == {k \in Nat : k <= n => f[k] = g[k]}
<1>1. 0 \in S
  OBVIOUS
<1>2. ASSUME NEW k \in S PROVE k + 1 \in S
  <2>1. k \in Nat /\ (k <= n => f[k] = g[k])
    OBVIOUS
  <2>2. CASE k + 1 <= n
    <3>1. k + 1 \in 1 .. n /\ (k + 1) - 1 = k /\ k <= n /\ k \in 0 .. n
      BY <2>1, <2>2
    <3>2. f[k] \in T /\ f[k] = g[k]
      BY <2>1, <3>1
    <3>3. f[k + 1] = step[<<k, f[k]>>] /\ g[k + 1] = step[<<k, g[k]>>]
      BY <3>1, <3>2 DEF Follows
    <3> QED BY <2>1, <3>2, <3>3
  <2> QED BY <2>1, <2>2
<1>3. S \in SUBSET Nat
  OBVIOUS
<1> HIDE DEF S
<1>4. S = Nat
  BY <1>1, <1>2, <1>3, Induction
<1> QED BY <1>4 DEF S

\* Every pass of f, which has no end, is one of step.
Unfolds(f, step) == \A k \in Nat : f[k + 1] = step[<<k, f[k]>>]

\* A loop without end has a value after every number of passes.
LEMMA RecursionExists ==
  ASSUME NEW T, NEW base \in T, NEW step \in [Nat \X T -> T]
  PROVE  \E f \in [Nat -> T] : f[0] = base /\ Unfolds(f, step)
<1> DEFINE Loop(n, f) == f \in [0 .. n -> T] /\ f[0] = base /\ Follows(f, T, step, n)
<1> DEFINE F(n) == CHOOSE f : Loop(n, f)
<1> DEFINE h == [n \in Nat |-> F(n)[n]]
<1>1. ASSUME NEW n \in Nat PROVE Loop(n, F(n))
  <2>1. \E f : Loop(n, f)
    BY LoopExists
  <2> QED BY <2>1
<1> HIDE DEF F
<1>2. ASSUME NEW n \in Nat PROVE F(n + 1)[n] = F(n)[n]
  <2> DEFINE f == F(n)
  <2> DEFINE g == F(n + 1)
  <2>1. Loop(n, f) /\ Loop(n + 1, g)
    BY <1>1
  <2> HIDE DEF f, g
  <2>2. Follows(g, T, step, n)
    BY <2>1 DEF Follows
  <2>3. \A k \in 0 .. n : f[k] = g[k]
    BY <2>1, <2>2, LoopUnique
  <2> QED BY <2>3 DEF f, g
<1>3. h \in [Nat -> T]
  <2> SUFFICES ASSUME NEW n \in Nat PROVE F(n)[n] \in T
    OBVIOUS
  <2>1. F(n) \in [0 .. n -> T]
    BY <1>1
  <2> QED BY <2>1
<1>4. h[0] = base
  BY <1>1
<1>5. ASSUME NEW k \in Nat PROVE h[k + 1] = step[<<k, h[k]>>]
  <2> DEFINE g == F(k + 1)
  <2>1. Loop(k + 1, g)
    BY <1>1
  <2>2. h[k + 1] = g[k + 1] /\ h[k] = g[k]
    BY <1>2
  <2> HIDE DEF g, h
  <2>3. k + 1 \in 1 .. k + 1 /\ (k + 1) - 1 = k /\ g[k] \in T
    BY <2>1
  <2>4. g[k + 1] = step[<<k, g[k]>>]
    BY <2>1, <2>3 DEF Follows
  <2> QED BY <2>2, <2>4
<1> HIDE DEF h
<1> QED BY <1>3, <1>4, <1>5 DEF Unfolds
=============================================================================
