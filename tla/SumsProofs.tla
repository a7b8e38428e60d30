----------------------------- MODULE SumsProofs -----------------------------
(***************************************************************************)
(* Induction up to a number without a theorem that takes an operator, and  *)
(* by it what the recursion of Sums computes for every sequence.           *)
(***************************************************************************)
EXTENDS Sums, FiniteSetTheorems, TLAPS

-----------------------------------------------------------------------------
(* Arithmetic.                                                             *)

(* A C division and its remainder.                                         *)
LEMMA Euclid ==
  ASSUME NEW x \in Nat, NEW w \in Nat \ {0}
  PROVE  \E q \in Nat : \E r \in 0 .. w - 1 : x % w = r /\ x = (w * q) + r
<1>1. /\ x % w \in 0 .. w - 1
      /\ x \div w \in Nat
      /\ x = (w * (x \div w)) + (x % w)
  OBVIOUS
<1> QED BY <1>1, Zenon

(* The remainder is the only number below w that differs from x by a       *)
(* multiple of w.                                                          *)
LEMMA ModUnique ==
  ASSUME NEW w \in Nat \ {0}, NEW q \in Nat, NEW r \in 0 .. w - 1
  PROVE  ((w * q) + r) % w = r
  OBVIOUS

(* Taking away w does not change the remainder.                            *)
LEMMA ModLess ==
  ASSUME NEW a \in Nat, NEW w \in Nat \ {0}
  PROVE  /\ a % w \in 0 .. w - 1
         /\ a < w => a % w = a
         /\ a >= w => (a - w) % w = a % w
<1>1. a % w \in 0 .. w - 1
  OBVIOUS
<1>2. a < w => a % w = a
  OBVIOUS
<1>3. ASSUME a >= w PROVE (a - w) % w = a % w
  <2>1. a - w \in Nat
    BY <1>3
  <2>2. PICK q \in Nat : \E r \in 0 .. w - 1 : (a - w) % w = r /\ a - w = (w * q) + r
    BY <2>1, Euclid, Zenon
  <2>3. PICK r \in 0 .. w - 1 : (a - w) % w = r /\ a - w = (w * q) + r
    BY <2>2, Zenon
  <2>4. a = (w * (q + 1)) + r /\ q + 1 \in Nat
    BY <2>3
  <2>5. ((w * (q + 1)) + r) % w = r
    BY <2>4, ModUnique, Zenon
  <2> QED BY <2>3, <2>4, <2>5, Zenon
<1> QED BY <1>1, <1>2, <1>3

-----------------------------------------------------------------------------
(* Recursion.                                                              *)

(* Induction up to d, as a set that is closed under adding one: otherwise  *)
(* adding one would map a finite set into itself without reaching 0.       *)
LEMMA UpTo ==
  ASSUME NEW d \in Nat, NEW S, 0 \in S, \A k \in 0 .. d - 1 : k \in S => k + 1 \in S
  PROVE  0 .. d \subseteq S
<1> SUFFICES ASSUME NEW m \in 0 .. d, m \notin S PROVE FALSE
  OBVIOUS
<1> DEFINE T == S \cap (0 .. m)
           f == [k \in T |-> k + 1]
<1>1. IsFiniteSet(T)
  <2>1. IsFiniteSet(0 .. m)
    BY FS_Interval
  <2>2. T \in SUBSET (0 .. m)
    OBVIOUS
  <2> QED BY <2>1, <2>2, FS_Subset, Zenon
<1>2. \A k \in T : k + 1 \in T /\ k \in Nat
  OBVIOUS
<1>3. f \in Injection(T, T)
  <2>1. f \in [T -> T]
    BY <1>2
  <2>2. \A a, b \in DOMAIN f : f[a] = f[b] => a = b
    BY <1>2
  <2> QED BY <2>1, <2>2 DEF Injection, IsInjective
<1>4. f \in Surjection(T, T)
  <2> HIDE DEF f, T
  <2> QED BY <1>1, <1>3, FS_Injection
<1>5. 0 \in T
  OBVIOUS
<1>6. PICK k \in T : f[k] = 0
  BY <1>4, <1>5 DEF Surjection
<1> QED BY <1>2, <1>6

\* u is defined by recursion from 0 to n, with the value first at 0.
Recurs(u, n, first, step) ==
  u = [k \in 0 .. n |-> IF k = 0 THEN first ELSE step[k][u[k - 1]]]

(* A recursion over an interval, each step a function of the value before  *)
(* it, has a solution, and every solution keeps to the values of the steps.*)
LEMMA Recursion ==
  ASSUME NEW n \in Nat, NEW S, NEW first \in S, NEW step \in [1 .. n -> [S -> S]]
  PROVE  \E f \in [0 .. n -> S] :
           Recurs(f, n, first, step) /\ \A u : Recurs(u, n, first, step) => u = f
<1> DEFINE Starts(f, d) == f[0] = first /\ \A k \in 1 .. d : f[k] = step[k][f[k - 1]]
           P == {d \in 0 .. n : \E f \in [0 .. d -> S] : Starts(f, d)}
<1>1. 0 \in P
  <2> DEFINE f == [k \in 0 .. 0 |-> first]
  <2>1. f \in [0 .. 0 -> S] /\ Starts(f, 0) /\ 0 \in 0 .. n
    OBVIOUS
  <2> HIDE DEF f, Starts
  <2> QED BY <2>1
<1>2. ASSUME NEW d \in 0 .. n - 1, d \in P PROVE d + 1 \in P
  <2>1. PICK f \in [0 .. d -> S] : Starts(f, d)
    BY <1>2
  <2> DEFINE t == [k \in 0 .. d + 1 |-> IF k = d + 1 THEN step[d + 1][f[d]] ELSE f[k]]
  <2>2. d + 1 \in 1 .. n /\ f[d] \in S
    OBVIOUS
  <2>3. step[d + 1][f[d]] \in S
    BY <2>2
  <2>4. t \in [0 .. d + 1 -> S]
    BY <2>3
  <2>5. Starts(t, d + 1)
    <3>1. f[0] = first /\ \A k \in 1 .. d : f[k] = step[k][f[k - 1]]
      BY <2>1
    <3>2. t[0] = f[0] /\ t[d + 1] = step[d + 1][t[d]]
      OBVIOUS
    <3>3. \A k \in 1 .. d : t[k] = f[k] /\ t[k - 1] = f[k - 1]
      OBVIOUS
    <3>4. \A k \in 1 .. d + 1 : k \in 1 .. d \/ (k = d + 1 /\ k - 1 = d)
      OBVIOUS
    <3> HIDE DEF t
    <3>5. \A k \in 1 .. d + 1 : t[k] = step[k][t[k - 1]]
      BY <3>1, <3>2, <3>3, <3>4
    <3> QED BY <3>1, <3>2, <3>5
  <2>6. d + 1 \in 0 .. n
    OBVIOUS
  <2> HIDE DEF t, Starts
  <2> QED BY <2>4, <2>5, <2>6
<1>3. n \in P
  <2>1. n \in 0 .. n
    OBVIOUS
  <2> HIDE DEF P
  <2>2. 0 .. n \subseteq P
    BY <1>1, <1>2, UpTo
  <2> QED BY <2>1, <2>2
<1>4. PICK f \in [0 .. n -> S] : Starts(f, n)
  BY <1>3
<1>5. Recurs(f, n, first, step)
  <2>1. \A k \in 0 .. n : f[k] = IF k = 0 THEN first ELSE step[k][f[k - 1]]
    BY <1>4
  <2> QED BY <2>1 DEF Recurs
<1>6. ASSUME NEW u, Recurs(u, n, first, step) PROVE u = f
  <2> DEFINE G == {k \in 0 .. n : u[k] = f[k]}
  <2>1. \A k \in 0 .. n : u[k] = IF k = 0 THEN first ELSE step[k][u[k - 1]]
    BY <1>6, Zenon DEF Recurs
  <2>2. 0 \in G
    BY <1>4, <2>1
  <2>3. ASSUME NEW k \in 0 .. n - 1, k \in G PROVE k + 1 \in G
    <3>1. k + 1 \in 0 .. n /\ k + 1 \in 1 .. n /\ k + 1 # 0 /\ (k + 1) - 1 = k
      OBVIOUS
    <3>2. u[k + 1] = step[k + 1][u[(k + 1) - 1]]
      BY <2>1, <3>1, Zenon
    <3>3. f[k + 1] = step[k + 1][f[(k + 1) - 1]]
      BY <1>4, <3>1, Zenon
    <3>4. u[(k + 1) - 1] = f[(k + 1) - 1]
      BY <2>3, <3>1
    <3> QED BY <3>1, <3>2, <3>3, <3>4
  <2>4. 0 .. n \subseteq G
    <3> HIDE DEF G
    <3> QED BY <2>2, <2>3, UpTo
  <2>5. DOMAIN u = 0 .. n /\ u = [k \in 0 .. n |-> u[k]]
    BY <1>6, <2>1 DEF Recurs
  <2> QED BY <2>4, <2>5
<1> QED BY <1>5, <1>6

\* What the sums of a sequence are.
IsSums(s, seq, len) ==
  /\ s \in [0 .. len -> Nat] /\ s[0] = 0
  /\ \A k \in 1 .. len : s[k] = s[k - 1] + seq[k]

(* The recursion of Sums has a solution, and Sums is one.                   *)
LEMMA SumsDef ==
  ASSUME NEW seq \in Seq(Nat)
  PROVE  IsSums(Sums(seq), seq, Len(seq))
<1> DEFINE n == Len(seq)
           step == [k \in 1 .. n |-> [x \in Nat |-> x + seq[k]]]
           R(u) == u = [k \in 0 .. n |-> IF k = 0 THEN 0 ELSE u[k - 1] + seq[k]]
<1>1. n \in Nat /\ 0 \in Nat /\ \A k \in 1 .. n : seq[k] \in Nat
  OBVIOUS
<1>2. step \in [1 .. n -> [Nat -> Nat]]
  <2>1. \A k \in 1 .. n : \A x \in Nat : x + seq[k] \in Nat
    BY <1>1
  <2> HIDE DEF n
  <2> QED BY <2>1
<1>3. PICK s \in [0 .. n -> Nat] : Recurs(s, n, 0, step)
  <2> HIDE DEF step, n
  <2> QED BY <1>1, <1>2, Recursion
<1>4. \A k \in 1 .. n : s[k - 1] \in Nat /\ step[k][s[k - 1]] = s[k - 1] + seq[k]
  <2>1. \A k \in 1 .. n : k - 1 \in 0 .. n
    BY <1>1
  <2> HIDE DEF n
  <2> QED BY <1>1, <2>1
<1>5. \A k \in 0 .. n : s[k] = IF k = 0 THEN 0 ELSE s[k - 1] + seq[k]
  <2> HIDE DEF step, n
  <2>1. \A k \in 0 .. n : s[k] = IF k = 0 THEN 0 ELSE step[k][s[k - 1]]
    BY <1>3, Zenon DEF Recurs
  <2>2. \A k \in 0 .. n : k # 0 => k \in 1 .. n
    BY <1>1
  <2> QED BY <1>4, <2>1, <2>2, Zenon
<1>6. R(s)
  <2> HIDE DEF step, n
  <2> QED BY <1>3, <1>5
<1>7. R(Sums(seq))
  <2>1. Sums(seq) = CHOOSE u : R(u)
    BY DEF Sums
  <2> QED BY <1>6, <2>1
<1>8. Sums(seq) \in [0 .. n -> Nat]
  <2> DEFINE G == {k \in 0 .. n : Sums(seq)[k] = s[k]}
  <2>1. 0 \in G
    BY <1>1, <1>5, <1>7
  <2>2. ASSUME NEW k \in 0 .. n - 1, k \in G PROVE k + 1 \in G
    <3>1. \A m \in 0 .. n : Sums(seq)[m] = IF m = 0 THEN 0 ELSE Sums(seq)[m - 1] + seq[m]
      BY <1>7, Zenon
    <3>2. k + 1 \in 0 .. n /\ k + 1 \in 1 .. n /\ k + 1 # 0 /\ (k + 1) - 1 = k
      OBVIOUS
    <3>3. Sums(seq)[k + 1] = Sums(seq)[k] + seq[k + 1] /\ s[k + 1] = s[k] + seq[k + 1]
      BY <1>5, <3>1, <3>2
    <3> QED BY <2>2, <3>2, <3>3
  <2>3. 0 .. n \subseteq G
    <3>1. n \in Nat
      OBVIOUS
    <3> HIDE DEF G, n
    <3> QED BY <2>1, <2>2, <3>1, UpTo
  <2> QED BY <1>7, <2>3
<1>9. Sums(seq)[0] = 0 /\ \A k \in 1 .. n : Sums(seq)[k] = Sums(seq)[k - 1] + seq[k]
  <2>1. \A k \in 0 .. n : Sums(seq)[k] = IF k = 0 THEN 0 ELSE Sums(seq)[k - 1] + seq[k]
    BY <1>7, Zenon
  <2>2. 0 \in 0 .. n /\ \A k \in 1 .. n : k \in 0 .. n /\ k # 0
    OBVIOUS
  <2> HIDE DEF n
  <2> QED BY <2>1, <2>2, Zenon
<1> QED BY <1>8, <1>9, Zenon DEF IsSums

(* What is used of Sum and Before.                                         *)
LEMMA BeforeFacts ==
  ASSUME NEW seq \in Seq(Nat)
  PROVE  /\ \A k \in 1 .. Len(seq) + 1 : Before(seq, k) \in Nat
         /\ Before(seq, 1) = 0 /\ Before(seq, Len(seq) + 1) = Sum(seq)
         /\ \A k \in 1 .. Len(seq) : Before(seq, k + 1) = Before(seq, k) + seq[k]
         /\ \A k, m \in 1 .. Len(seq) + 1 : k <= m => Before(seq, k) <= Before(seq, m)
<1>1. IsSums(Sums(seq), seq, Len(seq)) /\ Len(seq) \in Nat
  BY SumsDef
<1>2. /\ \A k \in 1 .. Len(seq) + 1 : Before(seq, k) \in Nat
      /\ Before(seq, 1) = 0 /\ Before(seq, Len(seq) + 1) = Sum(seq)
      /\ \A k \in 1 .. Len(seq) : Before(seq, k + 1) = Before(seq, k) + seq[k]
  <2>1. Sums(seq) \in [0 .. Len(seq) -> Nat] /\ Sums(seq)[0] = 0
    BY <1>1 DEF IsSums
  <2>2. \A k \in 1 .. Len(seq) : Sums(seq)[k] = Sums(seq)[k - 1] + seq[k]
    BY <1>1 DEF IsSums
  <2>3. \A k \in 1 .. Len(seq) + 1 : k - 1 \in 0 .. Len(seq)
    BY <1>1
  <2>4. \A k \in 1 .. Len(seq) : (k + 1) - 1 = k
    OBVIOUS
  <2>5. \A k \in 1 .. Len(seq) + 1 : Before(seq, k) \in Nat
    BY <2>1, <2>3 DEF Before
  <2>6. Before(seq, 1) = 0 /\ Before(seq, Len(seq) + 1) = Sum(seq)
    BY <1>1, <2>1 DEF Before, Sum
  <2>7. \A k \in 1 .. Len(seq) : Before(seq, k + 1) = Before(seq, k) + seq[k]
    BY <2>2, <2>4 DEF Before
  <2> QED BY <2>5, <2>6, <2>7
<1>3. ASSUME NEW k \in 1 .. Len(seq) + 1, NEW m \in 1 .. Len(seq) + 1, k <= m
      PROVE  Before(seq, k) <= Before(seq, m)
  <2> DEFINE far == Len(seq) + 1 - k
             G == {d \in 0 .. far : Before(seq, k) <= Before(seq, k + d)}
  <2>1. 0 \in G
    BY <1>1, <1>2
  <2>2. ASSUME NEW d \in 0 .. far - 1, d \in G PROVE d + 1 \in G
    <3>0. d + 1 \in 0 .. far /\ Before(seq, k) <= Before(seq, k + d)
      BY <2>2
    <3>1. k + d \in 1 .. Len(seq) /\ k + (d + 1) = (k + d) + 1
      BY <1>1
    <3>2. Before(seq, k + (d + 1)) = Before(seq, k + d) + seq[k + d]
      BY <1>2, <3>1
    <3>3. seq[k + d] \in Nat /\ Before(seq, k) \in Nat /\ Before(seq, k + d) \in Nat
      <4>1. k + d \in 1 .. Len(seq) + 1
        BY <3>1
      <4>2. seq[k + d] \in Nat
        BY <3>1
      <4> QED BY <1>2, <4>1, <4>2
    <3>4. Before(seq, k) <= Before(seq, k + (d + 1))
      BY <3>0, <3>2, <3>3
    <3> HIDE DEF far
    <3> QED BY <3>0, <3>4
  <2>3. m - k \in 0 .. far /\ far \in Nat /\ k + (m - k) = m
    BY <1>1, <1>3
  <2>4. 0 .. far \subseteq G
    <3> HIDE DEF far, G
    <3> QED BY <2>1, <2>2, <2>3, UpTo
  <2> QED BY <2>3, <2>4
<1> QED BY <1>2, <1>3

(* One more element leaves the sums of the others as they are.             *)
LEMMA AppendSums ==
  ASSUME NEW seq \in Seq(Nat), NEW x \in Nat
  PROVE  \A k \in 1 .. Len(seq) + 1 : Before(Append(seq, x), k) = Before(seq, k)
<1> DEFINE more == Append(seq, x)
           n == Len(seq)
           G == {k \in 0 .. n : Before(more, k + 1) = Before(seq, k + 1)}
<1>1. /\ more \in Seq(Nat) /\ n \in Nat /\ Len(more) = n + 1
      /\ \A k \in 1 .. n : more[k] = seq[k]
  OBVIOUS
<1> HIDE DEF more
<1>2. /\ Before(more, 1) = 0 /\ Before(seq, 1) = 0
      /\ \A k \in 1 .. n + 1 : Before(more, k + 1) = Before(more, k) + more[k]
      /\ \A k \in 1 .. n : Before(seq, k + 1) = Before(seq, k) + seq[k]
  BY <1>1, BeforeFacts
<1>3. 0 \in G
  BY <1>1, <1>2
<1>4. ASSUME NEW k \in 0 .. n - 1, k \in G PROVE k + 1 \in G
  <2>1. k + 1 \in 1 .. n /\ k + 1 \in 1 .. n + 1 /\ k + 1 \in 0 .. n
    BY <1>1
  <2>2. Before(more, (k + 1) + 1) = Before(more, k + 1) + more[k + 1]
        /\ Before(seq, (k + 1) + 1) = Before(seq, k + 1) + seq[k + 1]
        /\ more[k + 1] = seq[k + 1]
    BY <1>1, <1>2, <2>1
  <2> QED BY <1>4, <2>1, <2>2
<1>5. 0 .. n \subseteq G
  <2> HIDE DEF G, n
  <2> QED BY <1>1, <1>3, <1>4, UpTo
<1>6. ASSUME NEW k \in 1 .. n + 1 PROVE Before(more, k) = Before(seq, k)
  <2>1. k - 1 \in 0 .. n /\ (k - 1) + 1 = k
    BY <1>1
  <2>2. k - 1 \in G
    <3> HIDE DEF G, n
    <3> QED BY <1>5, <2>1
  <2> QED BY <2>1, <2>2
<1> QED BY <1>6 DEF more
=============================================================================
