------------------------------ MODULE Induction ------------------------------
(***************************************************************************)
(* Induction over the natural numbers.  The induction theorems of the      *)
(* library have an operator as a parameter; these have a set, and follow   *)
(* from the strict order of finite sets being well-founded.                *)
(***************************************************************************)
EXTENDS FiniteSetTheorems, TLAPS

\* A nonempty set of natural numbers has a least element.
LEMMA Least ==
  ASSUME NEW T \in SUBSET Nat, T # {}
  PROVE  \E n \in T : \A m \in T : n <= m
<1> DEFINE R == StrictSubsetOrdering(Nat)
           U == {0..n : n \in T}
<1>1. IsWellFoundedOn(R, FiniteSubsetsOf(Nat))
  BY FS_StrictSubsetOrderingWellFounded
<1>2. U \subseteq FiniteSubsetsOf(Nat)
  <2>1. ASSUME NEW n \in T PROVE 0..n \in FiniteSubsetsOf(Nat)
    <3>1. 0..n \in SUBSET Nat
      OBVIOUS
    <3>2. IsFiniteSet(0..n)
      BY FS_Interval
    <3> QED BY <3>1, <3>2 DEF FiniteSubsetsOf
  <2> HIDE DEF R
  <2> QED BY <2>1
<1>3. U # {}
  OBVIOUS
<1>4. \E x \in U : \A y \in U : <<y, x>> \notin R
  <2> HIDE DEF R, U
  <2> QED BY <1>1, <1>2, <1>3, WFMin
<1>5. PICK n \in T : \A m \in T : <<0..m, 0..n>> \notin R
  BY <1>4
<1>6. ASSUME NEW m \in T, m < n PROVE FALSE
  <2>1. 0..m \subseteq 0..n /\ n \in 0..n /\ n \notin 0..m
    BY <1>6
  <2>2. 0..m \in SUBSET Nat /\ 0..n \in SUBSET Nat
    OBVIOUS
  <2>3. <<0..m, 0..n>> \in R
    BY <2>1, <2>2 DEF StrictSubsetOrdering
  <2> QED BY <1>5, <2>3
<1> QED BY <1>6

\* Induction over a set of numbers.
LEMMA UpTo ==
  ASSUME NEW N \in Nat, NEW G,
         0 \in G, \A n \in 1..N : n - 1 \in G => n \in G
  PROVE  \A n \in 0..N : n \in G
<1> DEFINE T == {n \in 0..N : n \notin G}
<1> SUFFICES T = {}
  OBVIOUS
<1>1. T \in SUBSET Nat
  OBVIOUS
<1>2. CASE T # {}
  <2>1. PICK n \in T : \A m \in T : n <= m
    BY <1>1, <1>2, Least
  <2>2. n \in 1..N /\ n - 1 \in 0..N
    BY <2>1
  <2>3. n - 1 \notin T
    BY <2>1, <2>2
  <2>4. n - 1 \in G
    BY <2>2, <2>3
  <2> QED BY <2>1, <2>2, <2>4
<1> QED BY <1>2

\* Recursion up to N: a step of X for each number takes a start to its iterates.
StepsWithin(X, N) == [X \X (1..N) -> X]
Iterates(N, X, start, g) ==
  {f \in [0..N -> X] : f[0] = start /\ \A n \in 1..N : f[n] = g[<<f[n - 1], n>>]}

\* A recursive function has values.
LEMMA Recursion ==
  ASSUME NEW N \in Nat, NEW X, NEW start \in X, NEW g \in StepsWithin(X, N)
  PROVE  \E f : f \in Iterates(N, X, start, g)
<1> USE DEF StepsWithin
<1> DEFINE Good(f, n) == f[0] = start /\ \A i \in 1..n : f[i] = g[<<f[i - 1], i>>]
           G == {n \in 0..N : \E f \in [0..n -> X] : Good(f, n)}
<1>1. 0 \in G
  <2> DEFINE f == [i \in 0..0 |-> start]
  <2>1. f \in [0..0 -> X] /\ f[0] = start
    OBVIOUS
  <2>2. 1..0 = {}
    OBVIOUS
  <2>3. Good(f, 0)
    BY <2>1, <2>2
  <2> HIDE DEF f
  <2> QED BY <2>1, <2>3
<1>2. ASSUME NEW n \in 1..N, n - 1 \in G PROVE n \in G
  <2>1. PICK f \in [0..(n - 1) -> X] : Good(f, n - 1)
    BY <1>2
  <2> DEFINE h == [i \in 0..n |-> IF i < n THEN f[i] ELSE g[<<f[n - 1], n>>]]
  <2>2. f[n - 1] \in X /\ g[<<f[n - 1], n>>] \in X
    <3>1. n - 1 \in 0..(n - 1)
      OBVIOUS
    <3>2. f[n - 1] \in X
      BY <2>1, <3>1
    <3> QED BY <3>2
  <2>3. h \in [0..n -> X]
    BY <2>2
  <2>4. \A i \in 0..(n - 1) : h[i] = f[i]
    OBVIOUS
  <2>5. h[n] = g[<<f[n - 1], n>>]
    OBVIOUS
  <2> HIDE DEF h
  <2>6. h[0] = start
    BY <2>1, <2>4
  <2>7. ASSUME NEW i \in 1..n PROVE h[i] = g[<<h[i - 1], i>>]
    <3>1. CASE i < n
      <4>1. i \in 1..(n - 1) /\ h[i] = f[i] /\ h[i - 1] = f[i - 1]
        BY <3>1, <2>4
      <4>2. f[i] = g[<<f[i - 1], i>>]
        BY <2>1, <4>1
      <4> QED BY <4>1, <4>2
    <3>2. CASE i = n
      <4>1. h[i - 1] = f[n - 1]
        BY <3>2, <2>4
      <4> QED BY <3>2, <2>5, <4>1
    <3> QED BY <3>1, <3>2
  <2>8. Good(h, n)
    BY <2>6, <2>7
  <2> QED BY <2>3, <2>8
<1>3. N \in G
  <2> HIDE DEF G
  <2>1. \A n \in 0..N : n \in G
    BY <1>1, <1>2, UpTo
  <2> QED BY <2>1
<1> QED BY <1>3 DEF Iterates
=============================================================================
