------------------------------- MODULE Induction -------------------------------
(***************************************************************************)
(* Induction on natural numbers, stated of sets and of functions so that   *)
(* every prover can use it: what the proofs about algorithms that go       *)
(* through a list rest on.                                                 *)
(***************************************************************************)
EXTENDS Integers, FiniteSetsExt, WellFoundedInduction, TLAPS

\* A set of natural numbers that is not empty has a least one, and Min is it.
LEMMA LeastNumber ==
  ASSUME NEW S \in SUBSET Nat, S # {}
  PROVE  Min(S) \in S /\ \A n \in S : Min(S) <= n
  <1> DEFINE Less == OpToRel(<, Nat)
  <1>1. \A m, n \in Nat : <<n, m>> \in Less <=> n < m
    BY DEF OpToRel
  <1>2. IsWellFoundedOn(Less, Nat)
    BY NatLessThanWellFounded
  <1> HIDE DEF Less
  <1>3. PICK m \in S : \A n \in S : ~(<<n, m>> \in Less)
    BY <1>2, WFMin
  <1>4. \A n \in S : ~(n < m)
    BY <1>1, <1>3, Zenon
  <1>5. \A n \in S : m <= n
    BY <1>4
  <1> QED
    BY <1>5 DEF Min

\* A maximum is told by its two properties.
LEMMA MaxIs ==
  ASSUME NEW S, S \subseteq Int, NEW m \in S, \A n \in S : m >= n
  PROVE  Max(S) = m
  <1> DEFINE IsMax(n) == n \in S /\ \A k \in S : n >= k
  <1>1. IsMax(m)
    OBVIOUS
  <1>2. \A n : IsMax(n) => n = m
    OBVIOUS
  <1>3. Max(S) = CHOOSE n : IsMax(n)
    BY DEF Max
  <1> HIDE DEF IsMax
  <1> QED
    BY <1>1, <1>2, <1>3

\* What holds of b and passes from every number to the next holds up to n.
LEMMA StepByStep ==
  ASSUME NEW b \in Nat, NEW n \in Nat, NEW S,
         b \in S, \A i \in b .. n : i # b /\ i - 1 \in S => i \in S
  PROVE  \A i \in b .. n : i \in S
  <1> DEFINE Bad == {i \in b .. n : i \notin S}
             m == Min(Bad)
  <1>1. SUFFICES ASSUME Bad # {} PROVE FALSE
    OBVIOUS
  <1>2. m \in Bad /\ \A i \in Bad : m <= i
    BY <1>1, LeastNumber
  <1> HIDE DEF m
  <1>3. m \in b .. n /\ m # b /\ m \notin S
    BY <1>2
  <1>4. m - 1 \in b .. n /\ m - 1 \notin Bad
    BY <1>2, <1>3
  <1> QED
    BY <1>3, <1>4

\* f begins with a at b, and every other value of it, up to the n-th, is made by
\* step of the one before it and of its place.
Recurs(f, b, n, a, step) ==
    f[b] = a /\ \A i \in b .. n : i # b => f[i] = step[<<f[i - 1], i>>]

\* There is such a function.
LEMMA RecursionExists ==
  ASSUME NEW b \in Nat, NEW n \in Nat, b <= n,
         NEW A, NEW a \in A, NEW step \in [A \X (b .. n) -> A]
  PROVE  \E f \in [b .. n -> A] : Recurs(f, b, n, a, step)
  <1> USE DEF Recurs
  <1> DEFINE S == {m \in b .. n : \E f \in [b .. m -> A] : Recurs(f, b, m, a, step)}
  <1>1. b \in S
    <2> DEFINE f == [i \in b .. b |-> a]
    <2>1. f \in [b .. b -> A] /\ f[b] = a
      OBVIOUS
    <2> HIDE DEF f
    <2>2. Recurs(f, b, b, a, step)
      BY <2>1
    <2> QED
      BY <2>1, <2>2
  <1>2. ASSUME NEW m \in b .. n, m # b, m - 1 \in S PROVE m \in S
    <2>1. PICK f \in [b .. m - 1 -> A] : Recurs(f, b, m - 1, a, step)
      BY <1>2
    <2> DEFINE g == [i \in b .. m |-> IF i = m THEN step[<<f[m - 1], m>>] ELSE f[i]]
    <2>2. m - 1 \in b .. m - 1 /\ f[m - 1] \in A /\ step[<<f[m - 1], m>>] \in A
      BY <1>2
    <2>3. g \in [b .. m -> A]
      BY <1>2, <2>2
    <2>4. \A i \in b .. m - 1 : g[i] = f[i]
      BY <1>2
    <2>5. g[b] = a /\ g[m] = step[<<f[m - 1], m>>]
      BY <1>2, <2>1, <2>4
    <2> HIDE DEF g
    <2>6. ASSUME NEW i \in b .. m, i # b PROVE g[i] = step[<<g[i - 1], i>>]
      <3>1. CASE i = m
        <4>1. g[m - 1] = f[m - 1]
          BY <1>2, <2>4
        <4> QED
          BY <2>5, <3>1, <4>1
      <3>2. CASE i # m
        <4>1. i \in b .. m - 1 /\ i - 1 \in b .. m - 1
          BY <1>2, <2>6, <3>2
        <4>2. g[i] = f[i] /\ g[i - 1] = f[i - 1] /\ f[i] = step[<<f[i - 1], i>>]
          BY <2>1, <2>4, <2>6, <4>1
        <4> QED
          BY <4>2
      <3> QED
        BY <3>1, <3>2
    <2> QED
      BY <2>3, <2>5, <2>6
  <1> HIDE DEF S
  <1>3. n \in S
    BY <1>1, <1>2, StepByStep
  <1> QED
    BY <1>3 DEF S

-----------------------------------------------------------------------------
\* f says what every set of places yields: a for none, else step of what all but
\* the last of them yield and of the last one.
Folds(f, n, a, step) ==
    f = [s \in SUBSET (1 .. n) |->
            IF s = {} THEN a ELSE step[<<f[s \ {Max(s)}], Max(s)>>]]

\* There is such a function, which is what the folds of sequences come down to.
LEMMA FoldExists ==
  ASSUME NEW n \in Nat, NEW A, NEW a \in A, NEW step \in [A \X (1 .. n) -> A]
  PROVE  \E f \in [SUBSET (1 .. n) -> A] : Folds(f, n, a, step)
  <1> DEFINE S == {m \in 0 .. n : \E f \in [SUBSET (1 .. m) -> A] : Folds(f, m, a, step)}
  <1>1. 0 \in S
    <2> DEFINE f == [s \in SUBSET (1 .. 0) |-> a]
    <2>1. f \in [SUBSET (1 .. 0) -> A]
      OBVIOUS
    <2>2. SUBSET (1 .. 0) = {{}}
      OBVIOUS
    <2>3. Folds(f, 0, a, step)
      BY <2>2 DEF Folds
    <2> QED
      BY <2>1, <2>3
  <1>2. ASSUME NEW m \in 0 .. n, m # 0, m - 1 \in S PROVE m \in S
    <2>1. PICK f \in [SUBSET (1 .. m - 1) -> A] : Folds(f, m - 1, a, step)
      BY <1>2
    <2> DEFINE g == [s \in SUBSET (1 .. m) |->
                        IF m \in s THEN step[<<f[s \ {m}], m>>] ELSE f[s]]
    <2>2. \A s \in SUBSET (1 .. m) : /\ s \ {m} \in SUBSET (1 .. m - 1)
                                     /\ m \notin s => s \in SUBSET (1 .. m - 1)
      BY <1>2
    <2>3. \A s \in SUBSET (1 .. m) : f[s \ {m}] \in A /\ (m \notin s => f[s] \in A)
      BY <2>1, <2>2
    <2>4. g \in [SUBSET (1 .. m) -> A]
      <3>1. m \in 1 .. n
        BY <1>2
      <3> QED
        BY <2>3, <3>1
    <2>5. /\ \A s \in SUBSET (1 .. m - 1) : g[s] = f[s]
          /\ \A s \in SUBSET (1 .. m) :
                g[s] = IF m \in s THEN step[<<f[s \ {m}], m>>] ELSE f[s]
      BY <1>2
    <2> HIDE DEF g
    <2>6. ASSUME NEW s \in SUBSET (1 .. m)
          PROVE  g[s] = IF s = {} THEN a ELSE step[<<g[s \ {Max(s)}], Max(s)>>]
      <3>1. CASE m \in s
        <4>1. Max(s) = m
          <5>1. s \subseteq Int /\ \A k \in s : m >= k
            BY <1>2
          <5> QED
            BY <3>1, <5>1, MaxIs
        <4>2. g[s \ {m}] = f[s \ {m}]
          BY <2>2, <2>5
        <4> QED
          BY <2>5, <3>1, <4>1, <4>2
      <3>2. CASE m \notin s
        <4>1. s \in SUBSET (1 .. m - 1) /\ g[s] = f[s]
          BY <2>2, <2>5, <3>2
        <4>2. s \ {Max(s)} \in SUBSET (1 .. m - 1)
          BY <4>1
        <4>3. g[s \ {Max(s)}] = f[s \ {Max(s)}]
          BY <2>5, <4>2
        <4>4. f[s] = IF s = {} THEN a ELSE step[<<f[s \ {Max(s)}], Max(s)>>]
          BY <2>1, <4>1 DEF Folds
        <4> QED
          BY <4>1, <4>3, <4>4
      <3> QED
        BY <3>1, <3>2
    <2>7. Folds(g, m, a, step)
      BY <2>4, <2>6 DEF Folds
    <2> QED
      BY <2>4, <2>7
  <1> HIDE DEF S
  <1>3. n \in S
    BY <1>1, <1>2, StepByStep
  <1> QED
    BY <1>3 DEF S


\* A set of places that is not empty has a last one, and Max is it.
LEMMA LastPlace ==
  ASSUME NEW n \in Nat, NEW s \in SUBSET (1 .. n), s # {}
  PROVE  Max(s) \in s /\ \A i \in s : Max(s) >= i
  <1> DEFINE Rest == {n - i : i \in s}
             least == Min(Rest)
           m == n - least
  <1>1. Rest \in SUBSET Nat /\ Rest # {}
    <2>1. \A i \in s : n - i \in Nat
      OBVIOUS
    <2> QED
      BY <2>1
  <1>2. least \in Rest /\ \A r \in Rest : least <= r
    BY <1>1, LeastNumber
  <1> HIDE DEF least
  <1>3. PICK i \in s : least = n - i
    BY <1>2
  <1>4. m = i
    BY <1>3
  <1>5. \A j \in s : m >= j
    <2> TAKE j \in s
    <2>1. n - j \in Rest
      OBVIOUS
    <2>2. n - i <= n - j
      BY <1>2, <1>3, <2>1
    <2> QED
      BY <1>4, <2>2
  <1>6. s \subseteq Int
    OBVIOUS
  <1>7. m \in s
    BY <1>4
  <1> HIDE DEF m
  <1>8. Max(s) = m
    BY <1>5, <1>6, <1>7, MaxIs
  <1> QED
    BY <1>5, <1>7, <1>8

\* The first k places without the last of them.
LEMMA FirstPlaces ==
  ASSUME NEW k \in Nat, k # 0
  PROVE  1 .. k # {} /\ Max(1 .. k) = k /\ (1 .. k) \ {k} = 1 .. k - 1
  <1>1. 1 .. k \subseteq Int /\ k \in 1 .. k /\ \A i \in 1 .. k : k >= i
    OBVIOUS
  <1>2. Max(1 .. k) = k
    BY <1>1, MaxIs
  <1>3. (1 .. k) \ {k} = 1 .. k - 1
    OBVIOUS
  <1> QED
    BY <1>1, <1>2, <1>3
=============================================================================
