-------------------------- MODULE ConversionsProofs --------------------------
(***************************************************************************)
(* What fractional hashes follows what values say: the encoding of a value *)
(* is canonical, conversions to an openfeature::Value and back keep what a *)
(* value says, and so two contexts share a bucket just if what tells users *)
(* apart is the same; whatever the values, and however deep they nest.     *)
(*                                                                         *)
(* Facts about all values are proved by induction on Nesting, which the    *)
(* parts of a value have less of than the value.                           *)
(***************************************************************************)
EXTENDS Conversions, JsonLogicProofs

-----------------------------------------------------------------------------
(* Lists put one after the other                                           *)

\* A list of elements of S.
LEMMA ListIn ==
  ASSUME NEW s, IsList(s), NEW S, Range(s) \subseteq S
  PROVE  s \in Seq(S)
  <1>1. Len(s) \in Nat /\ s \in [1 .. Len(s) -> Range(s)]
    BY LenProperties DEF IsList
  <1>2. s \in [1 .. Len(s) -> S]
    BY <1>1
  <1> QED
    BY <1>1, <1>2, SeqDef

\* A sequence of any elements is a list.
LEMMA InIsList ==
  ASSUME NEW S, NEW s \in Seq(S)
  PROVE  IsList(s)
  <1>1. Len(s) \in Nat /\ s \in [1 .. Len(s) -> S]
    BY LenProperties
  <1>2. s = [i \in 1 .. Len(s) |-> s[i]]
    BY <1>1
  <1> QED
    BY <1>1, <1>2, ListIs

\* One list after another.
Joined(s, t) == s \o t

\* How long two lists joined are, and what joining nothing is.
LEMMA JoinIs ==
  ASSUME NEW s, IsList(s), NEW t, IsList(t)
  PROVE  /\ IsList(Joined(s, t)) /\ Len(Joined(s, t)) = Len(s) + Len(t)
         /\ Joined(s, <<>>) = s /\ Joined(<<>>, s) = s
  <1> DEFINE S == Range(s) \cup Range(t)
  <1>1. s \in Seq(S) /\ t \in Seq(S)
    BY ListIn
  <1> HIDE DEF S
  <1>2. Joined(s, t) \in Seq(S) /\ Len(Joined(s, t)) = Len(s) + Len(t)
    BY <1>1, ConcatProperties DEF Joined
  <1>3. Joined(s, <<>>) = s /\ Joined(<<>>, s) = s
    BY <1>1, ConcatEmptySeq DEF Joined
  <1> QED
    BY <1>2, <1>3, InIsList

\* It does not matter which of three lists are joined first.
LEMMA JoinAssociates ==
  ASSUME NEW s, IsList(s), NEW t, IsList(t), NEW u, IsList(u)
  PROVE  Joined(Joined(s, t), u) = Joined(s, Joined(t, u))
  <1> DEFINE S == Range(s) \cup Range(t) \cup Range(u)
  <1>1. s \in Seq(S) /\ t \in Seq(S) /\ u \in Seq(S)
    BY ListIn
  <1> HIDE DEF S
  <1> QED
    BY <1>1, ConcatAssociative DEF Joined

\* So do four.
LEMMA JoinRegroups ==
  ASSUME NEW s, IsList(s), NEW t, IsList(t), NEW u, IsList(u), NEW v, IsList(v)
  PROVE  Joined(Joined(Joined(s, t), u), v) = Joined(s, Joined(t, Joined(u, v)))
  <1>1. IsList(Joined(s, t)) /\ IsList(Joined(u, v))
    BY JoinIs
  <1>2. Joined(Joined(Joined(s, t), u), v) = Joined(Joined(s, t), Joined(u, v))
    BY <1>1, JoinAssociates
  <1>3. Joined(Joined(s, t), Joined(u, v)) = Joined(s, Joined(t, Joined(u, v)))
    BY <1>1, JoinAssociates
  <1> QED
    BY <1>2, <1>3, Zenon

\* What follows the same is the same.
LEMMA JoinCancels ==
  ASSUME NEW s, IsList(s), NEW t, IsList(t), NEW u, IsList(u), Joined(s, t) = Joined(s, u)
  PROVE  t = u
  <1> DEFINE S == Range(s) \cup Range(t) \cup Range(u)
  <1>1. s \in Seq(S) /\ t \in Seq(S) /\ u \in Seq(S)
    BY ListIn
  <1> HIDE DEF S
  <1> QED
    BY <1>1, ConcatSimplifications DEF Joined

\* Lists that begin with one element each are the same if those are and the rests.
LEMMA HeadCancels ==
  ASSUME NEW a, NEW b, NEW s, IsList(s), NEW t, IsList(t), Joined(<<a>>, s) = Joined(<<b>>, t)
  PROVE  a = b /\ s = t
  <1> DEFINE S == {a, b} \cup Range(s) \cup Range(t)
  <1>1. s \in Seq(S) /\ t \in Seq(S)
    BY ListIn
  <1>2. <<a>> \in Seq(S) /\ <<b>> \in Seq(S)
    OBVIOUS
  <1> HIDE DEF S
  <1>3. Len(<<a>>) = 1 /\ Len(<<b>>) = 1 /\ <<a>>[1] = a /\ <<b>>[1] = b
    OBVIOUS
  <1>4. Len(s) \in Nat /\ Len(t) \in Nat
    BY <1>1
  <1>5. Joined(<<a>>, s)[1] = a
    <2>1. 1 \in 1 .. Len(<<a>>) + Len(s) /\ 1 <= Len(<<a>>)
      BY <1>3, <1>4
    <2> QED
      BY <1>1, <1>2, <1>3, <2>1, ConcatProperties DEF Joined
  <1>6. Joined(<<b>>, t)[1] = b
    <2>1. 1 \in 1 .. Len(<<b>>) + Len(t) /\ 1 <= Len(<<b>>)
      BY <1>3, <1>4
    <2> QED
      BY <1>1, <1>2, <1>3, <2>1, ConcatProperties DEF Joined
  <1>7. a = b
    BY <1>5, <1>6
  <1>8. IsList(<<a>>)
    BY OneIsList
  <1>9. s = t
    BY <1>7, <1>8, JoinCancels
  <1> QED
    BY <1>7, <1>9

\* The elements of a list of lists, one list after the other.
Flattens(f, seqs) ==
    /\ f[0] = <<>>
    /\ \A i \in 1 .. Len(seqs) : f[i] = Joined(f[i - 1], seqs[i])
    /\ \A i \in 0 .. Len(seqs) : IsList(f[i])

\* Lists are flattened by joining one after the other.
LEMMA FlattenIs ==
  ASSUME NEW seqs, IsList(seqs), \A i \in 1 .. Len(seqs) : IsList(seqs[i])
  PROVE  \E f : Flattens(f, seqs) /\ FlattenSeq(seqs) = f[Len(seqs)]
  <1> DEFINE n == Len(seqs)
             A == Seq(UNION {Range(seqs[i]) : i \in 1 .. n})
             Longer(p) == IF p[2] = 0 THEN p[1] ELSE Joined(p[1], seqs[p[2]])
             step == [p \in A \X (0 .. n) |-> Longer(p)]
  <1>1. n \in Nat /\ (seqs = <<>> <=> n = 0)
    BY ListHas
  <1>2. \A i \in 1 .. n : seqs[i] \in A
    <2> TAKE i \in 1 .. n
    <2>1. Range(seqs[i]) \subseteq UNION {Range(seqs[j]) : j \in 1 .. n}
      OBVIOUS
    <2> QED
      BY <2>1, ListIn
  <1>3. <<>> \in A /\ (\A x, y \in A : Joined(x, y) \in A) /\ (\A x \in A : IsList(x))
    BY InIsList DEF Joined
  <1>4. \A x \in A : Joined(<<>>, x) = x
    BY DEF Joined
  <1> HIDE DEF A, n
  <1>5. \A p \in A \X (0 .. n) : Longer(p) \in A
    <2> TAKE p \in A \X (0 .. n)
    <2>1. p[1] \in A /\ p[2] \in 0 .. n /\ (p[2] # 0 => p[2] \in 1 .. n)
      BY <1>1
    <2> QED
      BY <1>2, <1>3, <2>1
  <1>6. step \in [A \X (0 .. n) -> A]
    BY <1>5
  <1>7. PICK f \in [0 .. n -> A] : Recurs(f, 0, n, <<>>, step)
    <2>1. 0 <= n /\ 0 \in Nat
      BY <1>1
    <2> HIDE DEF step
    <2> QED
      BY <1>1, <1>3, <1>6, <2>1, RecursionExists
  <1>8. f[0] = <<>> /\ \A i \in 1 .. n : f[i] = Joined(f[i - 1], seqs[i])
    <2>1. f[0] = <<>>
      BY <1>7 DEF Recurs
    <2>2. ASSUME NEW i \in 1 .. n PROVE f[i] = Joined(f[i - 1], seqs[i])
      <3>1. i \in 0 .. n /\ i # 0 /\ i - 1 \in 0 .. n
        BY <1>1
      <3>2. f[i] = step[<<f[i - 1], i>>]
        BY <1>7, <3>1 DEF Recurs
      <3>3. <<f[i - 1], i>> \in A \X (0 .. n)
        BY <1>7, <3>1
      <3>4. f[i] = Longer(<<f[i - 1], i>>)
        BY <3>2, <3>3
      <3> QED
        BY <3>1, <3>4
    <2> QED
      BY <2>1, <2>2
  <1>9. \A i \in 0 .. n : IsList(f[i])
    BY <1>3, <1>7
  <1>10. FlattenSeq(seqs) = f[n]
    <2>1. CASE n = 0
      BY <1>1, <1>8, <2>1 DEF FlattenSeq, n
    <2>2. CASE n # 0
      <3> DEFINE Next(g, i) == IF i = 1 THEN seqs[i] ELSE Joined(g[i - 1], seqs[i])
                 IsFlat(g) == g = [i \in 1 .. n |-> Next(g, i)]
                 flat == CHOOSE g : IsFlat(g)
                 h == [i \in 1 .. n |-> f[i]]
      <3>1. FlattenSeq(seqs) = flat[n]
        BY <2>2 DEF FlattenSeq, n, Joined
      <3>2. f[1] = seqs[1]
        <4>1. 1 \in 1 .. n /\ 1 - 1 = 0
          BY <1>1, <2>2
        <4>2. seqs[1] \in A
          BY <1>2, <4>1
        <4>3. f[1] = Joined(f[1 - 1], seqs[1])
          BY <1>8, <4>1, Zenon
        <4>4. f[1] = Joined(<<>>, seqs[1])
          BY <1>8, <4>1, <4>3, Zenon
        <4> QED
          BY <1>4, <4>2, <4>4, Zenon
      <3>3. ASSUME NEW i \in 1 .. n PROVE h[i] = Next(h, i)
        <4>1. CASE i = 1
          BY <3>2, <4>1
        <4>2. CASE i # 1
          <5>1. i - 1 \in 1 .. n
            BY <1>1, <4>2
          <5>2. f[i] = Joined(f[i - 1], seqs[i])
            BY <1>8
          <5> QED
            BY <4>2, <5>1, <5>2
        <4> QED
          BY <4>1, <4>2
      <3>4. h = [i \in 1 .. n |-> h[i]]
        OBVIOUS
      <3> HIDE DEF h
      <3>5. IsFlat(h)
        BY <3>3, <3>4
      <3>6. IsFlat(flat)
        BY <3>5
      <3> HIDE DEF flat
      <3>7. \A i \in 1 .. n : flat[i] = Next(flat, i)
        BY <3>6
      <3> DEFINE S == {i \in 1 .. n : flat[i] = f[i]}
      <3>8. 1 \in S
        BY <1>1, <2>2, <3>2, <3>7
      <3>9. ASSUME NEW i \in 1 .. n, i # 1, i - 1 \in S PROVE i \in S
        BY <1>8, <3>7, <3>9
      <3> HIDE DEF S
      <3>10. \A i \in 1 .. n : i \in S
        BY <1>1, <3>8, <3>9, StepByStep
      <3>11. n \in S
        BY <1>1, <2>2, <3>10
      <3> QED
        BY <3>1, <3>11 DEF S
    <2> QED
      BY <2>1, <2>2
  <1>11. Flattens(f, seqs)
    BY <1>8, <1>9 DEF Flattens, n
  <1> QED
    BY <1>10, <1>11 DEF n

\* What comes of it is a list.
LEMMA FlattenIsList ==
  ASSUME NEW seqs, IsList(seqs), \A i \in 1 .. Len(seqs) : IsList(seqs[i])
  PROVE  IsList(FlattenSeq(seqs))
  <1>1. PICK f : Flattens(f, seqs) /\ FlattenSeq(seqs) = f[Len(seqs)]
    BY FlattenIs
  <1>2. Len(seqs) \in 0 .. Len(seqs)
    BY ListHas
  <1> QED
    BY <1>1, <1>2 DEF Flattens

\* What is flattened up to a place, and the rest.
LEMMA FlattenRest ==
  ASSUME NEW seqs, IsList(seqs), \A i \in 1 .. Len(seqs) : IsList(seqs[i]),
         NEW f, Flattens(f, seqs), NEW k \in 0 .. Len(seqs)
  PROVE  \E r : IsList(r) /\ f[Len(seqs)] = Joined(f[k], r)
  <1> DEFINE n == Len(seqs)
             S == {m \in k .. n : \E r : IsList(r) /\ f[m] = Joined(f[k], r)}
  <1>1. n \in Nat /\ k \in Nat /\ IsList(f[k])
    BY ListHas DEF Flattens
  <1>2. k \in S
    <2>1. IsList(<<>>) /\ Joined(f[k], <<>>) = f[k]
      <3>1. IsList(<<>>)
        BY EmptySeq, InIsList
      <3> QED
        BY <1>1, <3>1, JoinIs
    <2>2. k \in k .. n
      BY <1>1
    <2>3. \E r : IsList(r) /\ f[k] = Joined(f[k], r)
      BY <2>1, Zenon
    <2> QED
      BY <2>2, <2>3, Zenon
  <1>3. ASSUME NEW m \in k .. n, m # k, m - 1 \in S PROVE m \in S
    <2>1. PICK r : IsList(r) /\ f[m - 1] = Joined(f[k], r)
      BY <1>3
    <2>2. m \in 1 .. n
      BY <1>1, <1>3
    <2>3. f[m] = Joined(Joined(f[k], r), seqs[m]) /\ IsList(seqs[m])
      BY <2>1, <2>2 DEF Flattens
    <2>4. f[m] = Joined(f[k], Joined(r, seqs[m]))
      BY <1>1, <2>1, <2>3, JoinAssociates
    <2>5. IsList(Joined(r, seqs[m]))
      BY <2>1, <2>3, JoinIs
    <2> QED
      BY <2>4, <2>5
  <1> HIDE DEF S
  <1>4. \A m \in k .. n : m \in S
    <2> HIDE DEF n
    <2> QED
    BY <1>1, <1>2, <1>3, StepByStep
  <1>5. n \in S
    BY <1>1, <1>4
  <1> QED
    BY <1>5 DEF S

\* Whether s cannot be told from t by what follows them unless they are the same.
Separate(s, t) ==
    \A more, other : IsList(more) /\ IsList(other) /\ Joined(s, more) = Joined(t, other) => s = t

\* What such lists are flattened to tells them all.
LEMMA FlattenCancels ==
  ASSUME NEW p, IsList(p), \A i \in 1 .. Len(p) : IsList(p[i]),
         NEW q, IsList(q), \A i \in 1 .. Len(q) : IsList(q[i]),
         Len(p) = Len(q), \A i \in 1 .. Len(p) : Separate(p[i], q[i]),
         NEW s, IsList(s), NEW t, IsList(t),
         Joined(FlattenSeq(p), s) = Joined(FlattenSeq(q), t)
  PROVE  p = q
  <1> DEFINE n == Len(p)
  <1>1. n \in Nat
    BY ListHas
  <1>2. PICK f : Flattens(f, p) /\ FlattenSeq(p) = f[n]
    BY FlattenIs
  <1>3. PICK g : Flattens(g, q) /\ FlattenSeq(q) = g[n]
    BY FlattenIs
  <1> DEFINE S == {m \in 0 .. n : f[m] = g[m] /\ \A i \in 1 .. m : p[i] = q[i]}
  <1>4. 0 \in S
    BY <1>1, <1>2, <1>3 DEF Flattens
  <1>5. ASSUME NEW m \in 0 .. n, m # 0, m - 1 \in S PROVE m \in S
    <2>1. m \in 1 .. n /\ m - 1 \in 0 .. n
      BY <1>1, <1>5
    <2>2. /\ IsList(f[m - 1]) /\ IsList(f[m]) /\ IsList(p[m]) /\ f[m] = Joined(f[m - 1], p[m])
          /\ IsList(g[m - 1]) /\ IsList(g[m]) /\ IsList(q[m]) /\ g[m] = Joined(g[m - 1], q[m])
      BY <1>2, <1>3, <2>1 DEF Flattens
    <2>3. PICK r : IsList(r) /\ f[n] = Joined(f[m], r)
      BY <1>2, FlattenRest
    <2>4. PICK z : IsList(z) /\ g[n] = Joined(g[m], z)
      <3>1. m \in 0 .. Len(q) /\ \A i \in 1 .. Len(q) : IsList(q[i])
        BY Zenon
      <3>2. \E z : IsList(z) /\ g[Len(q)] = Joined(g[m], z)
        BY <1>3, <3>1, FlattenRest
      <3> QED
        BY <3>2, Zenon
    <2>5. IsList(Joined(r, s)) /\ IsList(Joined(z, t))
      BY <2>3, <2>4, JoinIs
    <2>6. Joined(f[n], s) = Joined(f[m - 1], Joined(p[m], Joined(r, s)))
      <3>1. Joined(f[n], s) = Joined(Joined(Joined(f[m - 1], p[m]), r), s)
        BY <2>2, <2>3, Zenon
      <3> QED
        BY <2>2, <2>3, <3>1, JoinRegroups
    <2>7. Joined(g[n], t) = Joined(g[m - 1], Joined(q[m], Joined(z, t)))
      <3>1. Joined(g[n], t) = Joined(Joined(Joined(g[m - 1], q[m]), z), t)
        BY <2>2, <2>4, Zenon
      <3> QED
        BY <2>2, <2>4, <3>1, JoinRegroups
    <2>8. f[m - 1] = g[m - 1]
      BY <1>5
    <2>9. IsList(Joined(p[m], Joined(r, s))) /\ IsList(Joined(q[m], Joined(z, t)))
      BY <2>2, <2>5, JoinIs
    <2>10. Joined(f[m - 1], Joined(p[m], Joined(r, s))) = Joined(f[m - 1], Joined(q[m], Joined(z, t)))
      BY <1>2, <1>3, <2>6, <2>7, <2>8
    <2>11. Joined(p[m], Joined(r, s)) = Joined(q[m], Joined(z, t))
      BY <2>2, <2>9, <2>10, JoinCancels
    <2>12. p[m] = q[m]
      BY <2>1, <2>5, <2>11 DEF Separate
    <2>13. \A i \in 1 .. m : i = m \/ i \in 1 .. m - 1
      BY <2>1
    <2> QED
      BY <1>5, <2>2, <2>8, <2>12, <2>13
  <1> HIDE DEF S
  <1>6. \A m \in 0 .. n : m \in S
    <2> HIDE DEF n
    <2> QED
      BY <1>1, <1>4, <1>5, StepByStep
  <1>7. n \in S
    BY <1>1, <1>6
  <1>8. \A i \in 1 .. Len(p) : p[i] = q[i]
    BY <1>7 DEF S
  <1> QED
    BY <1>8, ListsAgree

-----------------------------------------------------------------------------
(* Sorted keys                                                             *)

\* Every key has a place in the order of keys, and a length.
LEMMA PlacesOfKeys ==
  ASSUME NEW key \in Range(KeyOrder)
  PROVE  /\ PlaceOf(key) \in Nat /\ KeyOrder[PlaceOf(key)] = key
         /\ Len(key) \in Nat
  <1>1. DOMAIN KeyOrder = 1 .. Len(KeyOrder) /\ Len(KeyOrder) \in Nat
    BY KeyOrderAssumption, LenProperties
  <1>2. \E i \in DOMAIN KeyOrder : KeyOrder[i] = key
    BY DEF Range
  <1>3. PlaceOf(key) \in DOMAIN KeyOrder /\ KeyOrder[PlaceOf(key)] = key
    BY <1>2 DEF PlaceOf
  <1>4. Len(key) \in Nat
    BY KeysAssumption, LenProperties
  <1> QED
    BY <1>1, <1>3, <1>4

\* Keys are in a total order.
LEMMA KeysCompare ==
  ASSUME NEW k \in Range(KeyOrder), NEW l \in Range(KeyOrder), NEW m \in Range(KeyOrder)
  PROVE  /\ ~CompareCborKeys(k, k)
         /\ CompareCborKeys(k, l) /\ CompareCborKeys(l, m) => CompareCborKeys(k, m)
         /\ k # l => CompareCborKeys(k, l) \/ CompareCborKeys(l, k)
  <1>1. /\ PlaceOf(k) \in Nat /\ Len(k) \in Nat
        /\ PlaceOf(l) \in Nat /\ Len(l) \in Nat
        /\ PlaceOf(m) \in Nat /\ Len(m) \in Nat
    BY PlacesOfKeys
  <1>2. k # l => PlaceOf(k) # PlaceOf(l)
    BY PlacesOfKeys
  <1> QED
    BY <1>1, <1>2 DEF CompareCborKeys

\* Of some keys one comes first.
LEMMA SomeKeyIsFirst ==
  ASSUME NEW names \in SUBSET Range(KeyOrder), names # {}
  PROVE  \E first \in names : \A name \in names : name # first => CompareCborKeys(first, name)
  <1> DEFINE Lengths == {Len(name) : name \in names}
             shortest == Min(Lengths)
             Shortest == {name \in names : Len(name) = shortest}
             Places == {PlaceOf(name) : name \in Shortest}
             place == Min(Places)
  <1>1. \A name \in names : Len(name) \in Nat /\ PlaceOf(name) \in Nat
    BY PlacesOfKeys
  <1>2. shortest \in Lengths /\ \A n \in Lengths : shortest <= n
    <2>1. Lengths \in SUBSET Nat /\ Lengths # {}
      BY <1>1
    <2> QED
      BY <2>1, LeastNumber
  <1> HIDE DEF shortest
  <1>3. place \in Places /\ \A n \in Places : place <= n
    <2>1. Places \in SUBSET Nat /\ Places # {}
      BY <1>1, <1>2
    <2> QED
      BY <2>1, LeastNumber
  <1> HIDE DEF place
  <1>4. PICK first \in Shortest : PlaceOf(first) = place
    BY <1>3
  <1>5. first \in names /\ Len(first) = shortest
    BY <1>4
  <1>6. ASSUME NEW name \in names, name # first PROVE CompareCborKeys(first, name)
    <2>1. Len(name) \in Nat /\ PlaceOf(name) \in Nat /\ Len(first) \in Nat /\ PlaceOf(first) \in Nat
      BY <1>1, <1>5
    <2>2. Len(first) <= Len(name)
      BY <1>2, <1>5
    <2>3. PlaceOf(name) # PlaceOf(first)
      BY <1>5, <1>6, PlacesOfKeys
    <2>4. Len(name) = Len(first) => PlaceOf(first) <= PlaceOf(name)
      BY <1>3, <1>4, <1>5
    <2> QED
      BY <2>1, <2>2, <2>3, <2>4 DEF CompareCborKeys
  <1> QED
    BY <1>5, <1>6

AreSorted(keys) == \A i, j \in DOMAIN keys : i < j => CompareCborKeys(keys[i], keys[j])

\* Finitely many keys can be sorted.
LEMMA KeysCanBeSorted ==
  ASSUME NEW names \in SUBSET Range(KeyOrder), IsFiniteSet(names)
  PROVE  \E keys \in [1 .. Cardinality(names) -> names] : AreSorted(keys)
  <1> DEFINE N == Cardinality(names)
             S == {n \in 0 .. N : \A some \in SUBSET Range(KeyOrder) :
                      IsFiniteSet(some) /\ Cardinality(some) = n =>
                          \E keys \in [1 .. n -> some] : AreSorted(keys)}
  <1>1. N \in Nat
    BY FS_CardinalityType
  <1>2. 0 \in S
    <2>1. ASSUME NEW some \in SUBSET Range(KeyOrder)
          PROVE  \E keys \in [1 .. 0 -> some] : AreSorted(keys)
      <3> DEFINE keys == [i \in 1 .. 0 |-> i]
      <3>1. keys \in [1 .. 0 -> some] /\ DOMAIN keys = {}
        OBVIOUS
      <3> HIDE DEF keys
      <3> QED
        BY <3>1 DEF AreSorted
    <2> QED
      BY <1>1, <2>1
  <1>3. ASSUME NEW n \in 0 .. N, n # 0, n - 1 \in S PROVE n \in S
    <2>1. ASSUME NEW some \in SUBSET Range(KeyOrder), IsFiniteSet(some), Cardinality(some) = n
          PROVE  \E keys \in [1 .. n -> some] : AreSorted(keys)
      <3>1. some # {}
        BY <1>3, <2>1, FS_EmptySet
      <3>2. PICK first \in some : \A name \in some : name # first => CompareCborKeys(first, name)
        BY <3>1, SomeKeyIsFirst
      <3> DEFINE others == some \ {first}
      <3>3. IsFiniteSet(others) /\ Cardinality(others) = n - 1
        BY <2>1, FS_RemoveElement
      <3>4. PICK rest \in [1 .. n - 1 -> others] : AreSorted(rest)
        BY <1>3, <3>3
      <3> DEFINE Key(i) == IF i = 1 THEN first ELSE rest[i - 1]
                 keys == [i \in 1 .. n |-> Key(i)]
      <3>5. \A i \in 1 .. n : i # 1 => i - 1 \in 1 .. n - 1
        BY <1>1
      <3>6. \A i \in 1 .. n : Key(i) \in some /\ (i # 1 => Key(i) # first /\ Key(i) = rest[i - 1])
        BY <3>4, <3>5
      <3>7. keys \in [1 .. n -> some] /\ DOMAIN keys = 1 .. n /\ \A i \in 1 .. n : keys[i] = Key(i)
        BY <3>6
      <3> HIDE DEF keys
      <3>8. ASSUME NEW i \in 1 .. n, NEW j \in 1 .. n, i < j
            PROVE  CompareCborKeys(keys[i], keys[j])
        <4>1. j # 1
          BY <3>8
        <4>2. CASE i = 1
          <5>1. Key(i) = first
            BY <4>2
          <5>2. Key(j) \in some /\ Key(j) # first
            BY <3>6, <4>1
          <5> QED
            BY <3>2, <3>7, <5>1, <5>2
        <4>3. CASE i # 1
          <5>1. i - 1 \in DOMAIN rest /\ j - 1 \in DOMAIN rest /\ i - 1 < j - 1
            BY <3>4, <3>5, <3>8, <4>1, <4>3
          <5>2. CompareCborKeys(rest[i - 1], rest[j - 1])
            BY <3>4, <5>1 DEF AreSorted
          <5> QED
            BY <3>6, <3>7, <4>1, <4>3, <5>2
        <4> QED
          BY <4>2, <4>3
      <3>9. AreSorted(keys)
        BY <3>7, <3>8 DEF AreSorted
      <3> QED
        BY <3>7, <3>9
    <2> QED
      BY <2>1
  <1> HIDE DEF S
  <1>4. \A n \in 0 .. N : n \in S
    <2> HIDE DEF N
    <2> QED
      BY <1>1, <1>2, <1>3, StepByStep
  <1>5. N \in S
    BY <1>1, <1>4
  <1> QED
    BY <1>5 DEF S

\* So they are, each once.
LEMMA SortedKeysAre ==
  ASSUME NEW names \in SUBSET Range(KeyOrder)
  PROVE  LET keys == SortedKeys(names)
         IN  /\ IsList(keys) /\ DOMAIN keys = 1 .. Len(keys) /\ Len(keys) \in Nat
             /\ \A i \in 1 .. Len(keys) : keys[i] \in names
             /\ \A name \in names : \E i \in 1 .. Len(keys) : keys[i] = name
  <1> DEFINE keys == SortedKeys(names)
             N == Cardinality(names)
  <1>1. IsFiniteSet(names)
    <2>1. KeyOrder \in [1 .. Len(KeyOrder) -> Range(KeyOrder)] /\ Len(KeyOrder) \in Nat
      BY KeyOrderAssumption, LenProperties
    <2>2. KeyOrder \in Surjection(1 .. Len(KeyOrder), Range(KeyOrder))
      BY <2>1 DEF Surjection, Range
    <2>3. IsFiniteSet(1 .. Len(KeyOrder))
      BY <2>1, FS_Interval
    <2>4. IsFiniteSet(Range(KeyOrder))
      BY <2>2, <2>3, FS_Surjection
    <2> QED
      BY <2>4, FS_Subset
  <1>2. N \in Nat
    BY <1>1, FS_CardinalityType
  <1>3. keys \in [1 .. N -> names] /\ AreSorted(keys)
    <2>1. \E some \in [1 .. N -> names] : AreSorted(some)
      BY <1>1, KeysCanBeSorted
    <2>2. keys = CHOOSE some \in [1 .. N -> names] : AreSorted(some)
      BY DEF SortedKeys, AreSorted
    <2> QED
      BY <2>1, <2>2
  <1> HIDE DEF keys
  <1>4. IsList(keys) /\ Len(keys) = N /\ DOMAIN keys = 1 .. N
    <2>1. keys = [i \in 1 .. N |-> keys[i]]
      BY <1>3
    <2> QED
      BY <1>2, <2>1, ListIs
  <1>5. keys \in Injection(1 .. N, names)
    <2>1. ASSUME NEW i \in 1 .. N, NEW j \in 1 .. N, i < j PROVE keys[i] # keys[j]
      <3>1. CompareCborKeys(keys[i], keys[j])
        BY <1>3, <1>4, <2>1 DEF AreSorted
      <3>2. keys[i] \in Range(KeyOrder)
        BY <1>3
      <3> QED
        BY <3>1, <3>2, KeysCompare
    <2>2. \A i, j \in 1 .. N : keys[i] = keys[j] => i = j
      BY <1>2, <2>1
    <2> QED
      BY <1>3, <2>2 DEF Injection, IsInjective
  <1>6. keys \in Surjection(1 .. N, names)
    <2>1. Cardinality(1 .. N) = N
      BY <1>2, FS_Interval
    <2> QED
      BY <1>1, <1>5, <2>1, FS_Injection
  <1>7. \A name \in names : \E i \in 1 .. N : keys[i] = name
    BY <1>6 DEF Surjection
  <1>8. \A i \in 1 .. N : keys[i] \in names
    BY <1>3
  <1> QED
    BY <1>2, <1>4, <1>7, <1>8 DEF keys

-----------------------------------------------------------------------------
(* Numbers: what they say, and their code                                  *)

\* An integer is its quotient and its remainder.
LEMMA QuotientIs ==
  ASSUME NEW m \in Nat \ {0}, NEW x \in Int
  PROVE  x \div m \in Int /\ x = m * (x \div m) + (x % m)
  OBVIOUS

\* A number without a fraction is what is left of it when that is cut off.
LEMMA WholeIs ==
  ASSUME NEW x \in Int
  PROVE  Truncated(x) \in Int /\ (IsWhole(x) => Truncated(x) * Resolution = x)
  <1>1. Resolution \in Nat \ {0}
    BY RoundingAssumption DEF RoundingAssumption
  <1>2. CASE x >= 0
    <2>1. x \div Resolution \in Int /\ x = Resolution * (x \div Resolution) + (x % Resolution)
      BY <1>1, QuotientIs
    <2>2. Truncated(x) = x \div Resolution
      BY <1>2 DEF Truncated
    <2> DEFINE q == x \div Resolution
    <2>3. IsWhole(x) => x = Resolution * q + 0
      BY <2>1 DEF IsWhole
    <2> HIDE DEF q
    <2>4. q \in Int
      BY <2>1 DEF q
    <2>5. Resolution * q + 0 = q * Resolution
      BY <1>1, <2>4
    <2> QED
      BY <2>2, <2>3, <2>4, <2>5 DEF q
  <1>3. CASE x < 0
    <2>1. -x \in Int
      OBVIOUS
    <2> DEFINE q == (-x) \div Resolution
    <2>2. q \in Int /\ -x = Resolution * q + ((-x) % Resolution)
      BY <1>1, <2>1, QuotientIs
    <2>3. Truncated(x) = -q
      BY <1>3 DEF Truncated
    <2>4. IsWhole(x) => (-x) % Resolution = 0
      <3>1. SUFFICES ASSUME IsWhole(x) PROVE (-x) % Resolution = 0
        OBVIOUS
      <3>2. PICK p \in Int : x = Resolution * p + (x % Resolution)
        BY <1>1, RemainderIs
      <3>3. x = Resolution * p + 0
        BY <3>1, <3>2 DEF IsWhole
      <3>4. -p \in Int /\ -x = 0 + Resolution * (-p)
        BY <1>1, <3>2, <3>3
      <3>5. (0 + Resolution * (-p)) % Resolution = 0 % Resolution
        BY <1>1, <3>4, RemainderOfMultiples
      <3>6. 0 % Resolution = 0
        BY <1>1
      <3> QED
        BY <3>4, <3>5, <3>6
    <2> HIDE DEF q
    <2>5. IsWhole(x) => (-q) * Resolution = x
      <3>1. SUFFICES ASSUME IsWhole(x) PROVE (-q) * Resolution = x
        OBVIOUS
      <3>2. -x = Resolution * q + 0
        BY <2>2, <2>4, <3>1
      <3> QED
        BY <1>1, <2>2, <3>2
    <2> QED
      BY <2>2, <2>3, <2>5
  <1> QED
    BY <1>2, <1>3

\* What a number says.
SaidBy(number) == IF IsFloat(number) THEN number.value ELSE number.value * Resolution

\* Whether a double is encoded as an integer.
CodedWhole(x) ==
    /\ IsWhole(x)
    /\ x < AsDouble(Unsigned(2 * SignBit - 1))
    /\ x >= AsDouble(Signed(-SignBit))

NumberCode(number) ==
    IF ~IsFloat(number) THEN <<"integer", number.value>>
    ELSE IF CodedWhole(number.value) THEN <<"integer", Truncated(number.value)>>
    ELSE <<"double", number.value>>

\* A number is encoded as one data item, an integer or a double.
LEMMA EncodeNumberIs ==
  ASSUME NEW number
  PROVE  EncodeNumber(number) = <<NumberCode(number)>> /\ NumberCode(number)[1] \in {"integer", "double"}
  BY DEF EncodeNumber, NumberCode, CodedWhole

\* A double that is an integer of 64 bits is encoded as that.
LEMMA IntegersAreCodedWhole ==
  ASSUME NEW n \in IntegerValues, NEW x \in DoubleValues, x = n * Resolution
  PROVE  CodedWhole(x)
  <1>1. /\ Resolution \in Nat \ {0} /\ SignBit \in Nat \ {0} /\ DoubleValues \subseteq Int
        /\ \A k, l \in IntegerValues : k <= l => Rounded(k * Resolution, 1) <= Rounded(l * Resolution, 1)
        /\ \A k \in IntegerValues : Rounded(k * Resolution, 1) \in DoubleValues
    BY RoundingAssumption DEF RoundingAssumption
  <1>2. n \in Int /\ n <= 2 * SignBit - 1 /\ -SignBit <= n
        /\ 2 * SignBit - 1 \in IntegerValues /\ -SignBit \in IntegerValues
    BY <1>1 DEF IntegerValues, SignedValues, UnsignedValues
  <1>3. x \in Int /\ IsWhole(x)
    <2>1. (0 + Resolution * n) % Resolution = 0 % Resolution
      BY <1>1, <1>2, RemainderOfMultiples
    <2>2. 0 % Resolution = 0 /\ x = 0 + Resolution * n
      BY <1>1, <1>2
    <2>3. x \in Int
      BY <1>1
    <2> QED
      BY <2>1, <2>2, <2>3 DEF IsWhole
  <1>4. Rounded(n * Resolution, 1) = x
    BY WholeDoublesAssumption
  <1>5. AsDouble(Unsigned(2 * SignBit - 1)) = Rounded((2 * SignBit - 1) * Resolution, 1)
    BY DEF AsDouble, Unsigned, IsFloat
  <1>6. AsDouble(Signed(-SignBit)) = Rounded((-SignBit) * Resolution, 1)
    BY DEF AsDouble, Signed, IsFloat
  <1>7. x < Rounded((2 * SignBit - 1) * Resolution, 1)
    <2>1. Rounded((2 * SignBit - 1) * Resolution, 1) > (2 * SignBit - 1) * Resolution
      BY WholeDoublesAssumption
    <2>2. CASE n = 2 * SignBit - 1
      <3>1. x < x
        BY <1>2, <1>3, <1>4, <2>1, <2>2
      <3> QED
        BY <1>3, <3>1
    <2>3. CASE n # 2 * SignBit - 1
      <3> DEFINE top == 2 * SignBit - 1
      <3>1. n \in Int /\ n <= top /\ n # top /\ top \in IntegerValues
        BY <1>2, <2>3
      <3>2. top \in Int /\ Resolution \in Nat \ {0}
        BY <1>1
      <3>3. Rounded(top * Resolution, 1) > top * Resolution
        BY <2>1
      <3> HIDE DEF top
      <3>4. Rounded(top * Resolution, 1) \in Int
        BY <1>1, <3>1
      <3>5. n < top
        BY <3>1, <3>2
      <3>6. n * Resolution < top * Resolution /\ n * Resolution \in Int /\ top * Resolution \in Int
        BY <3>1, <3>2, <3>5
      <3>7. x < Rounded(top * Resolution, 1)
        BY <3>3, <3>4, <3>6
      <3> QED
        BY <3>7 DEF top
    <2> QED
      BY <2>2, <2>3
  <1>8. x >= Rounded((-SignBit) * Resolution, 1)
    <2>1. Rounded((-SignBit) * Resolution, 1) <= Rounded(n * Resolution, 1)
      BY <1>1, <1>2
    <2>2. Rounded((-SignBit) * Resolution, 1) \in Int
      BY <1>1, <1>2
    <2> QED
      BY <1>3, <1>4, <2>1, <2>2
  <1> QED
    BY <1>3, <1>5, <1>6, <1>7, <1>8 DEF CodedWhole

\* Numbers have the same code just if they say the same.
LEMMA NumbersAreCoded ==
  ASSUME NEW m \in Numbers, NEW n \in Numbers
  PROVE  NumberCode(m) = NumberCode(n) <=> SaidBy(m) = SaidBy(n)
  <1>1. Resolution \in Nat \ {0} /\ DoubleValues \subseteq Int
    BY RoundingAssumption DEF RoundingAssumption
  <1> DEFINE Whole(number) == ~IsFloat(number) \/ CodedWhole(number.value)
  <1>2. ASSUME NEW k \in Numbers
        PROVE  /\ Whole(k) => \E i \in Int : NumberCode(k) = <<"integer", i>> /\ SaidBy(k) = i * Resolution
               /\ ~Whole(k) => NumberCode(k) = <<"double", SaidBy(k)>>
    <2>1. CASE ~IsFloat(k)
      <3>1. k.value \in Int
        BY <2>1, NumberValues DEF IsInt
      <3>2. NumberCode(k) = <<"integer", k.value>> /\ SaidBy(k) = k.value * Resolution
        BY <2>1 DEF NumberCode, SaidBy
      <3> QED
        BY <2>1, <3>1, <3>2
    <2>2. CASE IsFloat(k) /\ CodedWhole(k.value)
      <3>1. k.value \in Int
        BY <1>1, <2>2, NumberValues DEF IsInt
      <3>2. Truncated(k.value) \in Int /\ Truncated(k.value) * Resolution = k.value
        BY <2>2, <3>1, WholeIs DEF CodedWhole
      <3>3. NumberCode(k) = <<"integer", Truncated(k.value)>> /\ SaidBy(k) = k.value
        BY <2>2 DEF NumberCode, SaidBy
      <3> QED
        BY <2>2, <3>2, <3>3
    <2>3. CASE IsFloat(k) /\ ~CodedWhole(k.value)
      BY <2>3 DEF NumberCode, SaidBy
    <2> QED
      BY <2>1, <2>2, <2>3
  <1>3. ASSUME NEW k \in Numbers, NEW l \in Numbers, Whole(k), ~Whole(l)
        PROVE  SaidBy(k) # SaidBy(l)
    <2>1. IsFloat(l) /\ l.value \in DoubleValues /\ SaidBy(l) = l.value /\ ~CodedWhole(l.value)
      BY <1>3, NumberValues DEF IsInt, SaidBy
    <2>2. CASE ~IsFloat(k)
      <3>1. k.value \in IntegerValues /\ SaidBy(k) = k.value * Resolution
        BY <2>2, NumberValues DEF IsInt, SaidBy
      <3> QED
        BY <2>1, <3>1, IntegersAreCodedWhole
    <2>3. CASE IsFloat(k)
      <3>1. SaidBy(k) = k.value /\ CodedWhole(k.value)
        BY <1>3, <2>3 DEF SaidBy
      <3> QED
        BY <2>1, <3>1
    <2> QED
      BY <2>2, <2>3
  <1> HIDE DEF Whole
  <1>4. CASE Whole(m) /\ Whole(n)
    <2>1. PICK i \in Int : NumberCode(m) = <<"integer", i>> /\ SaidBy(m) = i * Resolution
      BY <1>2, <1>4
    <2>2. PICK j \in Int : NumberCode(n) = <<"integer", j>> /\ SaidBy(n) = j * Resolution
      BY <1>2, <1>4
    <2>3. i * Resolution = j * Resolution <=> i = j
      BY <1>1
    <2>4. <<"integer", i>> = <<"integer", j>> <=> i = j
      OBVIOUS
    <2> QED
      BY <2>1, <2>2, <2>3, <2>4
  <1>5. CASE ~Whole(m) /\ ~Whole(n)
    <2>1. NumberCode(m) = <<"double", SaidBy(m)>> /\ NumberCode(n) = <<"double", SaidBy(n)>>
      BY <1>2, <1>5
    <2> QED
      BY <2>1
  <1>6. CASE Whole(m) /\ ~Whole(n)
    <2>1. SaidBy(m) # SaidBy(n)
      BY <1>3, <1>6
    <2>2. NumberCode(m)[1] = "integer" /\ NumberCode(n)[1] = "double"
      BY <1>2, <1>6
    <2> QED
      BY <2>1, <2>2
  <1>7. CASE ~Whole(m) /\ Whole(n)
    <2>1. SaidBy(m) # SaidBy(n)
      BY <1>3, <1>7
    <2>2. NumberCode(m)[1] = "double" /\ NumberCode(n)[1] = "integer"
      BY <1>2, <1>7
    <2> QED
      BY <2>1, <2>2
  <1> QED
    BY <1>4, <1>5, <1>6, <1>7

\* A number that fits an openfeature::Value comes out of it as it was.
LEMMA NumberToJsonIs ==
  ASSUME NEW number \in Numbers, IsFloat(number) \/ FitsSigned(number)
  PROVE  \E same \in Numbers : NumberToJson(number) = JsonNumber(same) /\ SaidBy(same) = SaidBy(number)
  <1> DEFINE n == AsInt(number)
             same == IF n \in SignedValues /\ AsDouble(Signed(n)) = AsDouble(number)
                     THEN Signed(n) ELSE Double(AsDouble(number))
  <1>1. NumberToJson(number) = JsonNumber(same)
    BY DEF NumberToJson
  <1>2. /\ Resolution \in Nat \ {0} /\ DoubleValues \subseteq Int
        /\ \A k \in IntegerValues : Rounded(k * Resolution, 1) \in DoubleValues
    BY RoundingAssumption DEF RoundingAssumption
  <1>3. \A k \in SignedValues : Signed(k) \in Numbers /\ SaidBy(Signed(k)) = k * Resolution
    BY DEF Signed, Numbers, SaidBy, IsFloat
  <1>4. \A x \in DoubleValues : Double(x) \in Numbers /\ SaidBy(Double(x)) = x
    BY DEF Double, Numbers, SaidBy, IsFloat
  <1>5. CASE number.kind \in {"signed", "unsigned"}
    <2>1. ~IsFloat(number) /\ n = number.value
      BY <1>5 DEF AsInt, IsFloat
    <2>2. n \in SignedValues
      <3>1. CASE number.kind = "signed"
        <4> HIDE DEF n
        <4> QED
          BY <2>1, <3>1, NumberValues
      <3>2. CASE number.kind = "unsigned"
        <4>1. number.value \in UnsignedValues
          BY <3>2, NumberValues
        <4>2. number.value < SignBit
          BY <2>1, <3>2 DEF FitsSigned
        <4> HIDE DEF n
        <4> QED
          BY <2>1, <4>1, <4>2, RoundingAssumption DEF RoundingAssumption, SignedValues, UnsignedValues
      <3> QED
        BY <1>5, <3>1, <3>2
    <2>3. AsDouble(Signed(n)) = AsDouble(number) /\ SaidBy(number) = n * Resolution
      BY <2>1 DEF AsDouble, IsFloat, Signed, SaidBy
    <2> HIDE DEF n
    <2>4. same = Signed(n)
      BY <2>2, <2>3
    <2> QED
      BY <1>1, <1>3, <2>2, <2>3, <2>4
  <1>6. CASE number.kind = "double"
    <2>1. number.value \in DoubleValues /\ AsDouble(number) = number.value /\ SaidBy(number) = number.value
      BY <1>6, NumberValues DEF IsInt, IsFloat, AsDouble, SaidBy
    <2>2. n = Truncated(number.value)
      BY <1>6 DEF AsInt, IsFloat
    <2> HIDE DEF n
    <2>3. CASE n \in SignedValues /\ AsDouble(Signed(n)) = AsDouble(number)
      <3>1. same = Signed(n)
        BY <2>3
      <3>2. AsDouble(Signed(n)) = Rounded(n * Resolution, 1)
        BY DEF AsDouble, Signed, IsFloat
      <3>3. n \in IntegerValues /\ n * Resolution \in DoubleValues
        BY <2>1, <2>2, <2>3, WholeDoublesAssumption DEF IntegerValues
      <3>4. Rounded(n * Resolution, 1) = n * Resolution
        BY <3>3, WholeDoublesAssumption
      <3>5. n * Resolution = number.value
        BY <2>1, <2>3, <3>2, <3>4
      <3> QED
        BY <1>1, <1>3, <2>1, <2>3, <3>1, <3>5
    <2>4. CASE ~(n \in SignedValues /\ AsDouble(Signed(n)) = AsDouble(number))
      <3>1. same = Double(number.value)
        BY <2>1, <2>4
      <3> QED
        BY <1>1, <1>4, <2>1, <3>1
    <2> QED
      BY <2>3, <2>4
  <1> QED
    BY <1>5, <1>6, NumberValues

-----------------------------------------------------------------------------
(* Values, their parts and their encodings                                 *)

\* What the values are.
LEMMA ValueIs ==
  ASSUME NEW v \in DOMAIN Nesting
  PROVE  /\ KindOf(v) \in Kinds /\ Nesting[v] \in Nat
         /\ IsNumber(v) => IsPrimitive(v) /\ Content(v) \in Numbers
         /\ IsArray(v) => ~IsPrimitive(v) /\ IsList(Content(v)) /\ DOMAIN Content(v) = 1 .. Size(v)
         /\ KindOf(v) = "object" => ~IsPrimitive(v) /\ DOMAIN Content(v) \subseteq Range(KeyOrder)
         /\ IsPrimitive(v) \/ IsArray(v) \/ KindOf(v) = "object"
  <1>1. /\ KindOf(v) \in Kinds /\ Nesting[v] \in Nat
        /\ IsNumber(v) => Content(v) \in Numbers
        /\ IsArray(v) => Content(v) \in Seq(Range(Content(v)))
        /\ KindOf(v) = "object" => DOMAIN Content(v) \subseteq Range(KeyOrder)
    BY NestingAssumption DEF IsWellFormed
  <1>2. IsArray(v) => IsList(Content(v)) /\ DOMAIN Content(v) = 1 .. Size(v)
    BY <1>1, ListHas DEF IsList, Size
  <1> QED
    BY <1>1, <1>2 DEF IsNumber, IsPrimitive, IsArray

\* w is a part of v.
HasPart(v, w) == ~IsPrimitive(v) /\ \E k \in DOMAIN Content(v) : w = Content(v)[k]

\* A part of a value is a value that is nested less deep.
LEMMA PartIsLess ==
  ASSUME NEW v \in DOMAIN Nesting, NEW w, HasPart(v, w)
  PROVE  w \in DOMAIN Nesting /\ Nesting[w] < Nesting[v]
  BY NestingAssumption DEF HasPart

\* What a value has whenever its parts have it, all values have.
LEMMA PartByPart ==
  ASSUME NEW S, \A v \in DOMAIN Nesting : (\A w : HasPart(v, w) => w \in S) => v \in S
  PROVE  \A v \in DOMAIN Nesting : v \in S
  <1> TAKE v \in DOMAIN Nesting
  <1> DEFINE N == Nesting[v] + 1
             T == {n \in 0 .. N : \A w \in DOMAIN Nesting : Nesting[w] < n => w \in S}
  <1>1. N \in Nat /\ \A w \in DOMAIN Nesting : Nesting[w] \in Nat
    BY ValueIs
  <1>2. 0 \in T
    BY <1>1
  <1>3. ASSUME NEW n \in 0 .. N, n # 0, n - 1 \in T PROVE n \in T
    <2>1. ASSUME NEW w \in DOMAIN Nesting, Nesting[w] < n PROVE w \in S
      <3>1. ASSUME NEW x, HasPart(w, x) PROVE x \in S
        <4>1. x \in DOMAIN Nesting /\ Nesting[x] < Nesting[w]
          BY <3>1, PartIsLess
        <4>2. Nesting[x] < n - 1
          BY <1>1, <2>1, <4>1
        <4> QED
          BY <1>3, <4>1, <4>2
      <3> QED
        BY <3>1
    <2> QED
      BY <2>1
  <1> HIDE DEF T
  <1>4. \A n \in 0 .. N : n \in T
    <2> HIDE DEF N
    <2> QED
      BY <1>1, <1>2, <1>3, StepByStep
  <1>5. N \in T
    BY <1>1, <1>4
  <1>6. Nesting[v] < N
    BY <1>1
  <1> QED
    BY <1>5, <1>6 DEF T

\* So have two values what they have whenever their parts have it.
LEMMA PartsByParts ==
  ASSUME NEW S,
         \A u, v \in DOMAIN Nesting :
            (\A x, y : HasPart(u, x) /\ HasPart(v, y) => <<x, y>> \in S) => <<u, v>> \in S
  PROVE  \A u, v \in DOMAIN Nesting : <<u, v>> \in S
  <1> DEFINE T == {u \in DOMAIN Nesting : \A v \in DOMAIN Nesting : <<u, v>> \in S}
  <1>1. ASSUME NEW u \in DOMAIN Nesting, \A x : HasPart(u, x) => x \in T PROVE u \in T
    <2>1. ASSUME NEW v \in DOMAIN Nesting PROVE <<u, v>> \in S
      <3>1. ASSUME NEW x, NEW y, HasPart(u, x), HasPart(v, y) PROVE <<x, y>> \in S
        <4>1. y \in DOMAIN Nesting
          BY <3>1, PartIsLess
        <4> QED
          BY <1>1, <3>1, <4>1
      <3> QED
        BY <3>1
    <2> QED
      BY <2>1
  <1> HIDE DEF T
  <1>2. \A u \in DOMAIN Nesting : u \in T
    BY <1>1, PartByPart
  <1> QED
    BY <1>2 DEF T

-----------------------------------------------------------------------------
(* Encodings                                                               *)

KeysOf(v) == SortedKeys(DOMAIN Content(v))

\* The first data item of an encoding, and the encodings of what follows it.
HeadOf(v) ==
    IF IsNumber(v) THEN NumberCode(Content(v))
    ELSE IF IsPrimitive(v) THEN v
    ELSE IF IsArray(v) THEN <<"array", Size(v)>>
    ELSE <<"map", Len(KeysOf(v))>>
PartsOf(v) ==
    IF IsPrimitive(v) THEN <<>>
    ELSE IF IsArray(v) THEN [i \in DOMAIN Content(v) |-> EncodeJson(Content(v)[i])]
    ELSE [i \in DOMAIN KeysOf(v) |->
             Joined(<<JsonString(KeysOf(v)[i])>>, EncodeJson(Content(v)[KeysOf(v)[i]]))]

\* Nothing is flattened to nothing.
LEMMA NothingFlattened == FlattenSeq(<<>>) = <<>> /\ IsList(<<>>) /\ Len(<<>>) = 0
  <1>1. IsList(<<>>) /\ Len(<<>>) = 0
    BY EmptySeq, InIsList
  <1> QED
    BY <1>1 DEF FlattenSeq

\* An encoding is its first data item and those of its parts.
LEMMA EncodeIs ==
  ASSUME AreConversions, NEW v \in DOMAIN Nesting
  PROVE  EncodeJson(v) = Joined(<<HeadOf(v)>>, FlattenSeq(PartsOf(v)))
  <1>1. EncodeJson(v) = EncodeOnce(v)
    BY DEF AreConversions
  <1>2. CASE IsPrimitive(v)
    <2>1. EncodeOnce(v) = <<HeadOf(v)>>
      BY <1>2, EncodeNumberIs DEF EncodeOnce, HeadOf
    <2>2. PartsOf(v) = <<>>
      BY <1>2 DEF PartsOf
    <2>3. Joined(<<HeadOf(v)>>, <<>>) = <<HeadOf(v)>>
      BY OneIsList, NothingFlattened, JoinIs
    <2> QED
      BY <1>1, <2>1, <2>2, <2>3, NothingFlattened
  <1>3. CASE IsArray(v)
    <2>1. ~IsPrimitive(v) /\ ~IsNumber(v)
      BY <1>3 DEF IsArray, IsPrimitive, IsNumber
    <2> QED
      BY <1>1, <1>3, <2>1 DEF EncodeOnce, HeadOf, PartsOf, Joined
  <1>4. CASE ~IsPrimitive(v) /\ ~IsArray(v)
    <2>1. ~IsNumber(v)
      BY <1>4 DEF IsNumber, IsPrimitive
    <2> QED
      BY <1>1, <1>4, <2>1 DEF EncodeOnce, HeadOf, PartsOf, KeysOf, Joined
  <1> QED
    BY <1>2, <1>3, <1>4

\* How many encodings follow, and of what.
LEMMA PartsAre ==
  ASSUME NEW v \in DOMAIN Nesting, \A w : HasPart(v, w) => IsList(EncodeJson(w))
  PROVE  /\ IsList(PartsOf(v)) /\ \A i \in 1 .. Len(PartsOf(v)) : IsList(PartsOf(v)[i])
         /\ IsArray(v) =>
               /\ Len(PartsOf(v)) = Size(v)
               /\ \A i \in 1 .. Size(v) : /\ HasPart(v, Content(v)[i])
                                          /\ PartsOf(v)[i] = EncodeJson(Content(v)[i])
         /\ KindOf(v) = "object" =>
               /\ Len(PartsOf(v)) = Len(KeysOf(v)) /\ IsList(KeysOf(v))
               /\ \A i \in 1 .. Len(KeysOf(v)) :
                     /\ KeysOf(v)[i] \in DOMAIN Content(v)
                     /\ HasPart(v, Content(v)[KeysOf(v)[i]])
                     /\ PartsOf(v)[i] = Joined(<<JsonString(KeysOf(v)[i])>>,
                                               EncodeJson(Content(v)[KeysOf(v)[i]]))
               /\ \A name \in DOMAIN Content(v) : \E i \in 1 .. Len(KeysOf(v)) : KeysOf(v)[i] = name
  <1>1. CASE IsPrimitive(v)
    <2>1. PartsOf(v) = <<>> /\ ~IsArray(v) /\ KindOf(v) # "object"
      BY <1>1 DEF PartsOf, IsPrimitive, IsArray
    <2>2. 1 .. 0 = {}
      OBVIOUS
    <2> QED
      BY <2>1, <2>2, NothingFlattened
  <1>2. CASE IsArray(v)
    <2> DEFINE parts == PartsOf(v)
    <2>1. ~IsPrimitive(v) /\ IsList(Content(v)) /\ DOMAIN Content(v) = 1 .. Size(v) /\ Size(v) \in Nat
      BY <1>2, ValueIs, ListHas DEF Size
    <2>2. parts = [i \in 1 .. Size(v) |-> EncodeJson(Content(v)[i])]
      BY <1>2, <2>1 DEF PartsOf
    <2>3. \A i \in 1 .. Size(v) : /\ HasPart(v, Content(v)[i])
                                  /\ parts[i] = EncodeJson(Content(v)[i])
      BY <2>1, <2>2 DEF HasPart
    <2>4. parts = [i \in 1 .. Size(v) |-> parts[i]]
      BY <2>2
    <2> HIDE DEF parts
    <2>5. IsList(parts) /\ Len(parts) = Size(v)
      BY <2>1, <2>4, ListIs
    <2>6. \A i \in 1 .. Len(parts) : IsList(parts[i])
      BY <2>3, <2>5
    <2>7. KindOf(v) # "object"
      BY <1>2 DEF IsArray
    <2> QED
      BY <2>3, <2>5, <2>6, <2>7 DEF parts
  <1>3. CASE KindOf(v) = "object"
    <2> DEFINE parts == PartsOf(v)
               keys == KeysOf(v)
    <2>1. ~IsPrimitive(v) /\ ~IsArray(v) /\ DOMAIN Content(v) \in SUBSET Range(KeyOrder)
      BY <1>3, ValueIs DEF IsArray
    <2>2. /\ IsList(keys) /\ DOMAIN keys = 1 .. Len(keys) /\ Len(keys) \in Nat
          /\ \A i \in 1 .. Len(keys) : keys[i] \in DOMAIN Content(v)
          /\ \A name \in DOMAIN Content(v) : \E i \in 1 .. Len(keys) : keys[i] = name
      BY <2>1, SortedKeysAre DEF KeysOf
    <2> HIDE DEF keys
    <2> DEFINE Part(i) == Joined(<<JsonString(keys[i])>>, EncodeJson(Content(v)[keys[i]]))
    <2>3. parts = [i \in 1 .. Len(keys) |-> Part(i)]
      BY <2>1, <2>2 DEF PartsOf, keys
    <2>4. \A i \in 1 .. Len(keys) : HasPart(v, Content(v)[keys[i]])
      BY <2>1, <2>2 DEF HasPart
    <2>5. \A i \in 1 .. Len(keys) : IsList(Part(i))
      <3> TAKE i \in 1 .. Len(keys)
      <3>1. IsList(EncodeJson(Content(v)[keys[i]])) /\ IsList(<<JsonString(keys[i])>>)
        BY <2>4, OneIsList
      <3> QED
        BY <3>1, JoinIs
    <2>6. \A i \in 1 .. Len(keys) : parts[i] = Part(i)
      BY <2>3
    <2>7. parts = [i \in 1 .. Len(keys) |-> parts[i]]
      BY <2>3
    <2> HIDE DEF parts, Part
    <2>8. IsList(parts) /\ Len(parts) = Len(keys)
      BY <2>2, <2>7, ListIs
    <2>9. \A i \in 1 .. Len(parts) : IsList(parts[i])
      BY <2>5, <2>6, <2>8
    <2> QED
      BY <2>1, <2>2, <2>4, <2>6, <2>8, <2>9 DEF parts, keys, Part
  <1> QED
    BY <1>1, <1>2, <1>3, ValueIs

\* An encoding is a list of data items.
LEMMA EncodingIsList ==
  ASSUME AreConversions
  PROVE  \A v \in DOMAIN Nesting : IsList(EncodeJson(v))
  <1> DEFINE S == {v \in DOMAIN Nesting : IsList(EncodeJson(v))}
  <1>1. ASSUME NEW v \in DOMAIN Nesting, \A w : HasPart(v, w) => w \in S PROVE v \in S
    <2>1. \A w : HasPart(v, w) => IsList(EncodeJson(w))
      BY <1>1
    <2>2. IsList(PartsOf(v)) /\ \A i \in 1 .. Len(PartsOf(v)) : IsList(PartsOf(v)[i])
      BY <2>1, PartsAre
    <2>3. IsList(FlattenSeq(PartsOf(v)))
      BY <2>2, FlattenIsList
    <2>4. IsList(<<HeadOf(v)>>)
      BY OneIsList
    <2>5. IsList(Joined(<<HeadOf(v)>>, FlattenSeq(PartsOf(v))))
      BY <2>3, <2>4, JoinIs
    <2> QED
      BY <2>5, EncodeIs
  <1> HIDE DEF S
  <1>2. \A v \in DOMAIN Nesting : v \in S
    BY <1>1, PartByPart
  <1> QED
    BY <1>2 DEF S

\* An encoding begins with what kind of value it is of.
LEMMA HeadTells ==
  ASSUME NEW v \in DOMAIN Nesting
  PROVE  /\ IsNumber(v) => HeadOf(v)[1] \in {"integer", "double"}
         /\ IsPrimitive(v) /\ ~IsNumber(v) => HeadOf(v) = v /\ v[1] \in {"null", "boolean", "string"}
         /\ IsArray(v) => HeadOf(v) = <<"array", Size(v)>>
         /\ KindOf(v) = "object" => HeadOf(v) = <<"map", Len(KeysOf(v))>>
  <1>1. IsNumber(v) => HeadOf(v)[1] \in {"integer", "double"}
    BY EncodeNumberIs DEF HeadOf
  <1>2. IsPrimitive(v) /\ ~IsNumber(v) => HeadOf(v) = v /\ v[1] \in {"null", "boolean", "string"}
    BY ValueIs DEF HeadOf, IsPrimitive, IsNumber, Kinds, KindOf
  <1>3. IsArray(v) => HeadOf(v) = <<"array", Size(v)>>
    BY DEF HeadOf, IsArray, IsNumber, IsPrimitive
  <1>4. KindOf(v) = "object" => HeadOf(v) = <<"map", Len(KeysOf(v))>>
    BY DEF HeadOf, IsArray, IsNumber, IsPrimitive
  <1> QED
    BY <1>1, <1>2, <1>3, <1>4

-----------------------------------------------------------------------------
(* Values that say the same are encoded alike                              *)

\* What values say.
LEMMA MeaningIs ==
  ASSUME AreConversions, NEW v
  PROVE  /\ Meaning(v)[1] = KindOf(v)
         /\ IsNumber(v) => Meaning(v) = <<"number", SaidBy(Content(v))>>
         /\ IsPrimitive(v) /\ ~IsNumber(v) => Meaning(v) = v
         /\ ~IsPrimitive(v) =>
               Meaning(v) = <<KindOf(v), [k \in DOMAIN Content(v) |-> Meaning(Content(v)[k])]>>
  <1>1. Meaning(v) = MeaningOnce(v)
    BY DEF AreConversions
  <1>2. IsNumber(v) => Meaning(v) = <<"number", SaidBy(Content(v))>>
    BY <1>1 DEF MeaningOnce, SaidBy
  <1>3. IsPrimitive(v) /\ ~IsNumber(v) => Meaning(v) = v
    BY <1>1 DEF MeaningOnce
  <1>4. ~IsPrimitive(v) =>
           Meaning(v) = <<KindOf(v), [k \in DOMAIN Content(v) |-> Meaning(Content(v)[k])]>>
    BY <1>1 DEF MeaningOnce, IsNumber, IsPrimitive
  <1>5. Meaning(v)[1] = KindOf(v)
    <2>1. CASE IsNumber(v)
      BY <1>2, <2>1 DEF IsNumber
    <2>2. CASE IsPrimitive(v) /\ ~IsNumber(v)
      BY <1>3, <2>2 DEF KindOf
    <2>3. CASE ~IsPrimitive(v)
      BY <1>4, <2>3
    <2> QED
      BY <2>1, <2>2, <2>3
  <1> QED
    BY <1>2, <1>3, <1>4, <1>5

\* Values with parts that say the same have the same parts, as to what they say.
LEMMA PartsSayTheSame ==
  ASSUME AreConversions, NEW u, NEW v, ~IsPrimitive(u), ~IsPrimitive(v)
  PROVE  Meaning(u) = Meaning(v) <=>
            /\ KindOf(u) = KindOf(v) /\ DOMAIN Content(u) = DOMAIN Content(v)
            /\ \A k \in DOMAIN Content(u) : Meaning(Content(u)[k]) = Meaning(Content(v)[k])
  <1> DEFINE f == [k \in DOMAIN Content(u) |-> Meaning(Content(u)[k])]
             g == [k \in DOMAIN Content(v) |-> Meaning(Content(v)[k])]
  <1>1. Meaning(u) = <<KindOf(u), f>> /\ Meaning(v) = <<KindOf(v), g>>
    BY MeaningIs
  <1>2. f = g <=> /\ DOMAIN Content(u) = DOMAIN Content(v)
                  /\ \A k \in DOMAIN Content(u) : Meaning(Content(u)[k]) = Meaning(Content(v)[k])
    <2>1. ASSUME f = g
          PROVE  /\ DOMAIN Content(u) = DOMAIN Content(v)
                 /\ \A k \in DOMAIN Content(u) : Meaning(Content(u)[k]) = Meaning(Content(v)[k])
      <3>1. DOMAIN f = DOMAIN Content(u) /\ DOMAIN g = DOMAIN Content(v)
        OBVIOUS
      <3>2. \A k \in DOMAIN Content(u) : f[k] = Meaning(Content(u)[k])
        OBVIOUS
      <3>3. \A k \in DOMAIN Content(v) : g[k] = Meaning(Content(v)[k])
        OBVIOUS
      <3> HIDE DEF f, g
      <3> QED
        BY <2>1, <3>1, <3>2, <3>3
    <2>2. ASSUME DOMAIN Content(u) = DOMAIN Content(v),
                 \A k \in DOMAIN Content(u) : Meaning(Content(u)[k]) = Meaning(Content(v)[k])
          PROVE  f = g
      BY <2>2
    <2> QED
      BY <2>1, <2>2
  <1> HIDE DEF f, g
  <1>3. <<KindOf(u), f>> = <<KindOf(v), g>> <=> KindOf(u) = KindOf(v) /\ f = g
    OBVIOUS
  <1> QED
    BY <1>1, <1>2, <1>3

Alike(u, v) == Meaning(u) = Meaning(v) => EncodeJson(u) = EncodeJson(v)

\* Values that say the same are encoded alike.
LEMMA SameMeaningSameCode ==
  ASSUME AreConversions
  PROVE  \A u, v \in DOMAIN Nesting : Meaning(u) = Meaning(v) => EncodeJson(u) = EncodeJson(v)
  <1> DEFINE S == {p \in (DOMAIN Nesting) \X (DOMAIN Nesting) :
                      \A u, v : p = <<u, v>> => Alike(u, v)}
  <1>1. \A u, v \in DOMAIN Nesting : <<u, v>> \in S <=> Alike(u, v)
    <2> TAKE u, v \in DOMAIN Nesting
    <2>1. <<u, v>> \in (DOMAIN Nesting) \X (DOMAIN Nesting)
      OBVIOUS
    <2>2. ASSUME <<u, v>> \in S PROVE Alike(u, v)
      BY <2>2
    <2>3. ASSUME Alike(u, v) PROVE <<u, v>> \in S
      <3>1. \A a, b : <<u, v>> = <<a, b>> => Alike(a, b)
        <4> TAKE a, b
        <4>1. <<u, v>> = <<a, b>> => a = u /\ b = v
          OBVIOUS
        <4> QED
          BY <2>3, <4>1
      <3> QED
        BY <2>1, <3>1
    <2> QED
      BY <2>2, <2>3 DEF Alike
  <1> HIDE DEF S
  <1>2. ASSUME NEW u \in DOMAIN Nesting, NEW v \in DOMAIN Nesting,
               \A x, y : HasPart(u, x) /\ HasPart(v, y) => <<x, y>> \in S,
               Meaning(u) = Meaning(v)
        PROVE  EncodeJson(u) = EncodeJson(v)
    <2>1. \A x, y : HasPart(u, x) /\ HasPart(v, y) /\ Meaning(x) = Meaning(y)
                        => EncodeJson(x) = EncodeJson(y)
      BY <1>1, <1>2, PartIsLess DEF Alike
    <2>2. KindOf(u) = KindOf(v)
      BY <1>2, MeaningIs
    <2>3. /\ EncodeJson(u) = Joined(<<HeadOf(u)>>, FlattenSeq(PartsOf(u)))
          /\ EncodeJson(v) = Joined(<<HeadOf(v)>>, FlattenSeq(PartsOf(v)))
      BY EncodeIs
    <2>4. SUFFICES HeadOf(u) = HeadOf(v) /\ PartsOf(u) = PartsOf(v)
      BY <2>3
    <2>5. CASE IsNumber(u)
      <3>1. IsNumber(v)
        BY <2>2, <2>5 DEF IsNumber
      <3>2. IsPrimitive(u) /\ IsPrimitive(v) /\ Content(u) \in Numbers /\ Content(v) \in Numbers
        BY <2>5, <3>1, ValueIs
      <3>3. Meaning(u) = <<"number", SaidBy(Content(u))>> /\ Meaning(v) = <<"number", SaidBy(Content(v))>>
        BY <2>5, <3>1, MeaningIs
      <3>4. SaidBy(Content(u)) = SaidBy(Content(v))
        <4> DEFINE a == SaidBy(Content(u))
                   b == SaidBy(Content(v))
        <4>1. <<"number", a>> = <<"number", b>>
          BY <1>2, <3>3, Zenon
        <4> HIDE DEF a, b
        <4>2. a = b
          BY <4>1
        <4> QED
          BY <4>2 DEF a, b
      <3>5. NumberCode(Content(u)) = NumberCode(Content(v))
        BY <3>2, <3>4, NumbersAreCoded
      <3>6. HeadOf(u) = HeadOf(v)
        BY <2>5, <3>1, <3>5 DEF HeadOf
      <3>7. PartsOf(u) = <<>> /\ PartsOf(v) = <<>>
        BY <3>2 DEF PartsOf
      <3> QED
        BY <3>6, <3>7
    <2>6. CASE IsPrimitive(u) /\ ~IsNumber(u)
      <3>1. IsPrimitive(v) /\ ~IsNumber(v)
        BY <2>2, <2>6 DEF IsNumber, IsPrimitive
      <3>2. Meaning(u) = u /\ Meaning(v) = v
        BY <2>6, <3>1, MeaningIs
      <3>3. u = v
        BY <1>2, <3>2
      <3> QED
        BY <3>3
    <2>7. CASE ~IsPrimitive(u)
      <3>1. ~IsPrimitive(v)
        BY <2>2, <2>7 DEF IsPrimitive
      <3>2. /\ DOMAIN Content(u) = DOMAIN Content(v)
            /\ \A k \in DOMAIN Content(u) : Meaning(Content(u)[k]) = Meaning(Content(v)[k])
        BY <1>2, <2>7, <3>1, PartsSayTheSame
      <3>3. \A k \in DOMAIN Content(u) : EncodeJson(Content(u)[k]) = EncodeJson(Content(v)[k])
        <4> TAKE k \in DOMAIN Content(u)
        <4>1. HasPart(u, Content(u)[k]) /\ HasPart(v, Content(v)[k])
          BY <2>7, <3>1, <3>2 DEF HasPart
        <4> QED
          BY <2>1, <3>2, <4>1
      <3>4. ~IsNumber(u) /\ ~IsNumber(v)
        BY <2>7, <3>1 DEF IsPrimitive, IsNumber
      <3>5. CASE IsArray(u)
        <4>1. IsArray(v)
          BY <2>2, <3>5 DEF IsArray
        <4>2. Size(u) = Size(v)
          <5>1. DOMAIN Content(u) = 1 .. Size(u) /\ DOMAIN Content(v) = 1 .. Size(v)
                /\ Size(u) \in Nat /\ Size(v) \in Nat
            BY <3>5, <4>1, ValueIs, ListHas DEF Size
          <5>2. 1 .. Size(u) = 1 .. Size(v)
            BY <3>2, <5>1
          <5> QED
            BY <5>1, <5>2
        <4>3. HeadOf(u) = HeadOf(v)
          BY <3>5, <4>1, <4>2, HeadTells
        <4>4. PartsOf(u) = PartsOf(v)
          BY <2>7, <3>1, <3>2, <3>3, <3>5, <4>1 DEF PartsOf
        <4> QED
          BY <4>3, <4>4
      <3>6. CASE ~IsArray(u)
        <4>1. ~IsArray(v)
          BY <2>2, <3>6 DEF IsArray
        <4>2. KeysOf(u) = KeysOf(v)
          BY <3>2 DEF KeysOf
        <4>3. HeadOf(u) = HeadOf(v)
          BY <2>7, <3>1, <3>4, <3>6, <4>1, <4>2 DEF HeadOf
        <4> DEFINE keys == KeysOf(u)
        <4>4. \A i \in DOMAIN keys : keys[i] \in DOMAIN Content(u)
          <5>1. DOMAIN Content(u) \in SUBSET Range(KeyOrder)
            BY <2>7, <3>6, ValueIs
          <5> QED
            BY <5>1, SortedKeysAre DEF KeysOf
        <4>5. \A i \in DOMAIN keys : EncodeJson(Content(u)[keys[i]]) = EncodeJson(Content(v)[keys[i]])
          BY <3>3, <4>4
        <4>6. PartsOf(u) = [i \in DOMAIN keys |->
                                Joined(<<JsonString(keys[i])>>, EncodeJson(Content(u)[keys[i]]))]
          BY <2>7, <3>6 DEF PartsOf
        <4>7. PartsOf(v) = [i \in DOMAIN keys |->
                                Joined(<<JsonString(keys[i])>>, EncodeJson(Content(v)[keys[i]]))]
          BY <3>1, <4>1, <4>2 DEF PartsOf
        <4> HIDE DEF keys
        <4>8. PartsOf(u) = PartsOf(v)
          BY <4>5, <4>6, <4>7
        <4> QED
          BY <4>3, <4>8
      <3> QED
        BY <3>5, <3>6
    <2> QED
      BY <2>5, <2>6, <2>7
  <1>3. \A u, v \in DOMAIN Nesting :
            (\A x, y : HasPart(u, x) /\ HasPart(v, y) => <<x, y>> \in S) => <<u, v>> \in S
    BY <1>1, <1>2 DEF Alike
  <1>4. \A u, v \in DOMAIN Nesting : <<u, v>> \in S
    BY <1>3, PartsByParts
  <1> QED
    BY <1>1, <1>4 DEF Alike

\* Whatever follows, what is encoded as u is told from what is encoded as v if
\* they do not say the same.
Tells(u, v) ==
    /\ Separate(EncodeJson(u), EncodeJson(v))
    /\ EncodeJson(u) = EncodeJson(v) => Meaning(u) = Meaning(v)

\* How an encoding goes on once it has begun.
LEMMA EncodingsGoOn ==
  ASSUME AreConversions, NEW u \in DOMAIN Nesting, NEW v \in DOMAIN Nesting,
         NEW s, IsList(s), NEW t, IsList(t),
         Joined(EncodeJson(u), s) = Joined(EncodeJson(v), t)
  PROVE  /\ HeadOf(u) = HeadOf(v)
         /\ Joined(FlattenSeq(PartsOf(u)), s) = Joined(FlattenSeq(PartsOf(v)), t)
  <1> DEFINE a == <<HeadOf(u)>>
             b == <<HeadOf(v)>>
             f == FlattenSeq(PartsOf(u))
             g == FlattenSeq(PartsOf(v))
  <1>1. EncodeJson(u) = Joined(a, f) /\ EncodeJson(v) = Joined(b, g)
    BY EncodeIs
  <1>2. ASSUME NEW w \in DOMAIN Nesting PROVE IsList(FlattenSeq(PartsOf(w)))
    <2>1. \A x : HasPart(w, x) => IsList(EncodeJson(x))
      BY EncodingIsList, PartIsLess
    <2>2. IsList(PartsOf(w)) /\ \A i \in 1 .. Len(PartsOf(w)) : IsList(PartsOf(w)[i])
      BY <2>1, PartsAre
    <2> QED
      BY <2>2, FlattenIsList
  <1>3. IsList(a) /\ IsList(b) /\ IsList(f) /\ IsList(g)
    BY <1>2, OneIsList
  <1>4. IsList(Joined(f, s)) /\ IsList(Joined(g, t))
    <2> HIDE DEF a, b, f, g
    <2> QED
      BY <1>3, JoinIs
  <1>5. Joined(a, Joined(f, s)) = Joined(b, Joined(g, t))
    <2> HIDE DEF a, b, f, g
    <2>1. Joined(Joined(a, f), s) = Joined(Joined(b, g), t)
      BY <1>1
    <2>2. Joined(Joined(a, f), s) = Joined(a, Joined(f, s))
      BY <1>3, JoinAssociates
    <2>3. Joined(Joined(b, g), t) = Joined(b, Joined(g, t))
      BY <1>3, JoinAssociates
    <2> QED
      BY <2>1, <2>2, <2>3
  <1> HIDE DEF f, g
  <1> QED
    BY <1>4, <1>5, HeadCancels DEF f, g

-----------------------------------------------------------------------------
(* Values that are encoded alike say the same                              *)

\* Parts that tell their values tell the values they are parts of.
LEMMA ArraysTell ==
  ASSUME AreConversions, NEW u \in DOMAIN Nesting, NEW v \in DOMAIN Nesting,
         IsArray(u), IsArray(v), Size(u) = Size(v),
         \A x, y : HasPart(u, x) /\ HasPart(v, y) => Tells(x, y),
         NEW s, IsList(s), NEW t, IsList(t),
         Joined(FlattenSeq(PartsOf(u)), s) = Joined(FlattenSeq(PartsOf(v)), t)
  PROVE  PartsOf(u) = PartsOf(v) /\ Meaning(u) = Meaning(v)
  <1>1. \A w \in DOMAIN Nesting : \A x : HasPart(w, x) => IsList(EncodeJson(x))
    BY EncodingIsList, PartIsLess
  <1> DEFINE p == PartsOf(u)
             q == PartsOf(v)
  <1>2. /\ IsList(p) /\ (\A i \in 1 .. Len(p) : IsList(p[i])) /\ Len(p) = Size(u)
        /\ \A i \in 1 .. Size(u) : HasPart(u, Content(u)[i]) /\ p[i] = EncodeJson(Content(u)[i])
    BY <1>1, PartsAre
  <1>3. /\ IsList(q) /\ (\A i \in 1 .. Len(q) : IsList(q[i])) /\ Len(q) = Size(v)
        /\ \A i \in 1 .. Size(v) : HasPart(v, Content(v)[i]) /\ q[i] = EncodeJson(Content(v)[i])
    BY <1>1, PartsAre
  <1>4. \A i \in 1 .. Size(u) : Tells(Content(u)[i], Content(v)[i])
    BY <1>2, <1>3
  <1> HIDE DEF p, q
  <1>5. \A i \in 1 .. Len(p) : Separate(p[i], q[i])
    BY <1>2, <1>3, <1>4 DEF Tells
  <1>6. Len(p) = Len(q)
    BY <1>2, <1>3
  <1>7. Joined(FlattenSeq(p), s) = Joined(FlattenSeq(q), t)
    BY DEF p, q
  <1>8. p = q
    <2>1. IsList(p) /\ \A i \in 1 .. Len(p) : IsList(p[i])
      BY <1>2
    <2>2. IsList(q) /\ \A i \in 1 .. Len(q) : IsList(q[i])
      BY <1>3
    <2> QED
      BY <1>5, <1>6, <1>7, <2>1, <2>2, FlattenCancels
  <1>9. \A i \in 1 .. Size(u) : Meaning(Content(u)[i]) = Meaning(Content(v)[i])
    BY <1>2, <1>3, <1>4, <1>8 DEF Tells
  <1>10. ~IsPrimitive(u) /\ ~IsPrimitive(v) /\ KindOf(u) = KindOf(v)
         /\ DOMAIN Content(u) = 1 .. Size(u) /\ DOMAIN Content(v) = 1 .. Size(v)
    BY ValueIs DEF IsArray
  <1>11. Meaning(u) = Meaning(v)
    <2>1. DOMAIN Content(u) = DOMAIN Content(v)
      BY <1>10
    <2>2. \A k \in DOMAIN Content(u) : Meaning(Content(u)[k]) = Meaning(Content(v)[k])
      BY <1>9, <1>10
    <2> QED
      BY <1>10, <2>1, <2>2, PartsSayTheSame
  <1> QED
    BY <1>8, <1>11 DEF p, q

\* A key and what it stands for are told by what encodes them.
LEMMA MembersTell ==
  ASSUME NEW k, NEW l, NEW e, IsList(e), NEW f, IsList(f), Separate(e, f)
  PROVE  /\ Separate(Joined(<<JsonString(k)>>, e), Joined(<<JsonString(l)>>, f))
         /\ Joined(<<JsonString(k)>>, e) = Joined(<<JsonString(l)>>, f) => k = l /\ e = f
  <1> DEFINE a == JsonString(k)
             b == JsonString(l)
  <1>1. a = b => k = l
    BY DEF JsonString
  <1> HIDE DEF a, b
  <1>2. IsList(<<a>>) /\ IsList(<<b>>)
    BY OneIsList
  <1>3. Joined(<<a>>, e) = Joined(<<b>>, f) => k = l /\ e = f
    BY <1>1, HeadCancels
  <1>4. ASSUME NEW s, IsList(s), NEW t, IsList(t),
               Joined(Joined(<<a>>, e), s) = Joined(Joined(<<b>>, f), t)
        PROVE  Joined(<<a>>, e) = Joined(<<b>>, f)
    <2>1. Joined(Joined(<<a>>, e), s) = Joined(<<a>>, Joined(e, s))
      BY <1>2, <1>4, JoinAssociates
    <2>2. Joined(Joined(<<b>>, f), t) = Joined(<<b>>, Joined(f, t))
      BY <1>2, <1>4, JoinAssociates
    <2>3. IsList(Joined(e, s)) /\ IsList(Joined(f, t))
      BY <1>4, JoinIs
    <2>4. Joined(<<a>>, Joined(e, s)) = Joined(<<b>>, Joined(f, t))
      BY <1>4, <2>1, <2>2
    <2>5. a = b /\ Joined(e, s) = Joined(f, t)
      BY <2>3, <2>4, HeadCancels
    <2>6. e = f
      BY <1>4, <2>5 DEF Separate
    <2> QED
      BY <2>5, <2>6
  <1> QED
    BY <1>3, <1>4 DEF Separate, a, b

\* The same for two objects with the same number of members.
LEMMA ObjectsTell ==
  ASSUME AreConversions, NEW u \in DOMAIN Nesting, NEW v \in DOMAIN Nesting,
         KindOf(u) = "object", KindOf(v) = "object", Len(KeysOf(u)) = Len(KeysOf(v)),
         \A x, y : HasPart(u, x) /\ HasPart(v, y) => Tells(x, y),
         NEW s, IsList(s), NEW t, IsList(t),
         Joined(FlattenSeq(PartsOf(u)), s) = Joined(FlattenSeq(PartsOf(v)), t)
  PROVE  PartsOf(u) = PartsOf(v) /\ Meaning(u) = Meaning(v)
  <1>1. \A w \in DOMAIN Nesting : \A x : HasPart(w, x) => IsList(EncodeJson(x))
    BY EncodingIsList, PartIsLess
  <1> DEFINE p == PartsOf(u)
             q == PartsOf(v)
             k == KeysOf(u)
             l == KeysOf(v)
             U(name) == Content(u)[name]
             V(name) == Content(v)[name]
  <1>2. /\ IsList(p) /\ (\A i \in 1 .. Len(p) : IsList(p[i])) /\ Len(p) = Len(k) /\ IsList(k)
        /\ \A i \in 1 .. Len(k) : /\ k[i] \in DOMAIN Content(u) /\ HasPart(u, U(k[i]))
                                  /\ p[i] = Joined(<<JsonString(k[i])>>, EncodeJson(U(k[i])))
        /\ \A name \in DOMAIN Content(u) : \E i \in 1 .. Len(k) : k[i] = name
    BY <1>1, PartsAre
  <1>3. /\ IsList(q) /\ (\A i \in 1 .. Len(q) : IsList(q[i])) /\ Len(q) = Len(l) /\ IsList(l)
        /\ \A i \in 1 .. Len(l) : /\ l[i] \in DOMAIN Content(v) /\ HasPart(v, V(l[i]))
                                  /\ q[i] = Joined(<<JsonString(l[i])>>, EncodeJson(V(l[i])))
        /\ \A name \in DOMAIN Content(v) : \E i \in 1 .. Len(l) : l[i] = name
    BY <1>1, PartsAre
  <1>4. Len(k) = Len(l) /\ Joined(FlattenSeq(p), s) = Joined(FlattenSeq(q), t)
    OBVIOUS
  <1>5. ~IsPrimitive(u) /\ ~IsPrimitive(v)
    BY ValueIs
  <1> HIDE DEF p, q, k, l
  <1>6. \A i \in 1 .. Len(k) : /\ Tells(U(k[i]), V(l[i]))
                               /\ IsList(EncodeJson(U(k[i]))) /\ IsList(EncodeJson(V(l[i])))
    BY <1>1, <1>2, <1>3, <1>4
  <1> HIDE DEF U, V
  <1>7. \A i \in 1 .. Len(k) : /\ Separate(p[i], q[i])
                               /\ p[i] = q[i] => k[i] = l[i] /\ EncodeJson(U(k[i])) = EncodeJson(V(l[i]))
    <2> TAKE i \in 1 .. Len(k)
    <2> DEFINE e == EncodeJson(U(k[i]))
               f == EncodeJson(V(l[i]))
    <2>1. p[i] = Joined(<<JsonString(k[i])>>, e) /\ q[i] = Joined(<<JsonString(l[i])>>, f)
      BY <1>2, <1>3, <1>4
    <2>2. IsList(e) /\ IsList(f) /\ Separate(e, f)
      BY <1>6 DEF Tells
    <2> HIDE DEF e, f
    <2>3. /\ Separate(Joined(<<JsonString(k[i])>>, e), Joined(<<JsonString(l[i])>>, f))
          /\ Joined(<<JsonString(k[i])>>, e) = Joined(<<JsonString(l[i])>>, f) => k[i] = l[i] /\ e = f
      BY <2>2, MembersTell
    <2> QED
      BY <2>1, <2>3 DEF e, f
  <1>8. p = q
    <2>1. \A i \in 1 .. Len(p) : Separate(p[i], q[i])
      BY <1>2, <1>7
    <2>2. Len(p) = Len(q)
      BY <1>2, <1>3, <1>4
    <2> QED
      BY <1>2, <1>3, <1>4, <2>1, <2>2, FlattenCancels
  <1>9. \A i \in 1 .. Len(k) : k[i] = l[i] /\ Meaning(U(k[i])) = Meaning(V(k[i]))
    <2> TAKE i \in 1 .. Len(k)
    <2>1. k[i] = l[i] /\ EncodeJson(U(k[i])) = EncodeJson(V(l[i]))
      BY <1>7, <1>8
    <2>2. Meaning(U(k[i])) = Meaning(V(l[i]))
      BY <1>6, <2>1 DEF Tells
    <2> QED
      BY <2>1, <2>2
  <1>10. DOMAIN Content(u) = DOMAIN Content(v)
    <2>1. \A name \in DOMAIN Content(u) : name \in DOMAIN Content(v)
      <3> TAKE name \in DOMAIN Content(u)
      <3>1. PICK i \in 1 .. Len(k) : k[i] = name
        BY <1>2
      <3>2. l[i] = name /\ l[i] \in DOMAIN Content(v)
        BY <1>3, <1>4, <1>9, <3>1
      <3> QED
        BY <3>2
    <2>2. \A name \in DOMAIN Content(v) : name \in DOMAIN Content(u)
      <3> TAKE name \in DOMAIN Content(v)
      <3>1. PICK i \in 1 .. Len(l) : l[i] = name
        BY <1>3
      <3>2. k[i] = name /\ k[i] \in DOMAIN Content(u)
        BY <1>2, <1>4, <1>9, <3>1
      <3> QED
        BY <3>2
    <2> QED
      BY <2>1, <2>2
  <1>11. \A name \in DOMAIN Content(u) : Meaning(Content(u)[name]) = Meaning(Content(v)[name])
    BY <1>2, <1>9 DEF U, V
  <1>12. Meaning(u) = Meaning(v)
    BY <1>5, <1>10, <1>11, PartsSayTheSame
  <1> QED
    BY <1>8, <1>12 DEF p, q

\* No encoding begins another, and values encoded alike say the same.
LEMMA CodesTell ==
  ASSUME AreConversions
  PROVE  \A u, v \in DOMAIN Nesting : Tells(u, v)
  <1> DEFINE S == {p \in (DOMAIN Nesting) \X (DOMAIN Nesting) :
                      \A u, v : p = <<u, v>> => Tells(u, v)}
  <1>1. \A u, v \in DOMAIN Nesting : (<<u, v>> \in S => Tells(u, v)) /\ (Tells(u, v) => <<u, v>> \in S)
    <2> TAKE u, v \in DOMAIN Nesting
    <2>1. <<u, v>> \in (DOMAIN Nesting) \X (DOMAIN Nesting)
      OBVIOUS
    <2>2. ASSUME <<u, v>> \in S PROVE Tells(u, v)
      BY <2>2
    <2>3. ASSUME Tells(u, v) PROVE <<u, v>> \in S
      <3>1. \A a, b : <<u, v>> = <<a, b>> => Tells(a, b)
        <4> TAKE a, b
        <4>1. <<u, v>> = <<a, b>> => a = u /\ b = v
          OBVIOUS
        <4> QED
          BY <2>3, <4>1
      <3> QED
        BY <2>1, <3>1
    <2> QED
      BY <2>2, <2>3
  <1> HIDE DEF S
  <1>2. ASSUME NEW u \in DOMAIN Nesting, NEW v \in DOMAIN Nesting,
               \A x, y : HasPart(u, x) /\ HasPart(v, y) => <<x, y>> \in S,
               NEW s, IsList(s), NEW t, IsList(t),
               Joined(EncodeJson(u), s) = Joined(EncodeJson(v), t)
        PROVE  EncodeJson(u) = EncodeJson(v) /\ Meaning(u) = Meaning(v)
    <2>1. \A x, y : HasPart(u, x) /\ HasPart(v, y) => Tells(x, y)
      BY <1>1, <1>2, PartIsLess
    <2>2. /\ HeadOf(u) = HeadOf(v)
          /\ Joined(FlattenSeq(PartsOf(u)), s) = Joined(FlattenSeq(PartsOf(v)), t)
      BY <1>2, EncodingsGoOn
    <2>3. SUFFICES PartsOf(u) = PartsOf(v) /\ Meaning(u) = Meaning(v)
      BY <2>2, EncodeIs
    <2>4. CASE IsNumber(u)
      <3>1. HeadOf(v)[1] \in {"integer", "double"}
        BY <2>2, <2>4, HeadTells
      <3>2. ~IsArray(v) /\ KindOf(v) # "object"
        BY <3>1, HeadTells
      <3>3. IsPrimitive(v)
        BY <3>2, ValueIs
      <3>4. IsNumber(v)
        BY <3>1, <3>3, HeadTells
      <3>5. IsPrimitive(u) /\ Content(u) \in Numbers /\ Content(v) \in Numbers
        BY <2>4, <3>4, ValueIs
      <3>6. NumberCode(Content(u)) = NumberCode(Content(v))
        BY <2>2, <2>4, <3>4 DEF HeadOf
      <3>7. SaidBy(Content(u)) = SaidBy(Content(v))
        BY <3>5, <3>6, NumbersAreCoded
      <3>8. Meaning(u) = Meaning(v)
        BY <2>4, <3>4, <3>7, MeaningIs
      <3>9. PartsOf(u) = PartsOf(v)
        BY <3>3, <3>5 DEF PartsOf
      <3> QED
        BY <3>8, <3>9
    <2>5. CASE IsPrimitive(u) /\ ~IsNumber(u)
      <3>1. HeadOf(u) = u /\ HeadOf(v)[1] \in {"null", "boolean", "string"}
        BY <2>2, <2>5, HeadTells
      <3>2. ~IsArray(v) /\ KindOf(v) # "object" /\ ~IsNumber(v)
        BY <3>1, HeadTells
      <3>3. IsPrimitive(v)
        BY <3>2, ValueIs
      <3>4. HeadOf(v) = v
        BY <3>2, <3>3, HeadTells
      <3> QED
        BY <2>2, <3>1, <3>4
    <2>6. CASE IsArray(u)
      <3>1. HeadOf(u) = <<"array", Size(u)>> /\ HeadOf(v)[1] = "array"
        BY <2>2, <2>6, HeadTells
      <3>2. KindOf(v) # "object" /\ ~(IsPrimitive(v) /\ ~IsNumber(v)) /\ ~IsNumber(v)
        BY <3>1, HeadTells
      <3>3. IsArray(v)
        BY <3>2, ValueIs
      <3>4. HeadOf(v) = <<"array", Size(v)>>
        BY <3>3, HeadTells
      <3>5. Size(u) = Size(v)
        <4>1. HeadOf(u)[2] = Size(u)
          BY <3>1
        <4>2. HeadOf(v)[2] = Size(v)
          BY <3>4
        <4> QED
          BY <2>2, <4>1, <4>2
      <3> QED
        BY <1>2, <2>1, <2>2, <2>6, <3>3, <3>5, ArraysTell
    <2>7. CASE KindOf(u) = "object"
      <3>1. HeadOf(u) = <<"map", Len(KeysOf(u))>> /\ HeadOf(v)[1] = "map"
        BY <2>2, <2>7, HeadTells
      <3>2. ~IsArray(v) /\ ~(IsPrimitive(v) /\ ~IsNumber(v)) /\ ~IsNumber(v)
        BY <3>1, HeadTells
      <3>3. KindOf(v) = "object"
        BY <3>2, ValueIs
      <3>4. HeadOf(v) = <<"map", Len(KeysOf(v))>>
        BY <3>3, HeadTells
      <3>5. Len(KeysOf(u)) = Len(KeysOf(v))
        <4>1. HeadOf(u)[2] = Len(KeysOf(u))
          BY <3>1
        <4>2. HeadOf(v)[2] = Len(KeysOf(v))
          BY <3>4
        <4> QED
          BY <2>2, <4>1, <4>2
      <3> QED
        BY <1>2, <2>1, <2>2, <2>7, <3>3, <3>5, ObjectsTell
    <2> QED
      BY <2>4, <2>5, <2>6, <2>7, ValueIs
  <1>3. ASSUME NEW u \in DOMAIN Nesting, NEW v \in DOMAIN Nesting,
               \A x, y : HasPart(u, x) /\ HasPart(v, y) => <<x, y>> \in S
        PROVE  <<u, v>> \in S
    <2>1. \A s, t : IsList(s) /\ IsList(t) /\ Joined(EncodeJson(u), s) = Joined(EncodeJson(v), t)
                        => EncodeJson(u) = EncodeJson(v) /\ Meaning(u) = Meaning(v)
      BY <1>2, <1>3
    <2>2. Separate(EncodeJson(u), EncodeJson(v))
      BY <2>1 DEF Separate
    <2>3. ASSUME EncodeJson(u) = EncodeJson(v) PROVE Meaning(u) = Meaning(v)
      BY <2>1, <2>3, NothingFlattened
    <2> QED
      BY <1>1, <2>2, <2>3 DEF Tells
  <1>4. \A u, v \in DOMAIN Nesting : <<u, v>> \in S
    BY <1>3, PartsByParts
  <1> QED
    BY <1>1, <1>4

\* The encoding is canonical: values are encoded alike just if they say the same.
THEOREM EncodingIsCanonical ==
  ASSUME AreConversions, NEW u \in DOMAIN Nesting, NEW v \in DOMAIN Nesting
  PROVE  EncodeJson(u) = EncodeJson(v) <=> Meaning(u) = Meaning(v)
  BY CodesTell, SameMeaningSameCode DEF Tells

-----------------------------------------------------------------------------
(* Conversions to and from openfeature::Value                              *)

Nested == {"array", "object"}

\* A value that is made of others.
LEMMA MadeOf ==
  ASSUME NEW kind \in Nested, NEW content
  PROVE  LET value == <<kind, content>>
         IN  /\ KindOf(value) = kind /\ Content(value) = content
             /\ ~IsPrimitive(value) /\ ~IsNumber(value)
  BY DEF Nested, KindOf, Content, IsPrimitive, IsNumber

\* What is converted part by part is encoded as it was if its parts are.
LEMMA EncodedByParts ==
  ASSUME AreConversions, NEW v \in DOMAIN Nesting, ~IsPrimitive(v), NEW f,
         DOMAIN f = DOMAIN Content(v), f = [k \in DOMAIN f |-> f[k]],
         \A k \in DOMAIN f : EncodeJson(f[k]) = EncodeJson(Content(v)[k])
  PROVE  EncodeJson(<<KindOf(v), f>>) = EncodeJson(v)
  <1> DEFINE w == <<KindOf(v), f>>
  <1>1. KindOf(v) \in Nested
    BY DEF IsPrimitive, Nested
  <1>2. KindOf(w) = KindOf(v) /\ Content(w) = f /\ ~IsPrimitive(w) /\ ~IsNumber(w)
    BY <1>1, MadeOf
  <1> HIDE DEF w
  <1>3. ~IsNumber(v) /\ (IsArray(w) <=> IsArray(v))
    BY <1>2 DEF IsNumber, IsPrimitive, IsArray
  <1>4. EncodeJson(w) = EncodeOnce(w) /\ EncodeJson(v) = EncodeOnce(v)
    BY DEF AreConversions
  <1>5. CASE IsArray(v)
    <2>1. /\ IsList(Content(v)) /\ DOMAIN f = 1 .. Size(v) /\ Size(v) \in Nat
      BY <1>5, ValueIs, ListHas DEF Size
    <2>2. f = [k \in 1 .. Size(v) |-> f[k]]
      BY <2>1
    <2>3. Len(f) = Size(v)
      BY <2>1, <2>2, ListIs
    <2>4. Size(w) = Size(v)
      BY <1>2, <2>3 DEF Size
    <2>5. [i \in DOMAIN Content(w) |-> EncodeJson(Content(w)[i])]
             = [i \in DOMAIN Content(v) |-> EncodeJson(Content(v)[i])]
      BY <1>2
    <2>6. EncodeOnce(w) = << <<"array", Size(w)>> >>
                          \o FlattenSeq([i \in DOMAIN Content(w) |-> EncodeJson(Content(w)[i])])
      BY <1>2, <1>3, <1>5 DEF EncodeOnce
    <2>7. EncodeOnce(v) = << <<"array", Size(v)>> >>
                          \o FlattenSeq([i \in DOMAIN Content(v) |-> EncodeJson(Content(v)[i])])
      BY <1>3, <1>5 DEF EncodeOnce
    <2> QED
      BY <1>4, <2>4, <2>5, <2>6, <2>7 DEF w
  <1>6. CASE ~IsArray(v)
    <2> DEFINE keys == SortedKeys(DOMAIN Content(v))
    <2>1. DOMAIN Content(v) \in SUBSET Range(KeyOrder)
      BY <1>6, ValueIs
    <2>2. \A i \in DOMAIN keys : keys[i] \in DOMAIN f
      BY <2>1, SortedKeysAre
    <2>3. EncodeOnce(v) = << <<"map", Len(keys)>> >>
             \o FlattenSeq([i \in DOMAIN keys |->
                    <<JsonString(keys[i])>> \o EncodeJson(Content(v)[keys[i]])])
      BY <1>3, <1>6 DEF EncodeOnce
    <2>4. SortedKeys(DOMAIN Content(w)) = keys
      BY <1>2
    <2>5. EncodeOnce(w) = << <<"map", Len(keys)>> >>
             \o FlattenSeq([i \in DOMAIN keys |->
                    <<JsonString(keys[i])>> \o EncodeJson(f[keys[i]])])
      BY <1>2, <1>3, <1>6, <2>4 DEF EncodeOnce
    <2> HIDE DEF keys
    <2>6. [i \in DOMAIN keys |-> <<JsonString(keys[i])>> \o EncodeJson(f[keys[i]])]
             = [i \in DOMAIN keys |-> <<JsonString(keys[i])>> \o EncodeJson(Content(v)[keys[i]])]
      BY <2>2
    <2> QED
      BY <1>4, <2>3, <2>5, <2>6 DEF w
  <1> QED
    BY <1>5, <1>6

\* What a value that fits is converted to has its kind, is encoded as it is and
\* is itself if it is no number and has no parts.
LEMMA ValueToJsonIs ==
  ASSUME AreConversions
  PROVE  \A v \in DOMAIN Nesting : FitsThroughout(v) =>
            /\ KindOf(ValueToJson(v)) = KindOf(v)
            /\ EncodeJson(ValueToJson(v)) = EncodeJson(v)
            /\ IsPrimitive(v) /\ ~IsNumber(v) => ValueToJson(v) = v
  <1> DEFINE S == {v \in DOMAIN Nesting : FitsThroughout(v) =>
                      EncodeJson(ValueToJson(v)) = EncodeJson(v)}
  <1>1. ASSUME NEW v \in DOMAIN Nesting
        PROVE  /\ ValueToJson(v) = ValueToJsonOnce(v) /\ FitsThroughout(v) = FitsOnce(v)
               /\ \A w : EncodeJson(w) = EncodeOnce(w)
    BY DEF AreConversions
  <1>2. ASSUME NEW v \in DOMAIN Nesting, FitsThroughout(v), IsNumber(v)
        PROVE  KindOf(ValueToJson(v)) = KindOf(v) /\ EncodeJson(ValueToJson(v)) = EncodeJson(v)
    <2> DEFINE number == Content(v)
    <2>1. number \in Numbers
      BY <1>2, ValueIs
    <2>2. IsFloat(number) \/ FitsSigned(number)
      BY <1>1, <1>2 DEF FitsOnce
    <2>3. PICK same \in Numbers : NumberToJson(number) = JsonNumber(same) /\ SaidBy(same) = SaidBy(number)
      BY <2>1, <2>2, NumberToJsonIs
    <2>4. ValueToJson(v) = JsonNumber(same)
      BY <1>1, <1>2, <2>3 DEF ValueToJsonOnce
    <2>5. KindOf(JsonNumber(same)) = "number" /\ Content(JsonNumber(same)) = same /\ IsNumber(JsonNumber(same))
      BY DEF JsonNumber, KindOf, Content, IsNumber
    <2>6. EncodeJson(JsonNumber(same)) = EncodeNumber(same) /\ EncodeJson(v) = EncodeNumber(number)
      BY <1>1, <1>2, <2>5 DEF EncodeOnce
    <2>7. NumberCode(same) = NumberCode(number)
      BY <2>1, <2>3, NumbersAreCoded
    <2>8. EncodeNumber(same) = EncodeNumber(number)
      BY <2>7, EncodeNumberIs
    <2> QED
      BY <1>2, <2>4, <2>5, <2>6, <2>8 DEF IsNumber
  <1>3. ASSUME NEW v \in DOMAIN Nesting, IsPrimitive(v), ~IsNumber(v)
        PROVE  ValueToJson(v) = v
    BY <1>1, <1>3 DEF ValueToJsonOnce
  <1>4. ASSUME NEW v \in DOMAIN Nesting, ~IsPrimitive(v)
        PROVE  /\ KindOf(ValueToJson(v)) = KindOf(v)
               /\ ValueToJson(v) = <<KindOf(v), [k \in DOMAIN Content(v) |-> ValueToJson(Content(v)[k])]>>
    <2>1. ~IsNumber(v) /\ KindOf(v) \in Nested
      BY <1>4 DEF IsNumber, IsPrimitive, Nested
    <2>2. ValueToJson(v) = <<KindOf(v), [k \in DOMAIN Content(v) |-> ValueToJson(Content(v)[k])]>>
      BY <1>1, <1>4, <2>1 DEF ValueToJsonOnce
    <2> QED
      BY <2>1, <2>2, MadeOf
  <1>5. ASSUME NEW v \in DOMAIN Nesting, \A w : HasPart(v, w) => w \in S PROVE v \in S
    <2>1. CASE IsNumber(v)
      BY <1>2, <2>1
    <2>2. CASE IsPrimitive(v) /\ ~IsNumber(v)
      BY <1>3, <2>2
    <2>3. CASE ~IsPrimitive(v)
      <3>1. SUFFICES ASSUME FitsThroughout(v) PROVE EncodeJson(ValueToJson(v)) = EncodeJson(v)
        OBVIOUS
      <3> DEFINE f == [k \in DOMAIN Content(v) |-> ValueToJson(Content(v)[k])]
      <3>2. \A k \in DOMAIN Content(v) : FitsThroughout(Content(v)[k])
        BY <1>1, <2>3, <3>1 DEF FitsOnce, IsNumber, IsPrimitive
      <3>3. \A k \in DOMAIN Content(v) : EncodeJson(ValueToJson(Content(v)[k])) = EncodeJson(Content(v)[k])
        BY <1>5, <2>3, <3>2 DEF HasPart
      <3>4. /\ DOMAIN f = DOMAIN Content(v) /\ f = [k \in DOMAIN f |-> f[k]]
            /\ \A k \in DOMAIN f : EncodeJson(f[k]) = EncodeJson(Content(v)[k])
        BY <3>3
      <3>5. ValueToJson(v) = <<KindOf(v), f>>
        BY <1>4, <2>3
      <3> HIDE DEF f
      <3>6. EncodeJson(<<KindOf(v), f>>) = EncodeJson(v)
        BY <2>3, <3>4, EncodedByParts
      <3> QED
        BY <3>5, <3>6
    <2> QED
      BY <2>1, <2>2, <2>3
  <1> HIDE DEF S
  <1>6. \A v \in DOMAIN Nesting : v \in S
    BY <1>5, PartByPart
  <1> TAKE v \in DOMAIN Nesting
  <1> HAVE FitsThroughout(v)
  <1>7. EncodeJson(ValueToJson(v)) = EncodeJson(v)
    BY <1>6 DEF S
  <1>8. KindOf(ValueToJson(v)) = KindOf(v)
    BY <1>2, <1>3, <1>4
  <1> QED
    BY <1>3, <1>7, <1>8

\* What a flag was evaluated to comes back to say what it said, if it fits.
THEOREM ValuesComeBack ==
  ASSUME AreConversions
  PROVE  \A v \in DOMAIN Nesting :
            FitsThroughout(v) => Meaning(ValueToJson(JsonToValue(v))) = Meaning(v)
  <1> DEFINE S == {v \in DOMAIN Nesting :
                      FitsThroughout(v) => Meaning(ValueToJson(JsonToValue(v))) = Meaning(v)}
  <1>1. \A w : /\ JsonToValue(w) = JsonToValueOnce(w) /\ ValueToJson(w) = ValueToJsonOnce(w)
               /\ FitsThroughout(w) = FitsOnce(w)
    BY DEF AreConversions
  <1>2. ASSUME NEW v \in DOMAIN Nesting, \A w : HasPart(v, w) => w \in S, FitsThroughout(v)
        PROVE  Meaning(ValueToJson(JsonToValue(v))) = Meaning(v)
    <2>1. CASE IsNumber(v)
      <3> DEFINE number == Content(v)
                 kept == IF IsFloat(number) THEN number ELSE Signed(number.value)
      <3>1. number \in Numbers /\ IsPrimitive(v)
        BY <2>1, ValueIs
      <3>2. IsFloat(number) \/ FitsSigned(number)
        BY <1>1, <1>2, <2>1 DEF FitsOnce
      <3>3. v = JsonNumber(number)
        BY <2>1, NestingAssumption DEF IsWellFormed, JsonNumber, IsNumber, JsonNull, KindOf
      <3>4. JsonToValue(v) = JsonNumber(kept)
        <4>1. CASE IsFloat(number)
          BY <1>1, <3>1, <3>3, <4>1 DEF JsonToValueOnce, IsInteger
        <4>2. CASE ~IsFloat(number)
          <5>1. ToSigned(number.value) = number.value
            BY <3>1, <3>2, <4>2, NumberValues, RoundingAssumption
               DEF RoundingAssumption, ToSigned, FitsSigned, SignedValues, IsFloat
          <5> QED
            BY <1>1, <2>1, <3>1, <4>2, <5>1 DEF JsonToValueOnce, IsInteger, AsInt64
        <4> QED
          BY <4>1, <4>2
      <3>5. kept \in Numbers /\ (IsFloat(kept) \/ FitsSigned(kept)) /\ SaidBy(kept) = SaidBy(number)
        <4>1. CASE IsFloat(number)
          BY <3>1, <4>1
        <4>2. CASE ~IsFloat(number)
          <5>1. number.value \in SignedValues
            BY <3>1, <3>2, <4>2, NumberValues, RoundingAssumption
               DEF RoundingAssumption, FitsSigned, SignedValues, UnsignedValues, IsFloat
          <5> QED
            BY <4>2, <5>1 DEF Signed, Numbers, FitsSigned, SaidBy, IsFloat
        <4> QED
          BY <4>1, <4>2
      <3> HIDE DEF kept
      <3>6. PICK same \in Numbers : NumberToJson(kept) = JsonNumber(same) /\ SaidBy(same) = SaidBy(kept)
        BY <3>5, NumberToJsonIs
      <3>7. ASSUME NEW n PROVE IsNumber(JsonNumber(n)) /\ Content(JsonNumber(n)) = n
        BY DEF JsonNumber, IsNumber, KindOf, Content
      <3>8. ValueToJson(JsonNumber(kept)) = JsonNumber(same)
        BY <1>1, <3>6, <3>7 DEF ValueToJsonOnce
      <3>9. Meaning(JsonNumber(same)) = <<"number", SaidBy(same)>> /\ Meaning(v) = <<"number", SaidBy(number)>>
        BY <2>1, <3>7, MeaningIs
      <3> QED
        BY <3>4, <3>5, <3>6, <3>8, <3>9
    <2>2. CASE IsPrimitive(v) /\ ~IsNumber(v)
      <3>1. JsonToValue(v) = v
        BY <1>1, <2>2 DEF JsonToValueOnce, IsInteger
      <3>2. ValueToJson(v) = v
        BY <1>1, <2>2 DEF ValueToJsonOnce
      <3> QED
        BY <3>1, <3>2
    <2>3. CASE ~IsPrimitive(v)
      <3> DEFINE f == [k \in DOMAIN Content(v) |-> JsonToValue(Content(v)[k])]
                 g == [k \in DOMAIN f |-> ValueToJson(f[k])]
                 value == <<KindOf(v), f>>
                 json == <<KindOf(v), g>>
      <3>1. KindOf(v) \in Nested
        BY <2>3 DEF IsPrimitive, Nested
      <3>2. JsonToValue(v) = value
        BY <1>1, <2>3 DEF JsonToValueOnce
      <3>3. DOMAIN f = DOMAIN Content(v) /\ \A k \in DOMAIN f : f[k] = JsonToValue(Content(v)[k])
        OBVIOUS
      <3>4. DOMAIN g = DOMAIN f /\ \A k \in DOMAIN f : g[k] = ValueToJson(f[k])
        OBVIOUS
      <3>5. KindOf(value) = KindOf(v) /\ Content(value) = f /\ ~IsPrimitive(value) /\ ~IsNumber(value)
        BY <3>1, MadeOf
      <3>6. ValueToJson(value) = json
        <4> HIDE DEF value, f
        <4> QED
          BY <1>1, <3>5 DEF ValueToJsonOnce
      <3>7. KindOf(json) = KindOf(v) /\ Content(json) = g /\ ~IsPrimitive(json)
        BY <3>1, MadeOf
      <3>8. \A k \in DOMAIN Content(v) : Meaning(g[k]) = Meaning(Content(v)[k])
        <4> TAKE k \in DOMAIN Content(v)
        <4>1. FitsThroughout(Content(v)[k])
          BY <1>1, <1>2, <2>3 DEF FitsOnce, IsNumber, IsPrimitive
        <4>2. Content(v)[k] \in S
          BY <1>2, <2>3 DEF HasPart
        <4>3. g[k] = ValueToJson(JsonToValue(Content(v)[k]))
          BY <3>3, <3>4
        <4> QED
          BY <4>1, <4>2, <4>3
      <3> HIDE DEF f, g, value, json
      <3>9. Meaning(json) = Meaning(v)
        BY <2>3, <3>3, <3>4, <3>7, <3>8, PartsSayTheSame
      <3> QED
        BY <3>2, <3>6, <3>9
    <2> QED
      BY <2>1, <2>2, <2>3
  <1>3. \A v \in DOMAIN Nesting : (\A w : HasPart(v, w) => w \in S) => v \in S
    BY <1>2
  <1> HIDE DEF S
  <1>4. \A v \in DOMAIN Nesting : v \in S
    BY <1>3, PartByPart
  <1> QED
    BY <1>4 DEF S

-----------------------------------------------------------------------------
(* Pointers                                                                *)

\* A pointer is made of a key token by token.
Pointers(Tokens) == {p \in Seq(Seq(Tokens)) : p # <<>>}

\* Every token makes a pointer of a pointer.
LEMMA PointersGrow ==
  ASSUME NEW Tokens, NEW p \in Pointers(Tokens), NEW token \in Tokens
  PROVE  Extended(p, token) \in Pointers(Tokens)
  <1>1. p \in Seq(Seq(Tokens)) /\ Len(p) \in Nat /\ Len(p) # 0 /\ DOMAIN p = 1 .. Len(p)
    BY DEF Pointers
  <1>2. CASE token \in Separators
    <2>1. <<>> \in Seq(Tokens)
      OBVIOUS
    <2>2. Append(p, <<>>) \in Seq(Seq(Tokens)) /\ Len(Append(p, <<>>)) = Len(p) + 1
      BY <1>1, <2>1, AppendProperties
    <2>3. Append(p, <<>>) # <<>>
      BY <1>1, <2>2
    <2> QED
      BY <1>2, <2>2, <2>3 DEF Extended, Pointers
  <1>3. CASE token \notin Separators
    <2> DEFINE last == Append(p[Len(p)], token)
               q == [p EXCEPT ![Len(p)] = last]
    <2>1. Len(p) \in 1 .. Len(p) /\ last \in Seq(Tokens)
      <3>1. Len(p) \in 1 .. Len(p)
        BY <1>1
      <3>2. p[Len(p)] \in Seq(Tokens)
        BY <1>1, <3>1
      <3> QED
        BY <3>1, <3>2, AppendProperties
    <2>2. p \in [1 .. Len(p) -> Seq(Tokens)]
      BY <1>1
    <2> HIDE DEF last
    <2>3. q \in [1 .. Len(p) -> Seq(Tokens)]
      BY <2>1, <2>2
    <2>4. q \in Seq(Seq(Tokens))
      BY <1>1, <2>3, SeqDef
    <2>5. q # <<>>
      BY <1>1, <2>3
    <2>6. Extended(p, token) = q
      BY <1>3 DEF Extended, last
    <2> QED
      BY <2>4, <2>5, <2>6 DEF Pointers
  <1> QED
    BY <1>2, <1>3

\* CreateJsonPointer goes from the first token to the last.
LEMMA PointerGoesOneByOne ==
  ASSUME NEW Tokens, NEW key \in Seq(Tokens)
  PROVE  \E g : /\ g[0] = << <<>> >>
                /\ \A k \in 1 .. Len(key) : g[k] = Extended(g[k - 1], key[k])
                /\ CreateJsonPointer(key) = g[Len(key)]
  <1> DEFINE n == Len(key)
             start == << <<>> >>
             step == [p \in Pointers(Tokens) \X (1 .. n) |-> Extended(p[1], key[p[2]])]
             Yields(f, s) == IF s = {} THEN start ELSE Extended(f[s \ {Max(s)}], key[Max(s)])
             Folded(f) == f = [s \in SUBSET DOMAIN key |-> Yields(f, s)]
             iter == CHOOSE f : Folded(f)
  <1>1. n \in Nat /\ DOMAIN key = 1 .. n /\ \A k \in 1 .. n : key[k] \in Tokens
    OBVIOUS
  <1>2. start \in Pointers(Tokens)
    BY DEF Pointers
  <1> HIDE DEF n, start
  <1>3. /\ step \in [Pointers(Tokens) \X (1 .. n) -> Pointers(Tokens)]
        /\ \A p \in Pointers(Tokens), k \in 1 .. n : step[<<p, k>>] = Extended(p, key[k])
    BY <1>1, PointersGrow
  <1>4. PICK f \in [SUBSET (1 .. n) -> Pointers(Tokens)] : Folds(f, n, start, step)
    <2> HIDE DEF step
    <2> QED
      BY <1>1, <1>2, <1>3, FoldExists
  <1> HIDE DEF step
  <1>5. Folded(f)
    <2>1. ASSUME NEW s \in SUBSET (1 .. n), s # {}
          PROVE  step[<<f[s \ {Max(s)}], Max(s)>>] = Extended(f[s \ {Max(s)}], key[Max(s)])
      <3>1. Max(s) \in 1 .. n /\ s \ {Max(s)} \in SUBSET (1 .. n)
        BY <1>1, <2>1, LastPlace
      <3>2. f[s \ {Max(s)}] \in Pointers(Tokens)
        BY <1>4, <3>1
      <3> QED
        BY <1>3, <3>1, <3>2
    <2>2. f = [s \in SUBSET (1 .. n) |-> Yields(f, s)]
      BY <1>4, <2>1 DEF Folds
    <2> QED
      BY <1>1, <2>2
  <1>6. Folded(iter)
    <2> HIDE DEF Folded
    <2> QED
      BY <1>5
  <1>7. CreateJsonPointer(key) = iter[DOMAIN key]
    BY DEF CreateJsonPointer, FoldLeft, MapThenFoldSet, start
  <1> HIDE DEF iter
  <1>8. \A s \in SUBSET (1 .. n) : iter[s] = Yields(iter, s)
    <2> HIDE DEF Yields
    <2> QED
      BY <1>1, <1>6
  <1> DEFINE g == [k \in 0 .. n |-> iter[1 .. k]]
  <1>9. g[0] = start
    <2>1. 1 .. 0 = {} /\ 1 .. 0 \in SUBSET (1 .. n) /\ 0 \in 0 .. n
      BY <1>1
    <2> QED
      BY <1>8, <2>1
  <1>10. ASSUME NEW k \in 1 .. n PROVE g[k] = Extended(g[k - 1], key[k])
    <2>1. k \in Nat /\ k # 0 /\ k \in 0 .. n /\ k - 1 \in 0 .. n /\ 1 .. k \in SUBSET (1 .. n)
      BY <1>1
    <2>2. iter[1 .. k] = Extended(iter[1 .. k - 1], key[k])
      BY <1>8, <2>1, FirstPlaces
    <2> QED
      BY <2>1, <2>2
  <1>11. CreateJsonPointer(key) = g[n]
    <2>1. n \in 0 .. n
      BY <1>1
    <2> QED
      BY <1>1, <1>7, <2>1
  <1> HIDE DEF g
  <1> QED
    BY <1>9, <1>10, <1>11 DEF n, start

\* What replaces the last of one or two steps, and what is put after one.
LEMMA StepsReplaced ==
  ASSUME NEW a, NEW b, NEW c
  PROVE  /\ [<<a>> EXCEPT ![1] = c] = <<c>>
         /\ [<<a, b>> EXCEPT ![2] = c] = <<a, c>>
         /\ Len(<<a>>) = 1 /\ Len(<<a, b>>) = 2 /\ Append(<<a>>, c) = <<a, c>>
  <1>1. [<<a>> EXCEPT ![1] = c] = <<c>> /\ Len(<<a>>) = 1 /\ Len(<<a, b>>) = 2
    OBVIOUS
  <1>2. [<<a, b>> EXCEPT ![2] = c] = <<a, c>>
    OBVIOUS
  <1>3. Append(<<a>>, c) = <<a, c>>
    <2> DEFINE one == <<a>>
               two == <<a, c>>
    <2>1. one \in Seq({a, c}) /\ Len(one) = 1 /\ one[1] = a
      OBVIOUS
    <2>2. two = [i \in 1 .. 2 |-> two[i]] /\ two[1] = a /\ two[2] = c
      OBVIOUS
    <2> HIDE DEF one, two
    <2> DEFINE longer == Append(one, c)
    <2>3. /\ longer \in Seq({a, c}) /\ Len(longer) = 2
          /\ longer[1] = a /\ longer[2] = c
      <3>1. one \in Seq({a, c}) /\ c \in {a, c}
        BY <2>1
      <3>2. Append(one, c) \in Seq({a, c}) /\ Len(Append(one, c)) = Len(one) + 1
        BY <3>1, AppendProperties
      <3>3. 1 \in 1 .. Len(one) /\ Len(one) + 1 = 2
        BY <2>1
      <3>4. Append(one, c)[1] = one[1]
        BY <3>1, <3>3, AppendProperties
      <3>5. Append(one, c)[Len(one) + 1] = c
        BY <3>1, AppendProperties
      <3> QED
        BY <2>1, <3>2, <3>3, <3>4, <3>5
    <2> HIDE DEF longer
    <2>4. longer = [i \in 1 .. 2 |-> longer[i]]
      BY <2>3
    <2>5. longer = two
      BY <2>2, <2>3, <2>4
    <2> QED
      BY <2>5 DEF longer, one, two
  <1> QED
    BY <1>1, <1>2, <1>3

\* A separator begins the next step.
LEMMA ExtendedAtSeparator ==
  ASSUME NEW a, NEW token \in Separators
  PROVE  Extended(<<a>>, token) = <<a, <<>> >>
  BY StepsReplaced DEF Extended

\* Another token goes to the last step, be it the only one
LEMMA ExtendedFirst ==
  ASSUME NEW a, NEW token, token \notin Separators
  PROVE  Extended(<<a>>, token) = <<Append(a, token)>>
  <1> DEFINE steps == <<a>>
  <1>1. Len(steps) = 1 /\ steps[1] = a /\ [steps EXCEPT ![1] = Append(a, token)] = <<Append(a, token)>>
    BY StepsReplaced
  <1> HIDE DEF steps
  <1>2. Extended(steps, token) = <<Append(a, token)>>
    BY <1>1 DEF Extended
  <1> QED
    BY <1>2 DEF steps

\* or the second.
LEMMA ExtendedSecond ==
  ASSUME NEW a, NEW b, NEW token, token \notin Separators
  PROVE  Extended(<<a, b>>, token) = <<a, Append(b, token)>>
  <1> DEFINE steps == <<a, b>>
  <1>1. /\ Len(steps) = 2 /\ steps[2] = b
        /\ [steps EXCEPT ![2] = Append(b, token)] = <<a, Append(b, token)>>
    BY StepsReplaced
  <1> HIDE DEF steps
  <1>2. Extended(steps, token) = <<a, Append(b, token)>>
    BY <1>1 DEF Extended
  <1> QED
    BY <1>2 DEF steps

\* A step that is empty has only the token it is given.
LEMMA EmptyExtended ==
  ASSUME NEW token
  PROVE  Append(<<>>, token) = <<token>>
  OBVIOUS

\* A key of one token leads one step.
LEMMA PointerOfOne ==
  ASSUME NEW token, token \notin Separators
  PROVE  CreateJsonPointer(<<token>>) = << <<token>> >>
  <1> DEFINE key == <<token>>
             empty == <<>>
  <1>1. IsList(key) /\ Len(key) = 1 /\ key[1] = token
    BY OneIsList
  <1> HIDE DEF key
  <1>2. key \in Seq(Range(key))
    BY <1>1 DEF IsList
  <1>3. PICK g : /\ g[0] = << <<>> >>
                 /\ \A k \in 1 .. 1 : g[k] = Extended(g[k - 1], key[k])
                 /\ CreateJsonPointer(key) = g[1]
    BY <1>1, <1>2, PointerGoesOneByOne
  <1>4. g[1] = Extended(g[0], token)
    BY <1>1, <1>3
  <1>5. Extended(<<empty>>, token) = <<Append(empty, token)>>
    <2> HIDE DEF empty
    <2> QED
      BY ExtendedFirst
  <1>6. g[1] = <<Append(empty, token)>>
    BY <1>3, <1>4, <1>5
  <1>7. Append(empty, token) = <<token>>
    BY EmptyExtended
  <1> QED
    BY <1>3, <1>6, <1>7 DEF key

\* A key of two tokens with a separator between them leads two steps.
LEMMA PointerOfTwo ==
  ASSUME NEW first, NEW dot, NEW second,
         first \notin Separators, dot \in Separators, second \notin Separators
  PROVE  CreateJsonPointer(<<first, dot, second>>) = << <<first>>, <<second>> >>
  <1> DEFINE key == <<first, dot, second>>
             empty == <<>>
             a == Append(empty, first)
             b == Append(empty, second)
  <1>1. IsList(key) /\ Len(key) = 3 /\ key[1] = first /\ key[2] = dot /\ key[3] = second
    BY ThreeAreList
  <1> HIDE DEF key
  <1>2. key \in Seq(Range(key))
    BY <1>1 DEF IsList
  <1>3. PICK g : /\ g[0] = << <<>> >>
                 /\ \A k \in 1 .. 3 : g[k] = Extended(g[k - 1], key[k])
                 /\ CreateJsonPointer(key) = g[3]
    BY <1>1, <1>2, PointerGoesOneByOne
  <1>4. g[1] = Extended(g[0], first) /\ g[2] = Extended(g[1], dot) /\ g[3] = Extended(g[2], second)
    <2>1. 1 - 1 = 0 /\ 2 - 1 = 1 /\ 3 - 1 = 2 /\ 1 \in 1 .. 3 /\ 2 \in 1 .. 3 /\ 3 \in 1 .. 3
      OBVIOUS
    <2>2. /\ g[1] = Extended(g[1 - 1], key[1]) /\ g[2] = Extended(g[2 - 1], key[2])
          /\ g[3] = Extended(g[3 - 1], key[3])
      BY <1>3, <2>1, Zenon
    <2> QED
      BY <1>1, <2>1, <2>2
  <1>5. g[0] = <<empty>>
    BY <1>3
  <1>6. Extended(<<a>>, dot) = <<a, empty>>
    BY ExtendedAtSeparator
  <1>7. a = <<first>> /\ b = <<second>>
    BY EmptyExtended
  <1>8. g[1] = <<a>>
    <2> HIDE DEF empty
    <2> QED
      BY <1>4, <1>5, ExtendedFirst
  <1> HIDE DEF a, empty
  <1>9. Extended(<<a, empty>>, second) = <<a, b>>
    BY ExtendedSecond
  <1>10. g[2] = <<a, empty>>
    BY <1>4, <1>6, <1>8
  <1> HIDE DEF b
  <1>11. g[3] = <<a, b>>
    BY <1>4, <1>9, <1>10
  <1> QED
    BY <1>3, <1>7, <1>11 DEF key

-----------------------------------------------------------------------------
(* What targeting rules find                                               *)

\* What one step leads to.
LEMMA FoundAfterOne ==
  ASSUME NEW data, NEW key, NEW step, CreateJsonPointer(key) = <<step>>
  PROVE  GetVariableValue(data, key) = Member(Ok(data), step)
  <1> DEFINE steps == <<step>>
             start == Ok(data)
             Yields(f, s) == IF s = {} THEN start ELSE Member(f[s \ {Max(s)}], steps[Max(s)])
             Folded(f) == f = [s \in SUBSET DOMAIN steps |-> Yields(f, s)]
             iter == CHOOSE f : Folded(f)
             found == [s \in SUBSET DOMAIN steps |-> IF s = {} THEN start ELSE Member(start, step)]
  <1>1. GetVariableValue(data, key) = iter[DOMAIN steps]
    BY DEF GetVariableValue, FoldLeft, MapThenFoldSet
  <1>2. DOMAIN steps = {1} /\ steps[1] = step
    OBVIOUS
  <1> HIDE DEF steps, start
  <1>3. Max({1}) = 1 /\ {1} \ {1} = {} /\ {1} # {}
    <2>1. {1} \subseteq Int /\ \A n \in {1} : 1 >= n
      OBVIOUS
    <2>2. Max({1}) = 1
      BY <2>1, MaxIs
    <2> QED
      BY <2>2
  <1>4. \A s \in SUBSET DOMAIN steps : s = {} \/ s = {1}
    BY <1>2
  <1>5. Folded(found)
    <2>1. found[{}] = start
      BY <1>2
    <2> HIDE DEF found
    <2>2. \A s \in SUBSET DOMAIN steps :
              Yields(found, s) = IF s = {} THEN start ELSE Member(start, step)
      BY <1>2, <1>3, <1>4, <2>1
    <2> HIDE DEF Yields
    <2> QED
      BY <2>2 DEF found
  <1>6. Folded(iter)
    <2> HIDE DEF Folded
    <2> QED
      BY <1>5
  <1> HIDE DEF iter, found
  <1>7. \A s \in SUBSET DOMAIN steps : iter[s] = Yields(iter, s)
    <2> HIDE DEF Yields
    <2> QED
      BY <1>6
  <1>8. iter[{}] = start
    BY <1>7
  <1>9. iter[{1}] = Member(start, step)
    BY <1>2, <1>3, <1>7, <1>8
  <1> QED
    BY <1>1, <1>2, <1>9 DEF start

\* What two steps lead to.
LEMMA FoundAfterTwo ==
  ASSUME NEW data, NEW key, NEW first, NEW second, CreateJsonPointer(key) = <<first, second>>
  PROVE  GetVariableValue(data, key) = Member(Member(Ok(data), first), second)
  <1> DEFINE steps == <<first, second>>
             start == Ok(data)
             Yields(f, s) == IF s = {} THEN start ELSE Member(f[s \ {Max(s)}], steps[Max(s)])
             Folded(f) == f = [s \in SUBSET DOMAIN steps |-> Yields(f, s)]
             iter == CHOOSE f : Folded(f)
             Value(s) == IF s = {} THEN start
                         ELSE IF s = {1} THEN Member(start, first)
                         ELSE IF s = {2} THEN Member(start, second)
                         ELSE Member(Member(start, first), second)
             found == [s \in SUBSET DOMAIN steps |-> Value(s)]
  <1>1. GetVariableValue(data, key) = iter[DOMAIN steps]
    BY DEF GetVariableValue, FoldLeft, MapThenFoldSet
  <1>2. DOMAIN steps = {1, 2} /\ steps[1] = first /\ steps[2] = second
    OBVIOUS
  <1> HIDE DEF steps, start
  <1>3. Max({1}) = 1 /\ Max({2}) = 2 /\ Max({1, 2}) = 2
    <2>1. /\ {1} \subseteq Int /\ \A n \in {1} : 1 >= n
          /\ {2} \subseteq Int /\ \A n \in {2} : 2 >= n
          /\ {1, 2} \subseteq Int /\ \A n \in {1, 2} : 2 >= n
      OBVIOUS
    <2>2. 1 \in {1} /\ 2 \in {2} /\ 2 \in {1, 2}
      OBVIOUS
    <2> QED
      BY <2>1, <2>2, MaxIs
  <1>4. \A s \in SUBSET DOMAIN steps : s \in {{}, {1}, {2}, {1, 2}}
    BY <1>2
  <1>5. /\ {1} \ {1} = {} /\ {2} \ {2} = {} /\ {1, 2} \ {2} = {1}
        /\ {1} # {} /\ {2} # {} /\ {1, 2} # {}
        /\ {1} # {2} /\ {1, 2} # {1} /\ {1, 2} # {2}
        /\ {} \in SUBSET DOMAIN steps /\ {1} \in SUBSET DOMAIN steps
        /\ {2} \in SUBSET DOMAIN steps /\ {1, 2} \in SUBSET DOMAIN steps
    BY <1>2
  <1>6. Folded(found)
    <2>1. found[{}] = start /\ found[{1}] = Member(start, first)
      BY <1>5
    <2>2. /\ Value({}) = start /\ Value({1}) = Member(start, first)
          /\ Value({2}) = Member(start, second)
          /\ Value({1, 2}) = Member(Member(start, first), second)
      BY <1>5
    <2> HIDE DEF Value
    <2>3. DOMAIN found = SUBSET DOMAIN steps /\ \A s \in SUBSET DOMAIN steps : found[s] = Value(s)
      OBVIOUS
    <2> HIDE DEF found
    <2>4. \A s \in SUBSET DOMAIN steps : Yields(found, s) = Value(s)
      <3>1. Yields(found, {}) = Value({})
        BY <2>2
      <3>2. Yields(found, {1}) = Value({1}) /\ Yields(found, {2}) = Value({2})
        BY <1>2, <1>3, <1>5, <2>1, <2>2
      <3>3. Yields(found, {1, 2}) = Value({1, 2})
        BY <1>2, <1>3, <1>5, <2>1, <2>2
      <3> HIDE DEF Yields
      <3> QED
        BY <1>4, <3>1, <3>2, <3>3
    <2> HIDE DEF Yields
    <2> QED
      BY <2>4 DEF found
  <1>7. Folded(iter)
    <2> HIDE DEF Folded
    <2> QED
      BY <1>6
  <1> HIDE DEF iter, found
  <1>8. \A s \in SUBSET DOMAIN steps : iter[s] = Yields(iter, s)
    <2> HIDE DEF Yields
    <2> QED
      BY <1>7
  <1>9. iter[{}] = start
    BY <1>8
  <1>10. iter[{1}] = Member(start, first)
    BY <1>2, <1>3, <1>5, <1>8, <1>9
  <1>11. iter[{1, 2}] = Member(Member(start, first), second)
    BY <1>2, <1>3, <1>5, <1>8, <1>10
  <1> QED
    BY <1>1, <1>2, <1>11 DEF start

\* What an object has under a name, or not.
LEMMA MemberIs ==
  ASSUME NEW members, NEW name
  PROVE  /\ name \in DOMAIN members => Member(Ok(JsonObject(members)), name) = Ok(members[name])
         /\ name \notin DOMAIN members => Member(Ok(JsonObject(members)), name) = Invalid
  <1>1. /\ IsOk(Ok(JsonObject(members))) /\ Ok(JsonObject(members)).value = JsonObject(members)
        /\ KindOf(JsonObject(members)) = "object" /\ Content(JsonObject(members)) = members
        /\ ~IsArray(JsonObject(members))
    BY DEF IsOk, Ok, JsonObject, KindOf, Content, IsArray
  <1> QED
    BY <1>1 DEF Member

\* What is found under a name in one object laid over another.
LEMMA OverlaidIs ==
  ASSUME NEW over, NEW under
  PROVE  /\ DOMAIN Overlaid(over, under) = DOMAIN over \cup DOMAIN under
         /\ \A name \in DOMAIN over : Overlaid(over, under)[name] = over[name]
         /\ \A name \in DOMAIN under : name \notin DOMAIN over => Overlaid(over, under)[name] = under[name]
  BY DEF Overlaid

\* What an object with only one member has.
LEMMA OnlyIs ==
  ASSUME NEW name, NEW value
  PROVE  DOMAIN Only(name, value) = {name} /\ Only(name, value)[name] = value
  BY DEF Only

\* The attributes that are converted, under the names they have.
ConvertedNames(ctx) ==
    {name \in DOMAIN ctx.attributes : ctx.attributes[name].type \in ConvertedTypes}

\* What a rule finds in a context under a name.
InContext(ctx, name) ==
    IF name \in ConvertedNames(ctx) THEN Ok(AttributeToJson(ctx.attributes[name]))
    ELSE IF name = <<"targetingKey">> /\ ctx.targetingKey # NoTargetingKey
    THEN Ok(JsonString(ctx.targetingKey))
    ELSE Invalid

\* ContextToJson makes an object in which that is found.
LEMMA ContextHas ==
  ASSUME NEW ctx, NEW name
  PROVE  \E members : /\ ContextToJson(ctx) = JsonObject(members)
                      /\ Member(Ok(JsonObject(members)), name) = InContext(ctx, name)
  <1> DEFINE names == ConvertedNames(ctx)
             attributes == [n \in names |-> AttributeToJson(ctx.attributes[n])]
             own == Only(<<"targetingKey">>, JsonString(ctx.targetingKey))
             all == Overlaid(attributes, own)
  <1>1. ContextToJson(ctx) = IF ctx.targetingKey = NoTargetingKey THEN JsonObject(attributes)
                             ELSE JsonObject(all)
    BY DEF ContextToJson, ConvertedNames
  <1>2. DOMAIN attributes = names /\ \A n \in names : attributes[n] = AttributeToJson(ctx.attributes[n])
    OBVIOUS
  <1>3. DOMAIN own = { <<"targetingKey">> } /\ own[<<"targetingKey">>] = JsonString(ctx.targetingKey)
    BY OnlyIs
  <1> HIDE DEF attributes, own, names
  <1>4. CASE ctx.targetingKey = NoTargetingKey
    <2>1. Member(Ok(JsonObject(attributes)), name) = InContext(ctx, name)
      BY <1>2, <1>4, MemberIs DEF InContext, names
    <2> QED
      BY <1>1, <1>4, <2>1
  <1>5. CASE ctx.targetingKey # NoTargetingKey
    <2>1. /\ DOMAIN all = names \cup { <<"targetingKey">> }
          /\ \A n \in names : all[n] = attributes[n]
          /\ <<"targetingKey">> \notin names => all[<<"targetingKey">>] = own[<<"targetingKey">>]
      <3> DEFINE key == <<"targetingKey">>
      <3>1. /\ DOMAIN all = DOMAIN attributes \cup DOMAIN own
            /\ \A n \in DOMAIN attributes : all[n] = attributes[n]
            /\ \A n \in DOMAIN own : n \notin DOMAIN attributes => all[n] = own[n]
        BY OverlaidIs
      <3>2. DOMAIN own = {key}
        BY <1>3
      <3> HIDE DEF all, key
      <3>3. key \notin names => all[key] = own[key]
        BY <1>2, <3>1, <3>2
      <3>4. DOMAIN all = names \cup {key} /\ \A n \in names : all[n] = attributes[n]
        BY <1>2, <3>1, <3>2
      <3> QED
        BY <3>3, <3>4 DEF key
    <2> HIDE DEF all
    <2>2. Member(Ok(JsonObject(all)), name) = InContext(ctx, name)
      <3>1. CASE name \in names
        BY <1>2, <2>1, <3>1, MemberIs DEF InContext, names
      <3>2. CASE name \notin names /\ name = <<"targetingKey">>
        BY <1>3, <1>5, <2>1, <3>2, MemberIs DEF InContext, names
      <3>3. CASE name \notin names /\ name # <<"targetingKey">>
        BY <2>1, <3>3, MemberIs DEF InContext, names
      <3> QED
        BY <3>1, <3>2, <3>3
    <2> QED
      BY <1>1, <1>5, <2>2
  <1> QED
    BY <1>4, <1>5

\* What targeting rules find: the context, and what is injected.
LEMMA DataHave ==
  ASSUME NEW ctx, NEW flagKey, NEW time
  PROVE  LET data == WithFlagd(ContextToJson(ctx), flagKey, time)
         IN  /\ GetVariableValue(data, <<"x">>) = InContext(ctx, <<"x">>)
             /\ GetVariableValue(data, <<"targetingKey">>) = InContext(ctx, <<"targetingKey">>)
             /\ KeyOfFlag(data) = JsonString(flagKey)
  <1> DEFINE injected == Injected(flagKey, time)
             under == Content(ContextToJson(ctx))
             over == Only(<<"$flagd">>, injected)
             all == Overlaid(over, under)
             data == JsonObject(all)
  <1>1. WithFlagd(ContextToJson(ctx), flagKey, time) = data
    BY DEF WithFlagd
  <1>2. DOMAIN over = { <<"$flagd">> } /\ over[<<"$flagd">>] = injected
    BY OnlyIs
  <1> HIDE DEF over
  <1>3. /\ DOMAIN all = { <<"$flagd">> } \cup DOMAIN under
        /\ all[<<"$flagd">>] = injected
        /\ \A n \in DOMAIN under : n # <<"$flagd">> => all[n] = under[n]
    <2> DEFINE key == <<"$flagd">>
    <2>1. DOMAIN over = {key} /\ over[key] = injected
      BY <1>2
    <2> HIDE DEF under, injected, key
    <2>2. /\ DOMAIN all = DOMAIN over \cup DOMAIN under
          /\ \A n \in DOMAIN over : all[n] = over[n]
          /\ \A n \in DOMAIN under : n \notin DOMAIN over => all[n] = under[n]
      BY OverlaidIs
    <2> HIDE DEF all
    <2>3. DOMAIN all = {key} \cup DOMAIN under /\ all[key] = injected
      BY <2>1, <2>2
    <2>4. \A n \in DOMAIN under : n # key => all[n] = under[n]
      BY <2>1, <2>2
    <2> QED
      BY <2>3, <2>4 DEF key
  <1>4. ASSUME NEW token, token # "$flagd", token \notin Separators
        PROVE  GetVariableValue(data, <<token>>) = InContext(ctx, <<token>>)
    <2> DEFINE name == <<token>>
    <2>1. name # <<"$flagd">>
      BY <1>4
    <2>2. CreateJsonPointer(name) = <<name>>
      BY <1>4, PointerOfOne
    <2> HIDE DEF name
    <2>3. GetVariableValue(data, name) = Member(Ok(data), name)
      BY <2>2, FoundAfterOne
    <2>4. PICK members : /\ ContextToJson(ctx) = JsonObject(members)
                         /\ Member(Ok(JsonObject(members)), name) = InContext(ctx, name)
      BY ContextHas
    <2>5. under = members
      BY <2>4 DEF JsonObject, Content
    <2> HIDE DEF under, all
    <2>6. Member(Ok(data), name) = Member(Ok(JsonObject(members)), name)
      <3>1. CASE name \in DOMAIN under
        BY <1>3, <2>1, <2>5, <3>1, MemberIs
      <3>2. CASE name \notin DOMAIN under
        <4>1. name \notin DOMAIN all
          BY <1>3, <2>1, <3>2
        <4> QED
          BY <2>5, <3>2, <4>1, MemberIs
      <3> QED
        BY <3>1, <3>2
    <2> QED
      BY <2>3, <2>4, <2>6 DEF name
  <1>5. KeyOfFlag(data) = JsonString(flagKey)
    <2> DEFINE key == Only(<<"flagKey">>, JsonString(flagKey))
               stamp == Only(<<"timestamp">>, JsonNumber(Signed(time)))
               members == Overlaid(key, stamp)
    <2>1. injected = JsonObject(members)
      BY DEF Injected
    <2>2. DOMAIN key = { <<"flagKey">> } /\ key[<<"flagKey">>] = JsonString(flagKey)
      BY OnlyIs
    <2> HIDE DEF key
    <2>3. <<"flagKey">> \in DOMAIN members /\ members[<<"flagKey">>] = JsonString(flagKey)
      <3> DEFINE name == <<"flagKey">>
      <3>1. DOMAIN key = {name} /\ key[name] = JsonString(flagKey)
        BY <2>2
      <3> HIDE DEF name, stamp
      <3>2. DOMAIN members = DOMAIN key \cup DOMAIN stamp /\ \A n \in DOMAIN key : members[n] = key[n]
        BY OverlaidIs
      <3> HIDE DEF members
      <3>3. name \in DOMAIN members /\ members[name] = JsonString(flagKey)
        BY <3>1, <3>2
      <3> QED
        BY <3>3 DEF name
    <2> HIDE DEF members, injected, under, all
    <2>4. GetVariableValue(data, <<"$flagd", ".", "flagKey">>)
              = Member(Member(Ok(data), <<"$flagd">>), <<"flagKey">>)
      <3>1. "$flagd" \notin Separators /\ "." \in Separators /\ "flagKey" \notin Separators
        BY DEF Separators
      <3>2. CreateJsonPointer(<<"$flagd", ".", "flagKey">>) = << <<"$flagd">>, <<"flagKey">> >>
        BY <3>1, PointerOfTwo
      <3> QED
        BY <3>2, FoundAfterTwo
    <2>5. Member(Ok(data), <<"$flagd">>) = Ok(JsonObject(members))
      BY <1>3, <2>1, MemberIs
    <2>6. Member(Ok(JsonObject(members)), <<"flagKey">>) = Ok(JsonString(flagKey))
      BY <2>3, MemberIs
    <2> HIDE DEF data
    <2>7. GetVariableValue(data, <<"$flagd", ".", "flagKey">>) = Ok(JsonString(flagKey))
      BY <2>4, <2>5, <2>6
    <2>8. IsOk(Ok(JsonString(flagKey))) /\ Ok(JsonString(flagKey)).value = JsonString(flagKey)
          /\ IsString(JsonString(flagKey))
      BY DEF IsOk, Ok, IsString, JsonString, KindOf
    <2> QED
      BY <2>7, <2>8 DEF KeyOfFlag
  <1> HIDE DEF data
  <1>6. GetVariableValue(data, <<"x">>) = InContext(ctx, <<"x">>)
    <2>1. "x" # "$flagd" /\ "x" \notin Separators
      BY DEF Separators
    <2> QED
      BY <1>4, <2>1
  <1>7. GetVariableValue(data, <<"targetingKey">>) = InContext(ctx, <<"targetingKey">>)
    <2>1. "targetingKey" # "$flagd" /\ "targetingKey" \notin Separators
      BY DEF Separators
    <2> QED
      BY <1>4, <2>1
  <1> QED
    BY <1>1, <1>5, <1>6, <1>7

-----------------------------------------------------------------------------
(* What fractional takes to hash                                           *)

\* What a converted attribute is.
LEMMA AttributeIs ==
  ASSUME AreConversions, NEW ctx \in EvaluationContexts, NEW name \in DOMAIN ctx.attributes
  PROVE  LET value == ctx.attributes[name].value
             json == AttributeToJson(ctx.attributes[name])
         IN  /\ value \in DOMAIN Nesting
             /\ KindOf(json) = KindOf(value) /\ EncodeJson(json) = EncodeJson(value)
             /\ IsString(json) => json = value
  <1> DEFINE attribute == ctx.attributes[name]
             value == attribute.value
             json == AttributeToJson(attribute)
  <1>1. value \in DOMAIN Nesting /\ (attribute.type = "Value" => FitsThroughout(value))
    BY ContextsAssumption
  <1>2. json = IF attribute.type = "Value" THEN ValueToJson(value) ELSE value
    BY DEF AttributeToJson
  <1> HIDE DEF attribute, value, json
  <1>3. CASE attribute.type = "Value"
    <2>1. /\ KindOf(json) = KindOf(value) /\ EncodeJson(json) = EncodeJson(value)
          /\ IsPrimitive(value) /\ ~IsNumber(value) => json = value
      BY <1>1, <1>2, <1>3, ValueToJsonIs
    <2>2. IsString(json) => IsPrimitive(value) /\ ~IsNumber(value)
      BY <2>1 DEF IsString, IsPrimitive, IsNumber
    <2> QED
      BY <1>1, <2>1, <2>2 DEF attribute, value, json
  <1>4. CASE attribute.type # "Value"
    <2>1. json = value
      BY <1>2, <1>4
    <2> QED
      BY <1>1, <2>1 DEF attribute, value, json
  <1> QED
    BY <1>3, <1>4

\* The first argument of fractional is what is found of x, or null.
LEMMA BucketingRuleIs ==
  ASSUME IsInterpreter, NEW data
  PROVE  LET found == GetVariableValue(data, <<"x">>)
         IN  Apply(BucketingRule, data) = IF IsOk(found) THEN found ELSE Ok(JsonNull)
  <1> DEFINE key == JsonString(<<"x">>)
             members == Only(<<"var">>, key)
             found == GetVariableValue(data, <<"x">>)
             result == IF IsOk(found) THEN found ELSE Ok(JsonNull)
  <1>1. BucketingRule = JsonObject(members)
    BY DEF BucketingRule
  <1>2. DOMAIN members = { <<"var">> } /\ members[<<"var">>] = key
    BY OnlyIs
  <1>3. members # <<>> /\ FirstKey(members) = <<"var">>
    <2> HIDE DEF members
    <2>1. members # <<>>
      BY <1>2
    <2>2. <<"var">> \in Range(KeyOrder)
      BY KeyOrderAssumption
    <2> QED
      BY <1>2, <2>1, <2>2, OnlyKeyIsFirst
  <1>4. Var(key, data) = result
    <2>1. IsString(key) /\ ~IsArray(key) /\ Content(key) = <<"x">>
      BY DEF JsonString, IsString, IsArray, KindOf, Content
    <2>2. key \notin {JsonNull, JsonString(<<>>)}
      <3>1. Content(JsonString(<<>>)) = <<>> /\ <<"x">> # <<>> /\ ~IsString(JsonNull)
        BY DEF JsonString, JsonNull, Content, IsString, KindOf
      <3> QED
        BY <2>1, <3>1
    <2> HIDE DEF key
    <2>3. KeyObject(key, data) = Ok(key)
      BY <2>1 DEF KeyObject
    <2>4. IsOk(Ok(key)) /\ Ok(key).value = key
      BY DEF IsOk, Ok
    <2>5. GetVariableValue(data, Content(key)) = found
      BY <2>1
    <2> HIDE DEF found
    <2> QED
      BY <2>1, <2>2, <2>3, <2>4, <2>5 DEF Var
  <1>5. ApplyOp(<<"var">>, key, data) = result
    <2>1. "var" \in Names
      BY DEF Names
    <2>2. ApplyOp(<<"var">>, key, data) = Var(key, data)
      BY <2>1, Table
    <2> QED
      BY <1>4, <2>2
  <1>6. result # NotFound
    BY DEF IsOk, Ok, NotFound
  <1>7. Apply(JsonObject(members), data) = ApplyOnce(JsonObject(members), data)
    BY DEF IsInterpreter
  <1>8. /\ Content(JsonObject(members)) = members
        /\ ~IsPrimitive(JsonObject(members)) /\ ~IsArray(JsonObject(members))
    BY DEF JsonObject, Content, IsPrimitive, IsArray, KindOf
  <1> HIDE DEF members, key, result
  <1>9. ApplyOnce(JsonObject(members), data) = result
    BY <1>2, <1>3, <1>5, <1>6, <1>8 DEF ApplyOnce
  <1> QED
    BY <1>1, <1>7, <1>9 DEF result

\* Two texts in a list are encoded as that.
LEMMA PairIsEncoded ==
  ASSUME AreConversions, NEW s, NEW t, IsString(s), IsString(t)
  PROVE  EncodeJson(JsonArray(<<s, t>>)) = Joined(<< <<"array", 2>> >>, Joined(<<s>>, <<t>>))
  <1> DEFINE pair == <<s, t>>
             list == JsonArray(pair)
             codes == [i \in DOMAIN pair |-> EncodeJson(pair[i])]
  <1>1. \A w : EncodeJson(w) = EncodeOnce(w)
    BY DEF AreConversions
  <1>2. EncodeJson(s) = <<s>> /\ EncodeJson(t) = <<t>>
    BY <1>1 DEF EncodeOnce, IsString, IsNumber, IsPrimitive
  <1>3. Len(pair) = 2 /\ pair[1] = s /\ pair[2] = t /\ DOMAIN pair = 1 .. 2
    BY TwoAreList, ListHas
  <1>4. /\ Content(list) = pair /\ IsArray(list) /\ ~IsNumber(list) /\ ~IsPrimitive(list)
        /\ Size(list) = 2
    BY <1>3 DEF JsonArray, Content, IsArray, IsNumber, IsPrimitive, KindOf, Size
  <1> HIDE DEF pair
  <1>5. codes = << <<s>>, <<t>> >>
    <2> DEFINE a == <<s>>
               b == <<t>>
               two == <<a, b>>
    <2>1. two = [i \in 1 .. 2 |-> two[i]] /\ two[1] = a /\ two[2] = b
      OBVIOUS
    <2>2. codes = [i \in 1 .. 2 |-> codes[i]] /\ codes[1] = EncodeJson(s) /\ codes[2] = EncodeJson(t)
      BY <1>3
    <2> HIDE DEF a, b, two, codes
    <2>3. codes[1] = a /\ codes[2] = b
      BY <1>2, <2>2 DEF a, b
    <2>4. codes = two
      BY <2>1, <2>2, <2>3
    <2> QED
      BY <2>4 DEF two, a, b
  <1>6. FlattenSeq(codes) = Joined(<<s>>, <<t>>)
    <2> HIDE DEF codes
    <2> QED
      BY <1>5, FlattenTwo DEF Joined
  <1>7. EncodeOnce(list) = << <<"array", 2>> >> \o FlattenSeq(codes)
    <2> HIDE DEF list
    <2> QED
      BY <1>4 DEF EncodeOnce
  <1> HIDE DEF codes, list
  <1>8. EncodeJson(list) = Joined(<< <<"array", 2>> >>, FlattenSeq(codes))
    BY <1>1, <1>7 DEF Joined
  <1> QED
    BY <1>6, <1>8 DEF list, pair

-----------------------------------------------------------------------------
(* Buckets follow values                                                   *)

\* Where there are bytes to hash, they encode x, or the flag and the targeting key.
LEMMA BytesAre ==
  ASSUME IsInterpreter, AreConversions, NEW ctx \in EvaluationContexts, NEW flagKey, NEW time,
         BytesToHash(ctx, flagKey, time) # <<>>
  PROVE  LET x == ctx.attributes[<<"x">>].value
             bytes == BytesToHash(ctx, flagKey, time)
         IN  /\ x \in DOMAIN Nesting
             /\ ~IsArray(x) => bytes = EncodeJson(x) /\ Identity(ctx, flagKey) = Meaning(x)
             /\ IsArray(x) =>
                   \E key : /\ IsString(key)
                            /\ bytes = EncodeJson(JsonArray(<<JsonString(flagKey), key>>))
                            /\ Identity(ctx, flagKey) = JsonArray(<<JsonString(flagKey), key>>)
  <1> DEFINE x == ctx.attributes[<<"x">>].value
             json == AttributeToJson(ctx.attributes[<<"x">>])
             data == WithFlagd(ContextToJson(ctx), flagKey, time)
             first == Apply(BucketingRule, data)
             bucketing == BucketingValue(first, data)
             bytes == BytesToHash(ctx, flagKey, time)
             own == GetVariableValue(data, <<"targetingKey">>)
  <1>1. bytes = IF IsOk(bucketing) THEN EncodeJson(bucketing.value) ELSE <<>>
    BY DEF BytesToHash
  <1>2. /\ GetVariableValue(data, <<"x">>) = InContext(ctx, <<"x">>)
        /\ own = InContext(ctx, <<"targetingKey">>)
        /\ KeyOfFlag(data) = JsonString(flagKey)
    BY DataHave
  <1>3. first = IF IsOk(InContext(ctx, <<"x">>)) THEN InContext(ctx, <<"x">>) ELSE Ok(JsonNull)
    BY <1>2, BucketingRuleIs
  <1>4. bucketing = IF ~IsOk(first) THEN first
                    ELSE IF first.value = JsonNull THEN Invalid
                    ELSE IF ~IsArray(first.value) THEN first
                    ELSE IF IsOk(own) /\ IsString(own.value)
                    THEN Ok(JsonArray(<<KeyOfFlag(data), own.value>>))
                    ELSE Invalid
    BY DEF BucketingValue
  <1>5. ~IsOk(Invalid) /\ \A value : IsOk(Ok(value)) /\ Ok(value).value = value
    BY DEF IsOk, Invalid, Ok
  <1>6. IsOk(bucketing) /\ bytes = EncodeJson(bucketing.value)
    BY <1>1
  <1> HIDE DEF bytes, data, bucketing, first, own
  <1>7. <<"x">> \in ConvertedNames(ctx)
    <2>1. SUFFICES ASSUME <<"x">> \notin ConvertedNames(ctx) PROVE FALSE
      OBVIOUS
    <2>2. InContext(ctx, <<"x">>) = Invalid
      BY <2>1 DEF InContext
    <2>3. first = Ok(JsonNull)
      BY <1>3, <1>5, <2>2
    <2>4. bucketing = Invalid
      BY <1>4, <1>5, <2>3
    <2> QED
      BY <1>5, <1>6, <2>4
  <1>8. first = Ok(json)
    <2>1. InContext(ctx, <<"x">>) = Ok(json)
      BY <1>7 DEF InContext
    <2> HIDE DEF json
    <2> QED
      BY <1>3, <1>5, <2>1
  <1>9. x \in DOMAIN Nesting /\ KindOf(json) = KindOf(x) /\ EncodeJson(json) = EncodeJson(x)
    <2>1. <<"x">> \in DOMAIN ctx.attributes
      BY <1>7 DEF ConvertedNames
    <2> QED
      BY <2>1, AttributeIs
  <1>10. IsArray(json) <=> IsArray(x)
    BY <1>9 DEF IsArray
  <1> DEFINE isReplaced == /\ <<"targetingKey">> \in DOMAIN ctx.attributes
                           /\ ctx.attributes[<<"targetingKey">>].type \in ConvertedTypes
             key == IF isReplaced THEN ctx.attributes[<<"targetingKey">>].value
                    ELSE JsonString(ctx.targetingKey)
  <1>11. Identity(ctx, flagKey)
             = IF IsArray(x) THEN JsonArray(<<JsonString(flagKey), key>>) ELSE Meaning(x)
    BY DEF Identity
  <1> HIDE DEF json, x, key
  <1>12. CASE ~IsArray(x)
    <2>1. bucketing = first
      BY <1>4, <1>5, <1>6, <1>8, <1>10, <1>12
    <2>2. bytes = EncodeJson(x)
      BY <1>5, <1>6, <1>8, <1>9, <2>1
    <2> QED
      BY <1>9, <1>11, <1>12, <2>2 DEF x, bytes
  <1>13. CASE IsArray(x)
    <2>1. IsOk(own) /\ IsString(own.value) /\ bucketing = Ok(JsonArray(<<KeyOfFlag(data), own.value>>))
      BY <1>4, <1>5, <1>6, <1>8, <1>10, <1>13
    <2>2. own.value = key
      <3> DEFINE name == <<"targetingKey">>
                 attribute == ctx.attributes[name]
      <3>1. isReplaced <=> name \in ConvertedNames(ctx)
        BY DEF ConvertedNames
      <3>2. CASE isReplaced
        <4>1. own = Ok(AttributeToJson(attribute))
          <5> HIDE DEF isReplaced, attribute, name
          <5>1. name \in ConvertedNames(ctx)
            BY <3>1, <3>2
          <5> QED
            BY <1>2, <5>1 DEF InContext, attribute, name
        <4>2. own.value = AttributeToJson(attribute)
          <5> HIDE DEF attribute
          <5> QED
            BY <1>5, <4>1
        <4>3. AttributeToJson(attribute) = attribute.value
          <5>1. name \in DOMAIN ctx.attributes
            BY <3>2
          <5>2. IsString(AttributeToJson(attribute))
            BY <2>1, <4>2
          <5> QED
            BY <5>1, <5>2, AttributeIs
        <4>4. key = attribute.value
          BY <3>2 DEF key
        <4> QED
          BY <4>2, <4>3, <4>4
      <3>3. CASE ~isReplaced
        <4>1. own = IF ctx.targetingKey # NoTargetingKey THEN Ok(JsonString(ctx.targetingKey)) ELSE Invalid
          <5> HIDE DEF isReplaced
          <5> QED
            BY <1>2, <3>1, <3>3 DEF InContext
        <4>2. own = Ok(JsonString(ctx.targetingKey))
          BY <1>5, <2>1, <4>1
        <4>3. key = JsonString(ctx.targetingKey)
          BY <3>3 DEF key
        <4> QED
          BY <1>5, <4>2, <4>3
      <3> QED
        BY <3>2, <3>3
    <2>3. bytes = EncodeJson(JsonArray(<<JsonString(flagKey), key>>))
      <3>1. own.value = key /\ KeyOfFlag(data) = JsonString(flagKey)
        BY <1>2, <2>2
      <3> DEFINE list == JsonArray(<<JsonString(flagKey), key>>)
      <3>2. bucketing = Ok(list)
        BY <2>1, <3>1
      <3> HIDE DEF list
      <3>3. bytes = EncodeJson(list)
        BY <1>5, <1>6, <3>2
      <3> QED
        BY <3>3 DEF list
    <2>4. Identity(ctx, flagKey) = JsonArray(<<JsonString(flagKey), key>>)
      BY <1>11, <1>13
    <2>5. IsString(key)
      BY <2>1, <2>2
    <2> QED
      BY <1>9, <1>13, <2>3, <2>4, <2>5 DEF x, bytes
  <1> QED
    BY <1>12, <1>13

\* Such bytes are the same just if what tells users apart is.
LEMMA BytesTell ==
  ASSUME IsInterpreter, AreConversions,
         NEW ctx \in EvaluationContexts, NEW flagKey, NEW time,
         BytesToHash(ctx, flagKey, time) # <<>>,
         NEW other \in EvaluationContexts, NEW otherKey, NEW otherTime,
         BytesToHash(other, otherKey, otherTime) # <<>>
  PROVE  BytesToHash(ctx, flagKey, time) = BytesToHash(other, otherKey, otherTime)
             <=> Identity(ctx, flagKey) = Identity(other, otherKey)
  <1> DEFINE x == ctx.attributes[<<"x">>].value
             y == other.attributes[<<"x">>].value
             b == BytesToHash(ctx, flagKey, time)
             c == BytesToHash(other, otherKey, otherTime)
             i == Identity(ctx, flagKey)
             j == Identity(other, otherKey)
             f == JsonString(flagKey)
             g == JsonString(otherKey)
             head == <<"array", 2>>
  <1>1. /\ x \in DOMAIN Nesting
        /\ ~IsArray(x) => b = EncodeJson(x) /\ i = Meaning(x)
        /\ IsArray(x) =>
              \E key : IsString(key) /\ b = EncodeJson(JsonArray(<<f, key>>)) /\ i = JsonArray(<<f, key>>)
    BY BytesAre
  <1>2. /\ y \in DOMAIN Nesting
        /\ ~IsArray(y) => c = EncodeJson(y) /\ j = Meaning(y)
        /\ IsArray(y) =>
              \E key : IsString(key) /\ c = EncodeJson(JsonArray(<<g, key>>)) /\ j = JsonArray(<<g, key>>)
    BY BytesAre
  <1>3. IsString(f) /\ IsString(g)
    BY DEF IsString, JsonString, KindOf
  <1> HIDE DEF x, y, b, c, i, j, f, g
  <1>4. ASSUME NEW v \in DOMAIN Nesting, ~IsArray(v), NEW s, NEW t, IsString(s), IsString(t)
        PROVE  /\ EncodeJson(v) # EncodeJson(JsonArray(<<s, t>>))
               /\ Meaning(v) # JsonArray(<<s, t>>)
    <2> DEFINE rest == FlattenSeq(PartsOf(v))
               list == JsonArray(<<s, t>>)
    <2>1. EncodeJson(v) = Joined(<<HeadOf(v)>>, rest) /\ IsList(rest)
      <3>1. EncodeJson(v) = Joined(<<HeadOf(v)>>, rest)
        BY EncodeIs
      <3>2. \A w : HasPart(v, w) => IsList(EncodeJson(w))
        BY EncodingIsList, PartIsLess
      <3>3. IsList(PartsOf(v)) /\ \A k \in 1 .. Len(PartsOf(v)) : IsList(PartsOf(v)[k])
        BY <3>2, PartsAre
      <3> QED
        BY <3>1, <3>3, FlattenIsList
    <2>2. EncodeJson(list) = Joined(<<head>>, Joined(<<s>>, <<t>>)) /\ IsList(Joined(<<s>>, <<t>>))
      <3>1. IsList(Joined(<<s>>, <<t>>))
        BY OneIsList, JoinIs
      <3> QED
        BY <1>4, <3>1, PairIsEncoded
    <2>3. HeadOf(v)[1] # "array"
      <3>1. KindOf(v) \in Kinds /\ ~IsArray(v)
        BY <1>4, ValueIs
      <3>2. IsNumber(v) \/ (IsPrimitive(v) /\ ~IsNumber(v)) \/ KindOf(v) = "object"
        BY <3>1 DEF IsNumber, IsPrimitive, IsArray
      <3>3. IsNumber(v) => HeadOf(v)[1] \in {"integer", "double"}
        BY HeadTells
      <3>4. IsPrimitive(v) /\ ~IsNumber(v) => HeadOf(v)[1] \in {"null", "boolean", "string"}
        BY HeadTells
      <3>5. KindOf(v) = "object" => HeadOf(v)[1] = "map"
        BY HeadTells
      <3> QED
        BY <3>2, <3>3, <3>4, <3>5
    <2>4. HeadOf(v) # head
      BY <2>3
    <2>5. Meaning(v) # list
      <3>1. Meaning(v)[1] = KindOf(v)
        BY MeaningIs
      <3>2. list[1] = "array"
        BY DEF JsonArray
      <3> HIDE DEF list
      <3> QED
        BY <1>4, <3>1, <3>2 DEF IsArray
    <2> HIDE DEF rest, list, head
    <2>6. EncodeJson(v) # EncodeJson(list)
      <3>1. SUFFICES ASSUME EncodeJson(v) = EncodeJson(list) PROVE FALSE
        OBVIOUS
      <3>2. Joined(<<HeadOf(v)>>, rest) = Joined(<<head>>, Joined(<<s>>, <<t>>))
        BY <2>1, <2>2, <3>1
      <3>3. HeadOf(v) = head
        BY <2>1, <2>2, <3>2, HeadCancels
      <3> QED
        BY <2>4, <3>3
    <2> QED
      BY <2>5, <2>6 DEF list
  <1>5. ASSUME NEW s, NEW t, NEW u, NEW v, IsString(s), IsString(t), IsString(u), IsString(v)
        PROVE  EncodeJson(JsonArray(<<s, t>>)) = EncodeJson(JsonArray(<<u, v>>))
                   <=> JsonArray(<<s, t>>) = JsonArray(<<u, v>>)
    <2> DEFINE list == JsonArray(<<s, t>>)
               listed == JsonArray(<<u, v>>)
    <2>1. ASSUME EncodeJson(list) = EncodeJson(listed) PROVE list = listed
      <3>1. /\ EncodeJson(list) = Joined(<<head>>, Joined(<<s>>, <<t>>))
            /\ EncodeJson(listed) = Joined(<<head>>, Joined(<<u>>, <<v>>))
        BY <1>5, PairIsEncoded
      <3>2. \A a : IsList(<<a>>)
        BY OneIsList
      <3>3. IsList(Joined(<<s>>, <<t>>)) /\ IsList(Joined(<<u>>, <<v>>))
        BY <3>2, JoinIs
      <3> HIDE DEF head, list, listed
      <3>4. Joined(<<head>>, Joined(<<s>>, <<t>>)) = Joined(<<head>>, Joined(<<u>>, <<v>>))
        BY <2>1, <3>1
      <3>5. Joined(<<s>>, <<t>>) = Joined(<<u>>, <<v>>)
        BY <3>3, <3>4, HeadCancels
      <3>6. s = u /\ <<t>> = <<v>>
        BY <3>2, <3>5, HeadCancels
      <3>7. t = v
        BY <3>6
      <3> QED
        BY <3>6, <3>7 DEF list, listed
    <2>2. ASSUME list = listed PROVE EncodeJson(list) = EncodeJson(listed)
      <3> HIDE DEF list, listed
      <3> QED
        BY <2>2
    <2> HIDE DEF list, listed
    <2>3. EncodeJson(list) = EncodeJson(listed) <=> list = listed
      BY <2>1, <2>2
    <2> QED
      BY <2>3 DEF list, listed
  <1>6. CASE ~IsArray(x) /\ ~IsArray(y)
    <2>1. EncodeJson(x) = EncodeJson(y) <=> Meaning(x) = Meaning(y)
      BY <1>1, <1>2, EncodingIsCanonical
    <2> QED
      BY <1>1, <1>2, <1>6, <2>1 DEF b, c, i, j
  <1>7. CASE ~IsArray(x) /\ IsArray(y)
    <2>1. PICK key : IsString(key) /\ c = EncodeJson(JsonArray(<<g, key>>)) /\ j = JsonArray(<<g, key>>)
      BY <1>2, <1>7
    <2>2. EncodeJson(x) # EncodeJson(JsonArray(<<g, key>>)) /\ Meaning(x) # JsonArray(<<g, key>>)
      BY <1>1, <1>3, <1>4, <1>7, <2>1
    <2>3. b # c /\ i # j
      BY <1>1, <1>7, <2>1, <2>2
    <2> QED
      BY <2>3 DEF b, c, i, j
  <1>8. CASE IsArray(x) /\ ~IsArray(y)
    <2>1. PICK key : IsString(key) /\ b = EncodeJson(JsonArray(<<f, key>>)) /\ i = JsonArray(<<f, key>>)
      BY <1>1, <1>8
    <2>2. EncodeJson(y) # EncodeJson(JsonArray(<<f, key>>)) /\ Meaning(y) # JsonArray(<<f, key>>)
      BY <1>2, <1>3, <1>4, <1>8, <2>1
    <2>3. b # c /\ i # j
      BY <1>2, <1>8, <2>1, <2>2
    <2> QED
      BY <2>3 DEF b, c, i, j
  <1>9. CASE IsArray(x) /\ IsArray(y)
    <2>1. PICK key : IsString(key) /\ b = EncodeJson(JsonArray(<<f, key>>)) /\ i = JsonArray(<<f, key>>)
      BY <1>1, <1>9
    <2>2. PICK keyed : IsString(keyed) /\ c = EncodeJson(JsonArray(<<g, keyed>>)) /\ j = JsonArray(<<g, keyed>>)
      BY <1>2, <1>9
    <2>3. EncodeJson(JsonArray(<<f, key>>)) = EncodeJson(JsonArray(<<g, keyed>>))
              <=> JsonArray(<<f, key>>) = JsonArray(<<g, keyed>>)
      BY <1>3, <1>5, <2>1, <2>2
    <2>4. b = c <=> i = j
      BY <2>1, <2>2, <2>3
    <2> QED
      BY <2>4 DEF b, c, i, j
  <1> QED
    BY <1>6, <1>7, <1>8, <1>9

\* The bytes of the last conversion are those of its context.
ConversionInv ==
    \/ conversion = NoConversion
    \/ \E time \in Times :
          /\ conversion.context \in EvaluationContexts
          /\ conversion.bytes = BytesToHash(conversion.context, conversion.flagKey, time)

\* That is so in every state.
LEMMA ConvertedAlways == ConversionSpec => []ConversionInv
  <1>1. ConversionInit => ConversionInv
    BY DEF ConversionInit, ConversionInv
  <1>2. ConversionInv /\ [ConversionNext]_conversion => ConversionInv'
    <2>1. ASSUME NEW ctx \in EvaluationContexts, NEW flagKey \in FlagKeys, NEW time \in Times,
                 ConvertContext(ctx, flagKey, time)
          PROVE  ConversionInv'
      BY <2>1 DEF ConvertContext, ConversionInv
    <2>2. ConversionInv /\ UNCHANGED conversion => ConversionInv'
      BY DEF ConversionInv
    <2> QED
      BY <2>1, <2>2 DEF ConversionNext
  <1> QED
    BY <1>1, <1>2, PTL DEF ConversionSpec

\* Contexts are hashed alike just if what tells their users apart is the same, and
\* a value that a flag was evaluated to counts for what the flag's definition says.
THEOREM BucketsAreOfValues ==
  ASSUME IsInterpreter, AreConversions
  PROVE  ConversionSpec => []BucketsFollowValues
  <1>1. ConversionInv => BucketsFollowValues
    <2> SUFFICES ASSUME ConversionInv, conversion.bytes # <<>>
                 PROVE  BucketsFollowValues
      BY DEF BucketsFollowValues
    <2>1. conversion # NoConversion
      BY DEF NoConversion
    <2>2. PICK now \in Times :
              /\ conversion.context \in EvaluationContexts
              /\ conversion.bytes = BytesToHash(conversion.context, conversion.flagKey, now)
      BY <2>1 DEF ConversionInv
    <2>3. ASSUME NEW ctx \in EvaluationContexts, NEW flagKey \in FlagKeys, NEW time \in Times,
                 BytesToHash(ctx, flagKey, time) # <<>>
          PROVE  BytesToHash(ctx, flagKey, time) = conversion.bytes
                     <=> Identity(ctx, flagKey) = Identity(conversion.context, conversion.flagKey)
      BY <2>2, <2>3, BytesTell
    <2>4. ASSUME NEW variant \in Variants, NEW x,
                 x = [type |-> "Value", value |-> JsonToValue(variant)], FitsThroughout(variant)
          PROVE  Meaning(AttributeToJson(x)) = Meaning(variant)
      <3>1. AttributeToJson(x) = ValueToJson(JsonToValue(variant))
        BY <2>4 DEF AttributeToJson
      <3>2. variant \in DOMAIN Nesting
        BY ContextsAssumption
      <3> QED
        BY <2>4, <3>1, <3>2, ValuesComeBack
    <2> QED
      BY <2>3, <2>4 DEF BucketsFollowValues
  <1> QED
    BY <1>1, ConvertedAlways, PTL
=============================================================================
