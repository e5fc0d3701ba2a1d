--------------------------- MODULE TargetingProofs ---------------------------
(***************************************************************************)
(* The operations of flagd on versions and on fractions.                   *)
(*                                                                         *)
(* The precedence of versions is a total order, whatever the numbers and   *)
(* identifiers; the verdicts of the code-readiness hook and the            *)
(* comparisons and ranges of sem_ver follow it, and the two agree.         *)
(*                                                                         *)
(* fractional gives every user a variant, every variant its share of the   *)
(* hashes to within one, and keeps users where they are when weight moves, *)
(* for every number of distributions and every width of hashes.            *)
(***************************************************************************)
EXTENDS Precedence, Induction, FiniteSetTheorems, SequenceTheorems

Pieces == Seq(Nat)
Versions == [core : {core \in Seq(Nat) : Len(core) = 3}, pre : Seq(Pieces)]

-----------------------------------------------------------------------------
(* Text                                                                    *)

\* p comes before q: they agree up to a place in q where p is smaller or ends.
TextBefore(p, q) ==
    \E i \in 1 .. Len(q) :
        /\ i <= Len(p) + 1
        /\ \A j \in 1 .. i - 1 : p[j] = q[j]
        /\ i <= Len(p) => p[i] < q[i]

\* Either two texts differ at a first place, or one begins with the other.
LEMMA TextOrder ==
  ASSUME NEW p \in Pieces, NEW q \in Pieces
  PROVE  \/ CompareText(p, q) = -1 /\ TextBefore(p, q)
         \/ CompareText(p, q) = 0 /\ p = q
         \/ CompareText(p, q) = 1 /\ TextBefore(q, p)
  <1>1. CASE Differences(p, q) = {}
    <2>1. \A j \in 1 .. Len(p) : j <= Len(q) => p[j] = q[j]
      BY <1>1 DEF Differences, Pieces
    <2>2. CASE Len(p) = Len(q)
      <3>1. p = q
        <4>1. p \in Seq(Nat) /\ q \in Seq(Nat)
          BY DEF Pieces
        <4>2. \A k \in 1 .. Len(p) : p[k] = q[k]
          BY <2>1, <2>2, <4>1
        <4> QED
          BY <2>2, <4>1, <4>2
      <3> QED
        BY <1>1, <2>2, <3>1 DEF CompareText, CompareLengths
    <2>3. CASE Len(p) < Len(q)
      <3>1. Len(p) + 1 \in 1 .. Len(q)
        BY <2>3 DEF Pieces
      <3>2. \A j \in 1 .. (Len(p) + 1) - 1 : p[j] = q[j]
        BY <2>1, <2>3 DEF Pieces
      <3>3. ~(Len(p) + 1 <= Len(p))
        BY DEF Pieces
      <3>4. TextBefore(p, q)
        BY <3>1, <3>2, <3>3 DEF TextBefore
      <3> QED
        BY <1>1, <2>3, <3>4 DEF CompareText, CompareLengths, Sign, Pieces
    <2>4. CASE Len(p) > Len(q)
      <3>1. Len(q) + 1 \in 1 .. Len(p)
        BY <2>4 DEF Pieces
      <3>2. \A j \in 1 .. (Len(q) + 1) - 1 : q[j] = p[j]
        BY <2>1, <2>4 DEF Pieces
      <3>3. ~(Len(q) + 1 <= Len(q))
        BY DEF Pieces
      <3>4. TextBefore(q, p)
        BY <3>1, <3>2, <3>3 DEF TextBefore
      <3> QED
        BY <1>1, <2>4, <3>4 DEF CompareText, CompareLengths, Sign, Pieces
    <2> QED
      BY <2>2, <2>3, <2>4 DEF Pieces
  <1>2. CASE Differences(p, q) # {}
    <2> DEFINE i == Min(Differences(p, q))
    <2>1. Differences(p, q) \in SUBSET Nat
      BY DEF Differences, Pieces
    <2>2. i \in Differences(p, q) /\ \A n \in Differences(p, q) : i <= n
      BY <1>2, <2>1, LeastNumber
    <2>3. /\ i \in 1 .. Len(p) /\ i \in 1 .. Len(q) /\ p[i] # q[i]
          /\ \A j \in 1 .. i - 1 : p[j] = q[j]
      <3> HIDE DEF i
      <3>1. i \in 1 .. Len(p) /\ i \in 1 .. Len(q) /\ p[i] # q[i]
        BY <2>2 DEF Differences, Pieces
      <3>2. ASSUME NEW j \in 1 .. i - 1, p[j] # q[j] PROVE FALSE
        <4>1. j \in Differences(p, q)
          BY <3>1, <3>2 DEF Differences, Pieces
        <4> QED
          BY <2>2, <3>1, <4>1 DEF Pieces
      <3> QED
        BY <3>1, <3>2
    <2>4. p[i] \in Nat /\ q[i] \in Nat
      BY <2>3 DEF Pieces
    <2>5. CompareText(p, q) = Sign(p[i] < q[i])
      BY <1>2 DEF CompareText
    <2> HIDE DEF i
    <2>6. Len(p) \in Nat /\ Len(q) \in Nat /\ i \in Nat /\ i <= Len(p) + 1 /\ i <= Len(q) + 1
      BY <2>3 DEF Pieces
    <2>7. CASE p[i] < q[i]
      <3>1. TextBefore(p, q)
        BY <2>3, <2>7, <2>6 DEF TextBefore
      <3> QED
        BY <2>5, <2>7, <3>1 DEF Sign
    <2>8. CASE q[i] < p[i]
      <3>1. TextBefore(q, p)
        BY <2>3, <2>8, <2>6 DEF TextBefore
      <3>2. ~(p[i] < q[i])
        BY <2>4, <2>8
      <3> QED
        BY <2>5, <3>1, <3>2 DEF Sign
    <2> QED
      BY <2>3, <2>4, <2>7, <2>8
  <1> QED
    BY <1>1, <1>2

\* Of two texts at most one comes before the other.
LEMMA TextOneWay ==
  ASSUME NEW p \in Pieces, NEW q \in Pieces, TextBefore(p, q)
  PROVE  ~TextBefore(q, p) /\ p # q
  <1>1. /\ Len(p) \in Nat /\ Len(q) \in Nat
        /\ \A i \in 1 .. Len(p) : p[i] \in Nat
        /\ \A i \in 1 .. Len(q) : q[i] \in Nat
    BY DEF Pieces
  <1>2. PICK i \in 1 .. Len(q) : /\ i <= Len(p) + 1
                                 /\ \A j \in 1 .. i - 1 : p[j] = q[j]
                                 /\ i <= Len(p) => p[i] < q[i]
    BY DEF TextBefore
  <1>3. p # q
    BY <1>1, <1>2
  <1>4. ASSUME NEW k \in 1 .. Len(p), k <= Len(q) + 1,
               \A j \in 1 .. k - 1 : q[j] = p[j], k <= Len(q) => q[k] < p[k]
        PROVE  FALSE
    <2>1. CASE k < i
      BY <1>1, <1>2, <1>4, <2>1
    <2>2. CASE k = i
      BY <1>1, <1>2, <1>4, <2>2
    <2>3. CASE k > i
      BY <1>1, <1>2, <1>4, <2>3
    <2> QED
      BY <2>1, <2>2, <2>3
  <1> QED
    BY <1>3, <1>4 DEF TextBefore

LEMMA TextTransitive ==
  ASSUME NEW p \in Pieces, NEW q \in Pieces, NEW r \in Pieces,
         TextBefore(p, q), TextBefore(q, r)
  PROVE  TextBefore(p, r)
  <1>1. PICK i \in 1 .. Len(q) :
           /\ i <= Len(p) + 1
           /\ \A j \in 1 .. i - 1 : p[j] = q[j]
           /\ i <= Len(p) => p[i] < q[i]
    BY DEF TextBefore
  <1>2. PICK k \in 1 .. Len(r) :
           /\ k <= Len(q) + 1
           /\ \A j \in 1 .. k - 1 : q[j] = r[j]
           /\ k <= Len(q) => q[k] < r[k]
    BY DEF TextBefore
  <1>3. \A j \in 1 .. Len(p) : p[j] \in Nat
    BY DEF Pieces
  <1>4. \A j \in 1 .. Len(q) : q[j] \in Nat
    BY DEF Pieces
  <1>5. \A j \in 1 .. Len(r) : r[j] \in Nat
    BY DEF Pieces
  <1>6. Len(p) \in Nat /\ Len(q) \in Nat /\ Len(r) \in Nat
    BY DEF Pieces
  <1>7. CASE i <= k
    <2>1. i \in 1 .. Len(r) /\ \A j \in 1 .. i - 1 : p[j] = r[j]
      BY <1>1, <1>2, <1>6, <1>7
    <2>2. i <= Len(p) => p[i] < r[i]
      BY <1>1, <1>2, <1>3, <1>4, <1>5, <1>6, <1>7
    <2> QED
      BY <1>1, <2>1, <2>2 DEF TextBefore
  <1>8. CASE k < i
    <2>1. k <= Len(p) /\ \A j \in 1 .. k - 1 : p[j] = r[j]
      BY <1>1, <1>2, <1>6, <1>8
    <2>2. p[k] < r[k]
      BY <1>1, <1>2, <1>6, <1>8
    <2> QED
      BY <1>2, <1>6, <2>1, <2>2 DEF TextBefore
  <1> QED
    BY <1>6, <1>7, <1>8
-----------------------------------------------------------------------------
(* Identifiers                                                             *)

\* Numeric identifiers by length, then as text, and before all others.
IdentifierBefore(p, q) ==
    IF IsNumeric(p) THEN
        ~IsNumeric(q) \/ Len(p) < Len(q) \/ (Len(p) = Len(q) /\ TextBefore(p, q))
    ELSE ~IsNumeric(q) /\ TextBefore(p, q)

LEMMA IdentifierOrder ==
  ASSUME NEW p \in Pieces, NEW q \in Pieces
  PROVE  \/ CompareIdentifiers(p, q) = -1 /\ IdentifierBefore(p, q)
         \/ CompareIdentifiers(p, q) = 0 /\ p = q
         \/ CompareIdentifiers(p, q) = 1 /\ IdentifierBefore(q, p)
  <1>1. IsNumeric(p) \in BOOLEAN /\ IsNumeric(q) \in BOOLEAN
    BY DEF IsNumeric
  <1>2. Len(p) \in Nat /\ Len(q) \in Nat
    BY DEF Pieces
  <1> QED
    BY <1>1, <1>2, TextOrder
       DEF CompareIdentifiers, CompareNumeric, CompareLengths, Sign, IdentifierBefore

LEMMA IdentifierOneWay ==
  ASSUME NEW p \in Pieces, NEW q \in Pieces, IdentifierBefore(p, q)
  PROVE  ~IdentifierBefore(q, p) /\ p # q
  <1>1. Len(p) \in Nat /\ Len(q) \in Nat
    BY DEF Pieces
  <1> QED
    BY <1>1, TextOneWay DEF IdentifierBefore

LEMMA IdentifierTransitive ==
  ASSUME NEW p \in Pieces, NEW q \in Pieces, NEW r \in Pieces,
         IdentifierBefore(p, q), IdentifierBefore(q, r)
  PROVE  IdentifierBefore(p, r)
  <1>1. Len(p) \in Nat /\ Len(q) \in Nat /\ Len(r) \in Nat
    BY DEF Pieces
  <1> QED
    BY <1>1, TextTransitive DEF IdentifierBefore

-----------------------------------------------------------------------------
(* Pre-releases                                                            *)

\* As text, with identifiers for characters; but none at all comes last.
PreBefore(p, q) ==
    IF q = <<>> THEN p # <<>>
    ELSE /\ p # <<>>
         /\ \E i \in 1 .. Len(q) :
               /\ i <= Len(p) + 1
               /\ \A j \in 1 .. i - 1 : p[j] = q[j]
               /\ i <= Len(p) => IdentifierBefore(p[i], q[i])

LEMMA PreOrder ==
  ASSUME NEW p \in Seq(Pieces), NEW q \in Seq(Pieces)
  PROVE  \/ ComparePreReleases(p, q) = -1 /\ PreBefore(p, q)
         \/ ComparePreReleases(p, q) = 0 /\ p = q
         \/ ComparePreReleases(p, q) = 1 /\ PreBefore(q, p)
  <1>1. CASE p = <<>> \/ q = <<>>
    BY <1>1 DEF ComparePreReleases, PreBefore, CompareLengths
  <1> SUFFICES ASSUME p # <<>>, q # <<>>
               PROVE  \/ ComparePreReleases(p, q) = -1 /\ PreBefore(p, q)
                      \/ ComparePreReleases(p, q) = 0 /\ p = q
                      \/ ComparePreReleases(p, q) = 1 /\ PreBefore(q, p)
    BY <1>1
  <1>2. CASE Differences(p, q) = {}
    <2>1. \A j \in 1 .. Len(p) : j <= Len(q) => p[j] = q[j]
      BY <1>2 DEF Differences
    <2>2. ComparePreReleases(p, q) = CompareLengths(p, q)
      BY <1>2 DEF ComparePreReleases
    <2>3. CASE Len(p) = Len(q)
      <3>1. p = q
        BY <2>1, <2>3
      <3> QED
        BY <2>2, <2>3, <3>1 DEF CompareLengths
    <2>4. CASE Len(p) < Len(q)
      <3>1. Len(p) + 1 \in 1 .. Len(q)
        BY <2>4
      <3>2. \A j \in 1 .. (Len(p) + 1) - 1 : p[j] = q[j]
        BY <2>1, <2>4
      <3>3. ~(Len(p) + 1 <= Len(p))
        OBVIOUS
      <3>4. PreBefore(p, q)
        BY <3>1, <3>2, <3>3 DEF PreBefore
      <3> QED
        BY <2>2, <2>4, <3>4 DEF CompareLengths, Sign
    <2>5. CASE Len(p) > Len(q)
      <3>1. Len(q) + 1 \in 1 .. Len(p)
        BY <2>5
      <3>2. \A j \in 1 .. (Len(q) + 1) - 1 : q[j] = p[j]
        BY <2>1, <2>5
      <3>3. ~(Len(q) + 1 <= Len(q))
        OBVIOUS
      <3>4. PreBefore(q, p)
        BY <3>1, <3>2, <3>3 DEF PreBefore
      <3> QED
        BY <2>2, <2>5, <3>4 DEF CompareLengths, Sign
    <2> QED
      BY <2>3, <2>4, <2>5
  <1>3. CASE Differences(p, q) # {}
    <2> DEFINE i == Min(Differences(p, q))
    <2>1. Differences(p, q) \in SUBSET Nat
      BY DEF Differences
    <2>2. i \in Differences(p, q) /\ \A n \in Differences(p, q) : i <= n
      BY <1>3, <2>1, LeastNumber
    <2>3. ComparePreReleases(p, q) = CompareIdentifiers(p[i], q[i])
      BY <1>3 DEF ComparePreReleases
    <2> HIDE DEF i
    <2>4. i \in 1 .. Len(p) /\ i \in 1 .. Len(q) /\ p[i] # q[i]
      BY <2>2 DEF Differences
    <2>5. ASSUME NEW j \in 1 .. i - 1, p[j] # q[j] PROVE FALSE
      <3>1. j \in Differences(p, q)
        BY <2>4, <2>5 DEF Differences
      <3> QED
        BY <2>2, <2>4, <3>1
    <2>6. p[i] \in Pieces /\ q[i] \in Pieces
      BY <2>4
    <2>7. CASE IdentifierBefore(p[i], q[i])
      <3>1. CompareIdentifiers(p[i], q[i]) = -1
        BY <2>6, <2>7, IdentifierOrder, IdentifierOneWay
      <3>2. PreBefore(p, q)
        BY <2>4, <2>5, <2>7 DEF PreBefore
      <3> QED
        BY <2>3, <3>1, <3>2
    <2>8. CASE IdentifierBefore(q[i], p[i])
      <3>1. CompareIdentifiers(p[i], q[i]) = 1
        BY <2>6, <2>8, IdentifierOrder, IdentifierOneWay
      <3>2. PreBefore(q, p)
        BY <2>4, <2>5, <2>8 DEF PreBefore
      <3> QED
        BY <2>3, <3>1, <3>2
    <2> QED
      BY <2>4, <2>6, <2>7, <2>8, IdentifierOrder
  <1> QED
    BY <1>2, <1>3

LEMMA PreOneWay ==
  ASSUME NEW p \in Seq(Pieces), NEW q \in Seq(Pieces), PreBefore(p, q)
  PROVE  ~PreBefore(q, p) /\ p # q
  <1>1. CASE q = <<>>
    BY <1>1 DEF PreBefore
  <1>2. CASE q # <<>>
    <2>1. PICK i \in 1 .. Len(q) :
             /\ i <= Len(p) + 1
             /\ \A j \in 1 .. i - 1 : p[j] = q[j]
             /\ i <= Len(p) => IdentifierBefore(p[i], q[i])
      BY <1>2 DEF PreBefore
    <2>2. p # q
      BY <2>1, IdentifierOneWay
    <2>3. ASSUME NEW k \in 1 .. Len(p),
                 k <= Len(q) + 1,
                 \A j \in 1 .. k - 1 : q[j] = p[j],
                 k <= Len(q) => IdentifierBefore(q[k], p[k])
          PROVE  FALSE
      <3>1. CASE i < k
        <4>1. IdentifierBefore(p[i], q[i]) /\ q[i] = p[i]
          BY <2>1, <2>3, <3>1
        <4>2. p[i] \in Pieces /\ q[i] \in Pieces
          BY <3>1
        <4> QED
          BY <4>1, <4>2, IdentifierOneWay
      <3>2. CASE k < i
        BY <2>1, <2>3, <3>2, IdentifierOneWay
      <3>3. CASE i = k
        BY <2>1, <2>3, <3>3, IdentifierOneWay
      <3> QED
        BY <3>1, <3>2, <3>3
    <2> QED
      BY <1>2, <2>2, <2>3 DEF PreBefore
  <1> QED
    BY <1>1, <1>2

LEMMA PreTransitive ==
  ASSUME NEW p \in Seq(Pieces), NEW q \in Seq(Pieces), NEW r \in Seq(Pieces),
         PreBefore(p, q), PreBefore(q, r)
  PROVE  PreBefore(p, r)
  <1>1. p # <<>> /\ q # <<>>
    BY DEF PreBefore
  <1>2. CASE r = <<>>
    BY <1>1, <1>2 DEF PreBefore
  <1>3. CASE r # <<>>
    <2>1. PICK i \in 1 .. Len(q) :
             /\ i <= Len(p) + 1
             /\ \A j \in 1 .. i - 1 : p[j] = q[j]
             /\ i <= Len(p) => IdentifierBefore(p[i], q[i])
      BY <1>1 DEF PreBefore
    <2>2. PICK k \in 1 .. Len(r) :
             /\ k <= Len(q) + 1
             /\ \A j \in 1 .. k - 1 : q[j] = r[j]
             /\ k <= Len(q) => IdentifierBefore(q[k], r[k])
      BY <1>3 DEF PreBefore
    <2>3. CASE i <= k
      <3>1. i \in 1 .. Len(r) /\ \A j \in 1 .. i - 1 : p[j] = r[j]
        BY <2>1, <2>2, <2>3
      <3>2. ASSUME i <= Len(p) PROVE IdentifierBefore(p[i], r[i])
        <4>1. p[i] \in Pieces /\ q[i] \in Pieces /\ r[i] \in Pieces
          BY <3>1, <3>2
        <4>2. IdentifierBefore(p[i], q[i])
          BY <2>1, <3>2
        <4>3. CASE i < k
          BY <2>2, <4>2, <4>3
        <4>4. CASE i = k
          <5>1. IdentifierBefore(q[i], r[i])
            BY <2>2, <4>4
          <5> QED
            BY <4>1, <4>2, <5>1, IdentifierTransitive
        <4> QED
          BY <2>3, <4>3, <4>4
      <3> QED
        BY <1>1, <1>3, <2>1, <3>1, <3>2 DEF PreBefore
    <2>4. CASE k < i
      <3>1. k <= Len(p) /\ \A j \in 1 .. k - 1 : p[j] = r[j]
        BY <2>1, <2>2, <2>4
      <3>2. IdentifierBefore(p[k], r[k])
        BY <2>1, <2>2, <2>4
      <3> QED
        BY <1>1, <1>3, <2>2, <3>1, <3>2 DEF PreBefore
    <2> QED
      BY <2>3, <2>4
  <1> QED
    BY <1>2, <1>3

-----------------------------------------------------------------------------
(* Versions                                                                *)

VersionBefore(v, w) ==
    \/ TextBefore(v.core, w.core)
    \/ v.core = w.core /\ PreBefore(v.pre, w.pre)

LEMMA VersionOrder ==
  ASSUME NEW v \in Versions, NEW w \in Versions
  PROVE  \/ Compare(v, w) = -1 /\ VersionBefore(v, w)
         \/ Compare(v, w) = 0 /\ v = w
         \/ Compare(v, w) = 1 /\ VersionBefore(w, v)
  <1>1. /\ v.core \in Pieces /\ w.core \in Pieces
        /\ v.pre \in Seq(Pieces) /\ w.pre \in Seq(Pieces)
    BY DEF Versions, Pieces
  <1>2. CASE v.core # w.core
    BY <1>1, <1>2, TextOrder DEF Compare, VersionBefore
  <1>3. CASE v.core = w.core
    <2>1. v.pre = w.pre => v = w
      BY <1>3 DEF Versions
    <2> QED
      BY <1>1, <1>3, <2>1, PreOrder DEF Compare, VersionBefore
  <1> QED
    BY <1>2, <1>3

LEMMA VersionOneWay ==
  ASSUME NEW v \in Versions, NEW w \in Versions, VersionBefore(v, w)
  PROVE  ~VersionBefore(w, v) /\ v # w
  <1>1. /\ v.core \in Pieces /\ w.core \in Pieces
        /\ v.pre \in Seq(Pieces) /\ w.pre \in Seq(Pieces)
    BY DEF Versions, Pieces
  <1> QED
    BY <1>1, TextOneWay, PreOneWay DEF VersionBefore

\* Swapping the operands of Compare turns its sign, and only equal versions
\* (build metadata aside) compare as equal.
THEOREM ComparisonTurns ==
  \A v, w \in Versions :
      /\ Compare(v, w) = -Compare(w, v)
      /\ Compare(v, w) = 0 <=> v = w
  BY VersionOrder, VersionOneWay

\* Precedence has no cycles: a version at most as high as a second, which is
\* at most as high as a third, is at most as high as the third.
THEOREM PrecedenceIsTransitive ==
  \A u, v, w \in Versions :
      Compare(u, v) <= 0 /\ Compare(v, w) <= 0 => Compare(u, w) <= 0
  <1> SUFFICES ASSUME NEW u \in Versions, NEW v \in Versions, NEW w \in Versions,
                      Compare(u, v) <= 0, Compare(v, w) <= 0
               PROVE  Compare(u, w) <= 0
    OBVIOUS
  <1>1. VersionBefore(u, v) \/ u = v
    BY VersionOrder
  <1>2. VersionBefore(v, w) \/ v = w
    BY VersionOrder
  <1>3. /\ u.core \in Pieces /\ v.core \in Pieces /\ w.core \in Pieces
        /\ u.pre \in Seq(Pieces) /\ v.pre \in Seq(Pieces) /\ w.pre \in Seq(Pieces)
    BY DEF Versions, Pieces
  <1>4. VersionBefore(u, w) \/ u = w
    BY <1>1, <1>2, <1>3, TextTransitive, PreTransitive DEF VersionBefore
  <1> QED
    BY <1>4, VersionOrder, VersionOneWay

-----------------------------------------------------------------------------
(* The hook's verdicts                                                       *)

\* Three numbers in a row are a sequence.
LEMMA ThreeNumbers ==
  ASSUME NEW parts \in [1 .. 3 -> Nat]
  PROVE  parts \in Seq(Nat) /\ Len(parts) = 3
  <1>1. parts \in Seq(Nat)
    BY SeqDef
  <1> QED
    BY <1>1, LenProperties

\* What the hook's parser reads is a version.
LEMMA ReadVersion ==
  ASSUME NEW text \in VersionText, HookParse(text) # Refused
  PROVE  HookParse(text) \in Versions
  <1> DEFINE numbers == [i \in DOMAIN text.core |-> HookNumber(text.core[i])]
             core == Core(numbers)
  <1>1. HookParse(text) = Version(core, text.pre) /\ WellFormed(core)
    BY DEF HookParse
  <1>2. \A piece : HookNumber(piece) \in Nat \cup {NotANumber}
    BY NumberAssumption DEF HookNumber, NotANumber
  <1>3. text.core \in Seq(Pieces) /\ text.pre \in Seq(Pieces)
    BY DEF VersionText, Pieces
  <1>4. DOMAIN numbers = 1 .. Len(text.core) /\ Len(numbers) = Len(text.core)
    BY <1>3
  <1>5. \A i \in 1 .. 3 : core[i] \in Nat
    <2>1. \A i \in 1 .. 3 : i <= Len(numbers) => numbers[i] \in Nat \cup {NotANumber}
      BY <1>2, <1>3, <1>4
    <2> HIDE DEF numbers
    <2> QED
      BY <1>1, <2>1 DEF Core, WellFormed
  <1>6. core \in [1 .. 3 -> Nat]
    BY <1>5 DEF Core
  <1> HIDE DEF core
  <1>7. core \in Seq(Nat) /\ Len(core) = 3
    BY <1>6, ThreeNumbers
  <1> QED
    BY <1>1, <1>3, <1>7 DEF Version, Versions, Pieces

\* The hook holds the version that Create read, and a verdict is that on the
\* minimum it was asked about.
HookInv ==
    /\ hook # NoHook => /\ hook.version \in VersionText /\ HookParse(hook.version) # Refused
                        /\ hook.current = HookParse(hook.version)
                        /\ hook.current \in Versions
    /\ verdict # "none" => /\ hook # NoHook
                           /\ minimum \in MetadataValues
                           /\ verdict = VerdictOn(minimum)

LEMMA HookInvAlways == HookSpec => []HookInv
  <1>1. HookInit => HookInv
    BY DEF HookInit, HookInv
  <1>2. HookInv /\ [HookNext]_hookVars => HookInv'
    <2> SUFFICES ASSUME HookInv, [HookNext]_hookVars PROVE HookInv'
      OBVIOUS
    <2>1. ASSUME NEW version \in BinaryVersions, NEW strict \in BOOLEAN,
                 NEW keyIsEmpty \in BOOLEAN, Create(version, strict, keyIsEmpty)
          PROVE  HookInv'
      <3>1. CASE hook' = NoHook
        BY <2>1, <3>1 DEF Create, HookInv
      <3>2. CASE hook' # NoHook
        <4>1. version \in VersionText /\ HookParse(version) # Refused
          BY <2>1, <3>2, TextAssumption DEF Create
        <4>2. hook'.current = HookParse(version) /\ hook'.version = version
          BY <2>1, <3>2 DEF Create
        <4> QED
          BY <2>1, <4>1, <4>2, ReadVersion DEF Create, HookInv
      <3> QED
        BY <3>1, <3>2
    <2>2. ASSUME NEW value \in MetadataValues, After(value) PROVE HookInv'
      BY <2>2 DEF After, HookInv, VerdictOn, FailOrSkip
    <2>3. CASE UNCHANGED hookVars
      BY <2>3 DEF hookVars, HookInv, VerdictOn, FailOrSkip
    <2> QED
      BY <2>1, <2>2, <2>3 DEF HookNext
  <1> QED
    BY <1>1, <1>2, PTL DEF HookSpec

\* Whatever versions and minima there are, a hook that passes a minimum passes
\* every lower one, and one that fails a minimum fails every higher one.
THEOREM VerdictsAreOrdered == HookSpec => []VerdictsFollowPrecedence
  <1>1. HookInv => VerdictsFollowPrecedence
    <2> SUFFICES ASSUME HookInv, verdict # "none", IsReadable(minimum),
                        NEW other \in MetadataValues, IsReadable(other)
                 PROVE  LET order == Compare(HookParse(other), HookParse(minimum)) IN
                        /\ verdict = "passes" /\ order <= 0 => VerdictOn(other) = "passes"
                        /\ verdict = "fails" /\ order >= 0 => VerdictOn(other) = "fails"
      BY DEF VerdictsFollowPrecedence
    <2> DEFINE current == hook.current
               asked == HookParse(minimum)
               another == HookParse(other)
    <2>1. current \in Versions /\ asked \in Versions /\ another \in Versions
      BY TextAssumption, ReadVersion DEF HookInv, IsReadable
    <2>2. /\ VerdictOn(minimum) = IF Compare(current, asked) >= 0 THEN "passes" ELSE "fails"
          /\ VerdictOn(other) = IF Compare(current, another) >= 0 THEN "passes" ELSE "fails"
          /\ verdict = VerdictOn(minimum)
      BY DEF VerdictOn, Meets, HookInv
    <2> HIDE DEF current, asked, another
    <2>3. \A v, w \in Versions : Compare(v, w) \in {-1, 0, 1} /\ Compare(v, w) = -Compare(w, v)
      BY VersionOrder, ComparisonTurns
    <2>4. ASSUME Compare(current, asked) >= 0, Compare(another, asked) <= 0
          PROVE  Compare(current, another) >= 0
      <3>1. Compare(another, asked) <= 0 /\ Compare(asked, current) <= 0
        BY <2>1, <2>3, <2>4
      <3>2. Compare(another, current) <= 0
        BY <2>1, <3>1, PrecedenceIsTransitive
      <3> QED
        BY <2>1, <2>3, <3>2
    <2>5. ASSUME ~(Compare(current, asked) >= 0), Compare(another, asked) >= 0
          PROVE  ~(Compare(current, another) >= 0)
      <3>1. SUFFICES ASSUME Compare(current, another) >= 0 PROVE FALSE
        OBVIOUS
      <3>2. Compare(asked, another) <= 0 /\ Compare(another, current) <= 0
        BY <2>1, <2>3, <2>5, <3>1
      <3>3. Compare(asked, current) <= 0
        BY <2>1, <3>2, PrecedenceIsTransitive
      <3> QED
        BY <2>1, <2>3, <2>5, <3>3
    <2> QED
      BY <2>2, <2>4, <2>5 DEF asked, another
  <1> QED
    BY <1>1, HookInvAlways, PTL

-----------------------------------------------------------------------------
(* sem_ver                                                                 *)

\* What a parser made of three numbers is a version.
LEMMA CoreIsVersion ==
  ASSUME NEW core \in [1 .. 3 -> Nat], NEW pre \in Seq(Pieces)
  PROVE  Version(core, pre) \in Versions
  BY ThreeNumbers DEF Version, Versions

\* What the operation's parser reads is a version.
LEMMA RuleReadsVersion ==
  ASSUME NEW text \in VersionText, RuleParse(text) # Refused
  PROVE  RuleParse(text) \in Versions /\ RuleParse(text).core \in [1 .. 3 -> Nat]
  <1> DEFINE numbers == [i \in DOMAIN text.core |-> RuleNumber(text.core[i])]
             core == Core(numbers)
  <1>1. RuleParse(text) = Version(core, text.pre) /\ WellFormed(core)
    BY DEF RuleParse
  <1>2. \A piece : RuleNumber(piece) \in Nat \cup {NotANumber}
    BY NumberAssumption DEF RuleNumber, NotANumber
  <1>3. text.core \in Seq(Pieces) /\ text.pre \in Seq(Pieces)
    BY DEF VersionText, Pieces
  <1>4. DOMAIN numbers = 1 .. Len(text.core) /\ Len(numbers) = Len(text.core)
    BY <1>3
  <1>5. \A i \in 1 .. 3 : core[i] \in Nat
    <2>1. \A i \in 1 .. 3 : i <= Len(numbers) => numbers[i] \in Nat \cup {NotANumber}
      BY <1>2, <1>3, <1>4
    <2> HIDE DEF numbers
    <2> QED
      BY <1>1, <2>1 DEF Core, WellFormed
  <1>6. core \in [1 .. 3 -> Nat]
    BY <1>5 DEF Core
  <1> HIDE DEF core
  <1> QED
    BY <1>1, <1>3, <1>6, CoreIsVersion DEF Version

\* A text that sem_ver can compare.
Readable(text) == text \in VersionText /\ RuleParse(text) # Refused

\* sem_ver answers what the operator says of the two versions.
LEMMA SemVerHolds ==
  ASSUME NEW v, NEW w, NEW op \in Operators, Readable(v), Readable(w)
  PROVE  /\ SemVer(<<v, op, w>>) = Answer(Holds(RuleParse(v), op, RuleParse(w)))
         /\ Is(v, op, w) = Holds(RuleParse(v), op, RuleParse(w))
  <1> DEFINE args == <<v, op, w>>
  <1>1. args[1] = v /\ args[2] = op /\ args[3] = w /\ Len(args) = 3
    OBVIOUS
  <1>2. args \in Seq(VersionText \cup Operators)
    BY DEF Readable
  <1> HIDE DEF args
  <1>3. AreStrings(args, 3)
    <2>1. args # NotAnArray
      BY <1>2, MarkerAssumption
    <2>2. v \in VersionText /\ w \in VersionText
      BY DEF Readable
    <2>3. \A text \in VersionText \cup Operators : text \notin {NotAText, Failed}
      BY MarkerAssumption
    <2>4. \A i \in 1 .. 3 : args[i] \notin {NotAText, Failed}
      BY <1>1, <2>2, <2>3
    <2> QED
      BY <1>1, <2>1, <2>4 DEF AreStrings
  <1>4. SemVer(args) = Answer(Holds(RuleParse(v), op, RuleParse(w)))
    BY <1>1, <1>3 DEF SemVer, Readable
  <1>5. SemVer(args).value = Holds(RuleParse(v), op, RuleParse(w))
    BY <1>4 DEF Answer
  <1> USE DEF args
  <1>6. Is(v, op, w) = SemVer(args).value
    BY DEF Is
  <1> QED
    BY <1>4, <1>5, <1>6

\* What each operator says.
LEMMA OperatorMeaning ==
  ASSUME NEW v, NEW w
  PROVE  /\ Holds(v, "=", w) = (Compare(v, w) = 0)
         /\ Holds(v, "==", w) = (Compare(v, w) = 0)
         /\ Holds(v, "!=", w) = (Compare(v, w) # 0)
         /\ Holds(v, ">", w) = (Compare(v, w) > 0)
         /\ Holds(v, "<", w) = (Compare(v, w) < 0)
         /\ Holds(v, ">=", w) = (Compare(v, w) >= 0)
         /\ Holds(v, "<=", w) = (Compare(v, w) <= 0)
         /\ Holds(v, "^", w) = (Compare(v, w) >= 0 /\ SameUpToCaret(v.core, w.core))
         /\ Holds(v, "~", w) = (Compare(v, w) >= 0 /\ SameUpToTilde(v.core, w.core))
  BY DEF Holds, ComparePrecedence

\* The last operation's result is what sem_ver answered.
CallInv == call.op = "sem_ver" => call.args \in VersionCalls /\ result = SemVer(call.args)

LEMMA CallInvAlways == OpsSpec => []CallInv
  <1>1. OpsInit => CallInv
    BY DEF OpsInit, NoCall, CallInv
  <1>2. CallInv /\ [OpsNext]_opsVars => CallInv'
    <2> SUFFICES ASSUME CallInv, [OpsNext]_opsVars PROVE CallInv'
      OBVIOUS
    <2>1. CASE \E args \in StringCalls : CallString(args)
      BY <2>1 DEF CallString, Called, CallInv
    <2>2. CASE \E args \in VersionCalls : CallSemVer(args)
      BY <2>2 DEF CallSemVer, Called, CallInv
    <2>3. CASE \E args \in FractionalCalls : CallFractional(args)
      <3>1. PICK args : CallFractional(args)
        BY <2>3
      <3>2. \A hash, weights :
                [Called("fractional", args) EXCEPT !.hash = hash, !.weights = weights].op
                    = "fractional"
        BY DEF Called
      <3>3. call'.op = "fractional"
        BY <3>1, <3>2 DEF CallFractional, Called
      <3> QED
        BY <3>3 DEF CallInv
    <2>4. CASE UNCHANGED opsVars
      BY <2>4 DEF opsVars, CallInv
    <2> QED
      BY <2>1, <2>2, <2>3, <2>4 DEF OpsNext
  <1> QED
    BY <1>1, <1>2, PTL DEF OpsSpec

\* What sem_ver has answered was readable.
LEMMA AnsweredWasReadable ==
  ASSUME NEW args \in VersionCalls, SemVer(args).ok
  PROVE  /\ Readable(args[1]) /\ Readable(args[3]) /\ args[2] \in Operators
         /\ SemVer(args).value = Holds(RuleParse(args[1]), args[2], RuleParse(args[3]))
  BY MarkerAssumption DEF SemVer, Error, Answer, Readable

\* The sign of a comparison, for versions that were read.
LEMMA OrderOfRead ==
  ASSUME NEW v, NEW w, Readable(v), Readable(w)
  PROVE  /\ Compare(RuleParse(v), RuleParse(w)) \in {-1, 0, 1}
         /\ Compare(RuleParse(v), RuleParse(w)) = -Compare(RuleParse(w), RuleParse(v))
  BY RuleReadsVersion, VersionOrder, ComparisonTurns DEF Readable

\* Whatever versions are compared, exactly one of <, = and > holds and the other
\* operators follow.
THEOREM ComparisonsAreConsistent == OpsSpec => []ComparisonsAgree
  <1>1. CallInv => ComparisonsAgree
    <2> SUFFICES ASSUME CallInv, IsComparison PROVE ComparisonsAgree
      BY DEF ComparisonsAgree
    <2> DEFINE v == call.args[1]
               w == call.args[3]
    <2>1. Readable(v) /\ Readable(w)
      BY AnsweredWasReadable DEF CallInv, IsComparison
    <2> HIDE DEF v, w
    <2>2. \A op \in Operators : /\ Is(v, op, w) = Holds(RuleParse(v), op, RuleParse(w))
                                /\ Is(w, op, v) = Holds(RuleParse(w), op, RuleParse(v))
      BY <2>1, SemVerHolds
    <2> DEFINE order == Compare(RuleParse(v), RuleParse(w))
    <2>3. /\ Is(v, "=", w) = (order = 0) /\ Is(v, "==", w) = (order = 0)
          /\ Is(v, "!=", w) = (order # 0)
          /\ Is(v, ">", w) = (order > 0) /\ Is(v, "<", w) = (order < 0)
          /\ Is(v, ">=", w) = (order >= 0) /\ Is(v, "<=", w) = (order <= 0)
      BY <2>2, OperatorMeaning DEF Operators
    <2>4. /\ Is(w, "=", v) = (Compare(RuleParse(w), RuleParse(v)) = 0)
          /\ Is(w, ">", v) = (Compare(RuleParse(w), RuleParse(v)) > 0)
      BY <2>2, OperatorMeaning DEF Operators
    <2>5. order \in {-1, 0, 1} /\ order = -Compare(RuleParse(w), RuleParse(v))
      BY <2>1, OrderOfRead
    <2>6. Compare(RuleParse(w), RuleParse(v)) \in {-1, 0, 1}
      BY <2>1, OrderOfRead
    <2> HIDE DEF order
    <2> DEFINE turned == Compare(RuleParse(w), RuleParse(v))
    <2>7. /\ (order < 0) = (turned > 0) /\ (order = 0) = (turned = 0)
          /\ order < 0 => ~(order > 0) /\ ~(order = 0)
          /\ (order <= 0) = (order < 0 \/ order = 0)
          /\ (order >= 0) = ~(order < 0) /\ (order # 0) = ~(order = 0)
      BY <2>5, <2>6
    <2> HIDE DEF turned
    <2>8. Is(v, "<", w) = Is(w, ">", v) /\ Is(v, "=", w) = Is(w, "=", v)
      BY <2>3, <2>4, <2>7, Zenon DEF turned
    <2>9. /\ Is(v, "==", w) = Is(v, "=", w)
          /\ Is(v, "<", w) => ~Is(v, ">", w) /\ ~Is(v, "=", w)
      BY <2>3, <2>7, Zenon
    <2>10. /\ Is(v, "<=", w) = (Is(v, "<", w) \/ Is(v, "=", w))
           /\ Is(v, ">=", w) = ~Is(v, "<", w) /\ Is(v, "!=", w) = ~Is(v, "=", w)
      BY <2>3, <2>7, Zenon
    <2> QED
      BY <2>8, <2>9, <2>10 DEF ComparisonsAgree, v, w
  <1> QED
    BY <1>1, CallInvAlways, PTL

\* A version that does not come after another has no greater numbers.
LEMMA CoresInOrder ==
  ASSUME NEW v \in Versions, NEW w \in Versions, Compare(v, w) <= 0
  PROVE  \/ v.core[Major] < w.core[Major]
         \/ /\ v.core[Major] = w.core[Major]
            /\ \/ v.core[Minor] < w.core[Minor]
               \/ v.core[Minor] = w.core[Minor] /\ v.core[Patch] <= w.core[Patch]
  <1>1. /\ v.core \in Seq(Nat) /\ Len(v.core) = 3
        /\ w.core \in Seq(Nat) /\ Len(w.core) = 3
    BY DEF Versions
  <1>2. /\ v.core[1] \in Nat /\ v.core[2] \in Nat /\ v.core[3] \in Nat
        /\ w.core[1] \in Nat /\ w.core[2] \in Nat /\ w.core[3] \in Nat
    <2>1. \A s \in Seq(Nat) : Len(s) = 3 => s[1] \in Nat /\ s[2] \in Nat /\ s[3] \in Nat
      OBVIOUS
    <2> QED
      BY <1>1, <2>1
  <1>3. CASE v.core = w.core
    BY <1>2, <1>3 DEF Major, Minor, Patch
  <1>4. CASE v.core # w.core
    <2>1. TextBefore(v.core, w.core)
      <3>1. VersionBefore(v, w)
        BY <1>4, VersionOrder
      <3> QED
        BY <1>4, <3>1 DEF VersionBefore
    <2>2. PICK i \in 1 .. 3 : /\ \A j \in 1 .. i - 1 : v.core[j] = w.core[j]
                              /\ v.core[i] < w.core[i]
      <3>1. PICK i \in 1 .. Len(w.core) : /\ i <= Len(v.core) + 1
                                          /\ \A j \in 1 .. i - 1 : v.core[j] = w.core[j]
                                          /\ i <= Len(v.core) => v.core[i] < w.core[i]
        BY <2>1 DEF TextBefore
      <3>2. i \in 1 .. 3 /\ v.core[i] < w.core[i]
        BY <1>1, <3>1
      <3> QED
        BY <3>1, <3>2
    <2>3. CASE i = 1
      BY <2>2, <2>3 DEF Major
    <2>4. CASE i = 2
      BY <1>2, <2>2, <2>4 DEF Major, Minor
    <2>5. CASE i = 3
      BY <1>2, <2>2, <2>5 DEF Major, Minor, Patch
    <2> QED
      BY <2>3, <2>4, <2>5
  <1> QED
    BY <1>3, <1>4

\* What lies between the bound of a range and a version in it shares the
\* numbers that the range keeps.
LEMMA RangeIsConvex ==
  ASSUME NEW u \in Versions, NEW v \in Versions, NEW w \in Versions,
         u.core \in [1 .. 3 -> Nat], v.core \in [1 .. 3 -> Nat], w.core \in [1 .. 3 -> Nat],
         Compare(w, u) <= 0, Compare(u, v) <= 0
  PROVE  /\ SameUpToCaret(v.core, w.core) => SameUpToCaret(u.core, w.core)
         /\ SameUpToTilde(v.core, w.core) => SameUpToTilde(u.core, w.core)
  <1> DEFINE InOrder(p, q) ==
          \/ p.core[1] < q.core[1]
          \/ /\ p.core[1] = q.core[1]
             /\ \/ p.core[2] < q.core[2]
                \/ p.core[2] = q.core[2] /\ p.core[3] <= q.core[3]
  <1>1. InOrder(w, u) /\ InOrder(u, v)
    <2>1. \A p, q \in Versions : Compare(p, q) <= 0 => InOrder(p, q)
      BY CoresInOrder DEF Major, Minor, Patch
    <2> QED
      BY <2>1
  <1>2. \A i \in 1 .. 3 : u.core[i] \in Nat /\ v.core[i] \in Nat /\ w.core[i] \in Nat
    OBVIOUS
  <1>3. /\ u.core[1] \in Nat /\ u.core[2] \in Nat /\ u.core[3] \in Nat
        /\ v.core[1] \in Nat /\ v.core[2] \in Nat /\ v.core[3] \in Nat
        /\ w.core[1] \in Nat /\ w.core[2] \in Nat /\ w.core[3] \in Nat
    BY <1>2
  <1>4. SameUpToTilde(v.core, w.core) => SameUpToTilde(u.core, w.core)
    BY <1>1, <1>3 DEF SameUpToTilde, Major, Minor
  <1>5. SameUpToCaret(v.core, w.core) => SameUpToCaret(u.core, w.core)
    BY <1>1, <1>3 DEF SameUpToCaret, Major, Minor, Patch
  <1> QED
    BY <1>4, <1>5

\* What is between w and v is in every range from w on that v is in.
LEMMA RangesTakeWhatIsBetween ==
  ASSUME NEW t, NEW v, NEW w, Readable(t), Readable(v), Readable(w),
         NEW op \in {"^", "~", "=", "<"}, Holds(RuleParse(v), op, RuleParse(w)),
         Compare(RuleParse(t), RuleParse(v)) <= 0,
         op = "<" \/ Compare(RuleParse(t), RuleParse(w)) >= 0
  PROVE  Holds(RuleParse(t), op, RuleParse(w))
  <1> DEFINE a == RuleParse(t)
             b == RuleParse(v)
             c == RuleParse(w)
  <1>1. /\ a \in Versions /\ b \in Versions /\ c \in Versions
        /\ a.core \in [1 .. 3 -> Nat] /\ b.core \in [1 .. 3 -> Nat] /\ c.core \in [1 .. 3 -> Nat]
    BY RuleReadsVersion DEF Readable
  <1>2. /\ Compare(a, c) \in {-1, 0, 1} /\ Compare(a, c) = -Compare(c, a)
        /\ Compare(b, c) \in {-1, 0, 1} /\ Compare(b, c) = -Compare(c, b)
        /\ Compare(c, a) \in {-1, 0, 1} /\ Compare(c, b) \in {-1, 0, 1}
    BY OrderOfRead
  <1>3. /\ Holds(b, op, c) /\ Compare(a, b) <= 0 /\ (op = "<" \/ Compare(a, c) >= 0)
    OBVIOUS
  <1> HIDE DEF a, b, c
  <1>4. CASE op = "<"
    <2>1. Compare(b, c) < 0
      BY <1>3, <1>4, OperatorMeaning, Zenon
    <2>2. ASSUME Compare(a, c) >= 0 PROVE Compare(c, b) <= 0
      <3>1. Compare(c, a) <= 0
        BY <1>2, <2>2
      <3>2. Compare(a, b) <= 0
        BY <1>3
      <3> QED
        BY <1>1, <3>1, <3>2, PrecedenceIsTransitive
    <2>3. Compare(a, c) < 0
      BY <1>2, <2>1, <2>2
    <2>4. Holds(a, "<", c)
      BY <2>3, OperatorMeaning, Zenon
    <2> QED
      BY <1>4, <2>4 DEF a, c
  <1>5. CASE op = "="
    <2>1. b = c
      BY <1>1, <1>3, <1>5, OperatorMeaning, ComparisonTurns
    <2>2. Compare(a, c) = 0
      BY <1>2, <1>3, <1>5, <2>1
    <2> QED
      BY <1>5, <2>2, OperatorMeaning DEF a, c
  <1>6. CASE op \in {"^", "~"}
    <2>1. Compare(c, a) <= 0 /\ Compare(a, c) >= 0
      BY <1>2, <1>3, <1>6
    <2>2. /\ SameUpToCaret(b.core, c.core) => SameUpToCaret(a.core, c.core)
          /\ SameUpToTilde(b.core, c.core) => SameUpToTilde(a.core, c.core)
      BY <1>1, <1>3, <2>1, RangeIsConvex
    <2>3. CASE op = "^"
      BY <1>3, <2>1, <2>2, <2>3, OperatorMeaning DEF a, c
    <2>4. CASE op = "~"
      BY <1>3, <2>1, <2>2, <2>4, OperatorMeaning DEF a, c
    <2> QED
      BY <1>6, <2>3, <2>4
  <1> QED
    BY <1>4, <1>5, <1>6

\* Whatever versions are compared, ranges have no holes, and of ^ and ~ each is
\* within the other where it keeps more numbers.
THEOREM RangesAreIntervals == OpsSpec => []RangesFit
  <1>1. ASSUME CallInv, IsComparison
        PROVE  /\ Readable(call.args[1]) /\ Readable(call.args[3]) /\ call.args[2] \in Operators
               /\ result.value =
                      Holds(RuleParse(call.args[1]), call.args[2], RuleParse(call.args[3]))
    BY <1>1, AnsweredWasReadable DEF CallInv, IsComparison
  <1>2. CallInv => RangesHaveNoHoles
    <2> DEFINE v == call.args[1]
               op == call.args[2]
               w == call.args[3]
    <2> SUFFICES ASSUME CallInv, IsComparison, op \in {"^", "~", "=", "<"}, result.value,
                        NEW t \in Compared, Is(t, "<=", v), op = "<" \/ Is(t, ">=", w)
                 PROVE  Is(t, op, w)
      BY DEF RangesHaveNoHoles
    <2>1. Readable(v) /\ Readable(w) /\ Holds(RuleParse(v), op, RuleParse(w))
      BY <1>1
    <2>2. Readable(t)
      BY AnsweredWasReadable DEF Compared
    <2>3. op \in {"^", "~", "=", "<"} /\ op \in Operators
          /\ "<=" \in Operators /\ ">=" \in Operators
      BY DEF Operators
    <2>4. Is(t, "<=", v) /\ (op = "<" \/ Is(t, ">=", w))
      OBVIOUS
    <2> HIDE DEF v, op, w
    <2>5. /\ Compare(RuleParse(t), RuleParse(v)) <= 0
          /\ op = "<" \/ Compare(RuleParse(t), RuleParse(w)) >= 0
      <3>1. Holds(RuleParse(t), "<=", RuleParse(v))
        BY <2>1, <2>2, <2>3, <2>4, SemVerHolds, Zenon
      <3>2. op = "<" \/ Holds(RuleParse(t), ">=", RuleParse(w))
        BY <2>1, <2>2, <2>3, <2>4, SemVerHolds, Zenon
      <3> QED
        BY <3>1, <3>2, OperatorMeaning
    <2>6. Holds(RuleParse(t), op, RuleParse(w))
      BY <2>1, <2>2, <2>3, <2>5, RangesTakeWhatIsBetween
    <2> QED
      BY <2>1, <2>2, <2>3, <2>6, SemVerHolds, Zenon
  <1>3. CallInv => RangesNest
    <2> DEFINE v == call.args[1]
               op == call.args[2]
               w == call.args[3]
    <2> SUFFICES ASSUME CallInv, IsComparison, op \in {"^", "~"}, result.value
                 PROVE  /\ RuleParse(w).core[Major] > 0 /\ op = "~" => Is(v, "^", w)
                        /\ ~(RuleParse(w).core[Major] > 0) /\ op = "^" => Is(v, "~", w)
      BY DEF RangesNest
    <2>1. Readable(v) /\ Readable(w) /\ Holds(RuleParse(v), op, RuleParse(w))
      BY <1>1
    <2> HIDE DEF v, op, w
    <2>2. /\ Is(v, "^", w) = Holds(RuleParse(v), "^", RuleParse(w))
          /\ Is(v, "~", w) = Holds(RuleParse(v), "~", RuleParse(w))
      BY <2>1, SemVerHolds DEF Operators
    <2>3. RuleParse(w).core \in [1 .. 3 -> Nat] /\ RuleParse(v).core \in [1 .. 3 -> Nat]
      BY <2>1, RuleReadsVersion DEF Readable
    <2>4. CASE RuleParse(w).core[Major] > 0 /\ op = "~"
      BY <2>1, <2>2, <2>4, OperatorMeaning DEF SameUpToCaret, SameUpToTilde
    <2>5. CASE ~(RuleParse(w).core[Major] > 0) /\ op = "^"
      <3>1. RuleParse(w).core[Major] = 0 /\ RuleParse(w).core[Minor] \in Nat
        BY <2>3, <2>5 DEF Major, Minor
      <3>2. SameUpToCaret(RuleParse(v).core, RuleParse(w).core)
                => SameUpToTilde(RuleParse(v).core, RuleParse(w).core)
        BY <3>1 DEF SameUpToCaret, SameUpToTilde
      <3> QED
        BY <2>1, <2>2, <2>5, <3>2, OperatorMeaning
    <2> QED
      BY <2>4, <2>5
  <1>4. CallInv => RangesFit
    BY <1>2, <1>3 DEF RangesFit
  <1> QED
    BY <1>4, CallInvAlways, PTL

-----------------------------------------------------------------------------
(* The hook and sem_ver                                                    *)

\* There are no spaces to be trimmed off digits.
LEMMA DigitsAreTrimmed ==
  ASSUME NEW piece \in Pieces, IsNumeric(piece)
  PROVE  Trimmed(piece) = piece
  <1> DEFINE kept == {i \in DOMAIN piece : piece[i] \notin Spaces}
  <1>1. \A i \in DOMAIN piece : piece[i] \in Digits
    BY DEF IsNumeric, Chars
  <1>2. \A n \in Digits : n \notin Spaces
    BY DEF Digits, Spaces
  <1>3. DOMAIN piece = 1 .. Len(piece) /\ Len(piece) \in Nat \ {0}
    BY DEF Pieces, IsNumeric
  <1>4. kept = 1 .. Len(piece)
    BY <1>1, <1>2, <1>3
  <1>5. Trimmed(piece) = IF kept = {} THEN <<>> ELSE SubSeq(piece, Min(kept), Max(kept))
    BY DEF Trimmed
  <1> HIDE DEF kept
  <1>6. Max(kept) = Len(piece)
    <2>1. kept \subseteq Int /\ Len(piece) \in kept /\ \A n \in kept : Len(piece) >= n
      BY <1>3, <1>4
    <2> QED
      BY <2>1, MaxIs
  <1>7. Min(kept) = 1
    <2>1. kept \in SUBSET Nat /\ kept # {} /\ 1 \in kept
      BY <1>3, <1>4
    <2>2. Min(kept) \in kept /\ Min(kept) <= 1
      BY <2>1, LeastNumber
    <2> QED
      BY <1>3, <1>4, <2>2
  <1>8. SubSeq(piece, 1, Len(piece)) = piece
    BY SubSeqFull DEF Pieces
  <1> QED
    BY <1>3, <1>4, <1>5, <1>6, <1>7, <1>8

\* sem_ver reads as the hook what the hook can read.
LEMMA ParsersAgree ==
  ASSUME NEW text \in VersionText, HookParse(text) # Refused
  PROVE  RuleParse(text) = HookParse(text)
  <1> DEFINE ofHook == [i \in DOMAIN text.core |-> HookNumber(text.core[i])]
             ofRule == [i \in DOMAIN text.core |-> RuleNumber(text.core[i])]
  <1>1. /\ HookParse(text) = Version(Core(ofHook), text.pre) /\ WellFormed(Core(ofHook))
        /\ Len(text.core) \in 1 .. 3
        /\ \A i \in DOMAIN text.pre :
              /\ IsIdentifier(text.pre[i])
              /\ ~(IsNumeric(text.pre[i]) /\ HasLeadingZero(text.pre[i]))
    BY DEF HookParse
  <1>2. text.core \in Seq(Pieces) /\ DOMAIN text.core = 1 .. Len(text.core)
    BY DEF VersionText, Pieces
  <1>3. \A i \in DOMAIN text.core : HookNumber(text.core[i]) # NotANumber
    <2>1. Len(ofHook) = Len(text.core)
      BY <1>2
    <2>2. \A i \in 1 .. 3 : i <= Len(ofHook) => Core(ofHook)[i] = ofHook[i]
      BY DEF Core
    <2>3. \A i \in 1 .. 3 : i <= Len(ofHook) => ofHook[i] # NotANumber
      BY <1>1, <2>2 DEF WellFormed
    <2> QED
      BY <1>1, <1>2, <2>1, <2>3
  <1>4. ASSUME NEW piece \in Pieces, HookNumber(piece) # NotANumber
        PROVE  RuleNumber(piece) = HookNumber(piece)
    <2>1. /\ IsNumeric(piece) /\ ~HasLeadingZero(piece) /\ NumberOf(piece) \in 0 .. MaxNumber
          /\ HookNumber(piece) = NumberOf(piece)
      BY <1>4 DEF HookNumber
    <2> QED
      BY <2>1, DigitsAreTrimmed DEF RuleNumber
  <1>5. ofRule = ofHook
    BY <1>2, <1>3, <1>4
  <1>6. \A i \in DOMAIN text.pre : text.pre[i] # <<>>
    BY <1>1 DEF IsIdentifier
  <1> HIDE DEF ofHook
  <1> QED
    BY <1>1, <1>5, <1>6 DEF RuleParse

\* Whatever the versions of binaries and minima, a rule with sem_ver decides as
\* the hook does.
THEOREM RuleDecidesAsHook == HookSpec => []RuleAgreesWithHook
  <1>1. HookInv => RuleAgreesWithHook
    <2> SUFFICES ASSUME HookInv, verdict # "none", IsReadable(minimum)
                 PROVE  SemVer(<<hook.version, ">=", minimum>>) = Answer(verdict = "passes")
      BY DEF RuleAgreesWithHook
    <2>1. /\ hook.version \in VersionText /\ HookParse(hook.version) # Refused
          /\ hook.current = HookParse(hook.version)
          /\ minimum \in VersionText /\ HookParse(minimum) # Refused
      BY TextAssumption DEF HookInv, IsReadable
    <2>2. /\ RuleParse(hook.version) = hook.current /\ RuleParse(minimum) = HookParse(minimum)
          /\ Readable(hook.version) /\ Readable(minimum)
      BY <2>1, ParsersAgree DEF Readable
    <2>3. SemVer(<<hook.version, ">=", minimum>>) =
              Answer(Holds(RuleParse(hook.version), ">=", RuleParse(minimum)))
      BY <2>2, SemVerHolds DEF Operators
    <2>4. Holds(hook.current, ">=", HookParse(minimum)) = Meets(hook.current, minimum)
      BY OperatorMeaning, Zenon DEF Meets
    <2>5. (verdict = "passes") = Meets(hook.current, minimum)
      BY DEF HookInv, VerdictOn, Meets
    <2> QED
      BY <2>2, <2>3, <2>4, <2>5
  <1> QED
    BY <1>1, HookInvAlways, PTL

-----------------------------------------------------------------------------
(* fractional: the ranges                                                    *)

\* The sums grow from zero by one weight after the other.
LEMMA SumsGrow ==
  ASSUME NEW weights \in Seq(Nat)
  PROVE  /\ PartialSums(weights)[0] = 0
         /\ \A i \in 1 .. Len(weights) :
               PartialSums(weights)[i] = PartialSums(weights)[i - 1] + weights[i]
  <1> DEFINE n == Len(weights)
             step == [p \in Nat \X (0 .. n) |-> IF p[2] = 0 THEN p[1] ELSE p[1] + weights[p[2]]]
             Next(f, i) == IF i = 0 THEN 0 ELSE f[i - 1] + weights[i]
             Adds(f) == f = [i \in 0 .. n |-> Next(f, i)]
             sum == CHOOSE f : Adds(f)
  <1>1. n \in Nat /\ \A i \in 1 .. n : weights[i] \in Nat
    OBVIOUS
  <1>2. /\ step \in [Nat \X (0 .. n) -> Nat]
        /\ \A x \in Nat, i \in 1 .. n : step[<<x, i>>] = x + weights[i]
    <2>1. \A x \in Nat, i \in 1 .. n : x + weights[i] \in Nat
      BY <1>1
    <2> DEFINE Step(p) == IF p[2] = 0 THEN p[1] ELSE p[1] + weights[p[2]]
    <2> HIDE DEF n
    <2>2. \A p \in Nat \X (0 .. n) : Step(p) \in Nat
      <3> TAKE p \in Nat \X (0 .. n)
      <3>1. p[1] \in Nat /\ p[2] \in 0 .. n
        OBVIOUS
      <3>2. p[2] # 0 => p[2] \in 1 .. n
        BY <1>1, <3>1
      <3> QED
        BY <2>1, <3>1, <3>2
    <2>3. \A x \in Nat, i \in 1 .. n : <<x, i>> \in Nat \X (0 .. n) /\ Step(<<x, i>>) = x + weights[i]
      BY <1>1
    <2> HIDE DEF Step
    <2>4. step = [p \in Nat \X (0 .. n) |-> Step(p)]
      BY DEF Step
    <2> HIDE DEF step
    <2> QED
      BY <2>2, <2>3, <2>4
  <1>3. PICK f \in [0 .. n -> Nat] : Recurs(f, 0, n, 0, step)
    <2> HIDE DEF step, n
    <2>1. 0 \in Nat /\ 0 <= n
      BY <1>1
    <2> QED
      BY <1>1, <1>2, <2>1, RecursionExists
  <1>4. Adds(f)
    <2> HIDE DEF step, n
    <2>1. ASSUME NEW i \in 0 .. n PROVE f[i] = Next(f, i)
      <3>1. CASE i = 0
        BY <1>3, <3>1 DEF Recurs
      <3>2. CASE i # 0
        <4>1. i \in 1 .. n /\ f[i - 1] \in Nat
          BY <1>1, <1>3, <3>2
        <4>2. f[i] = step[<<f[i - 1], i>>]
          BY <1>3, <3>2, Zenon DEF Recurs
        <4>3. step[<<f[i - 1], i>>] = f[i - 1] + weights[i]
          BY <1>2, <4>1, Zenon
        <4> QED
          BY <3>2, <4>2, <4>3
      <3> QED
        BY <3>1, <3>2
    <2> HIDE DEF Next
    <2> QED
      BY <1>3, <2>1
  <1>5. Adds(sum)
    <2> HIDE DEF Adds
    <2> QED
      BY <1>4
  <1>6. PartialSums(weights) = sum
    BY DEF PartialSums
  <1>7. \A i \in 0 .. n : sum[i] = Next(sum, i)
    <2> HIDE DEF Next, sum, n
    <2> QED
      BY <1>5
  <1> HIDE DEF sum
  <1> QED
    BY <1>1, <1>6, <1>7

\* So they are natural numbers that do not get smaller.
LEMMA SumsAreOrdered ==
  ASSUME NEW weights \in Seq(Nat)
  PROVE  /\ \A i \in 0 .. Len(weights) : PartialSums(weights)[i] \in Nat
         /\ \A i, j \in 0 .. Len(weights) :
               i <= j => PartialSums(weights)[i] <= PartialSums(weights)[j]
  <1> DEFINE n == Len(weights)
             sum == PartialSums(weights)
  <1>1. n \in Nat /\ \A i \in 1 .. n : weights[i] \in Nat
    OBVIOUS
  <1>2. sum[0] = 0 /\ \A i \in 1 .. n : sum[i] = sum[i - 1] + weights[i]
    BY SumsGrow
  <1> DEFINE S == {i \in 0 .. n : sum[i] \in Nat}
  <1> HIDE DEF n, sum
  <1>3. \A i \in 0 .. n : sum[i] \in Nat
    <2>1. 0 \in S
      BY <1>1, <1>2
    <2>2. ASSUME NEW i \in 0 .. n, i # 0, i - 1 \in S PROVE i \in S
      <3>1. i \in 1 .. n
        BY <1>1, <2>2
      <3>2. sum[i - 1] \in Nat /\ weights[i] \in Nat
        BY <1>1, <2>2, <3>1
      <3> QED
        BY <1>2, <3>1, <3>2
    <2>3. \A i \in 0 .. n : i \in S
      <3> HIDE DEF S
      <3> QED
        BY <1>1, <2>1, <2>2, StepByStep
    <2> QED
      BY <2>3
  <1>4. ASSUME NEW i \in 0 .. n PROVE \A j \in i .. n : sum[i] <= sum[j]
    <2> DEFINE T == {j \in i .. n : sum[i] <= sum[j]}
    <2>1. i \in Nat /\ i \in T
      BY <1>1, <1>3
    <2>2. ASSUME NEW j \in i .. n, j # i, j - 1 \in T PROVE j \in T
      <3>1. j \in 1 .. n /\ j - 1 \in 0 .. n
        BY <1>1, <2>2
      <3>2. sum[j] = sum[j - 1] + weights[j] /\ sum[j - 1] \in Nat /\ weights[j] \in Nat
        BY <1>1, <1>2, <1>3, <3>1
      <3>3. sum[i] \in Nat /\ sum[i] <= sum[j - 1]
        BY <1>3, <2>2
      <3> QED
        BY <3>2, <3>3
    <2>3. \A j \in i .. n : j \in T
      <3> HIDE DEF T
      <3> QED
        BY <1>1, <2>1, <2>2, StepByStep
    <2> QED
      BY <2>3
  <1>5. ASSUME NEW i \in 0 .. n, NEW j \in 0 .. n, i <= j PROVE sum[i] <= sum[j]
    <2>1. j \in i .. n
      BY <1>1, <1>5
    <2> QED
      BY <1>4, <2>1
  <1> QED
    BY <1>3, <1>5 DEF n, sum

\* What a quotient and a product are where numbers are compared.
LEMMA QuotientIs ==
  ASSUME NEW m \in Nat \ {0}, NEW x \in Int
  PROVE  x \div m \in Int /\ m * (x \div m) <= x /\ x < m * (x \div m) + m
  <1> DEFINE d == x \div m
             r == x % m
  <1>1. d \in Int /\ r \in 0 .. m - 1
    OBVIOUS
  <1>2. r = x - m * d
    BY Z3
  <1> HIDE DEF d, r
  <1>3. m * d \in Int
    BY <1>1
  <1>4. m * d <= x /\ x < m * d + m
    BY <1>1, <1>2, <1>3
  <1> QED
    BY <1>1, <1>4 DEF d

LEMMA ProductsKeepOrder ==
  ASSUME NEW a \in Int, NEW b \in Int, NEW m \in Nat \ {0}
  PROVE  a <= b <=> a * m <= b * m
  <1>1. CASE a <= b
    <2>1. PICK d \in Nat : b = a + d
      BY <1>1
    <2>2. b * m = a * m + d * m /\ d * m >= 0 /\ d * m \in Int /\ a * m \in Int
      BY <2>1
    <2> QED
      BY <1>1, <2>2
  <1>2. CASE a > b
    <2>1. PICK d \in Nat : a = b + d + 1
      <3>1. a - b - 1 \in Nat /\ a = b + (a - b - 1) + 1
        BY <1>2
      <3> QED
        BY <3>1
    <2>2. a * m = b * m + d * m + m /\ d * m >= 0 /\ d * m \in Int /\ b * m \in Int
      BY <2>1
    <2> QED
      BY <1>2, <2>2
  <1> QED
    BY <1>1, <1>2

\* The first hash of a bucket that is e or more, of so many buckets.
Edge(e, total) == -((-(e * HashCount)) \div total)

LEMMA EdgeIs ==
  ASSUME NEW total \in Nat \ {0}, NEW e \in Nat
  PROVE  /\ Edge(e, total) \in Int
         /\ e * HashCount <= Edge(e, total) * total
         /\ Edge(e, total) * total < e * HashCount + total
         /\ \A h \in Int : h >= Edge(e, total) <=> h * total >= e * HashCount
  <1> DEFINE x == e * HashCount
             q == (-x) \div total
             edge == Edge(e, total)
  <1>1. HashCount \in Nat \ {0} /\ x \in Int /\ -x \in Int
    BY WidthAssumption
  <1>2. edge = -q
    BY DEF Edge
  <1> HIDE DEF x, edge
  <1>3. q \in Int /\ total * q <= -x /\ -x < total * q + total
    BY <1>1, QuotientIs
  <1> HIDE DEF q
  <1>4. edge * total = -(total * q) /\ total * q \in Int /\ edge \in Int
    BY <1>2, <1>3
  <1>5. x <= edge * total /\ edge * total < x + total
    BY <1>1, <1>3, <1>4
  <1>6. ASSUME NEW h \in Int PROVE h >= edge <=> h * total >= x
    <2>1. h * total \in Int /\ edge * total \in Int
      BY <1>4
    <2>2. CASE h >= edge
      <3>1. edge * total <= h * total
        BY <1>4, <2>2, ProductsKeepOrder
      <3> QED
        BY <1>1, <1>5, <2>1, <2>2, <3>1
    <2>3. CASE h < edge
      <3>1. h + 1 <= edge /\ (h + 1) * total = h * total + total
        BY <1>4, <2>3
      <3>2. (h + 1) * total <= edge * total
        BY <1>4, <3>1, ProductsKeepOrder
      <3> QED
        BY <1>1, <1>4, <1>5, <2>1, <2>3, <3>1, <3>2
    <2> QED
      BY <1>4, <2>2, <2>3
  <1> QED
    BY <1>4, <1>5, <1>6 DEF edge, x

\* Buckets are natural numbers below the sum of the weights, and one is e or more
\* just from the edge of e on.
LEMMA BucketIs ==
  ASSUME NEW total \in Nat \ {0}, NEW hash \in Hashes
  PROVE  LET bucket == (hash * total) \div HashCount
         IN  /\ bucket \in Nat /\ bucket < total
             /\ \A e \in Nat : bucket >= e <=> hash >= Edge(e, total)
  <1> DEFINE bucket == (hash * total) \div HashCount
             x == hash * total
  <1>1. HashCount \in Nat \ {0} /\ hash \in Nat /\ hash < HashCount /\ x \in Int
    BY WidthAssumption DEF Hashes
  <1>2. bucket \in Int /\ HashCount * bucket <= x /\ x < HashCount * bucket + HashCount
    BY <1>1, QuotientIs
  <1> HIDE DEF bucket, x
  <1>3. ASSUME NEW e \in Nat PROVE bucket >= e <=> x >= e * HashCount
    <2>1. e * HashCount \in Int /\ HashCount * bucket \in Int /\ bucket * HashCount = HashCount * bucket
      BY <1>1, <1>2
    <2>2. CASE bucket >= e
      <3>1. e * HashCount <= bucket * HashCount
        BY <1>1, <1>2, <2>2, ProductsKeepOrder
      <3> QED
        BY <1>1, <1>2, <2>1, <2>2, <3>1
    <2>3. CASE bucket < e
      <3>1. bucket + 1 <= e /\ (bucket + 1) * HashCount = HashCount * bucket + HashCount
        BY <1>1, <1>2, <2>3
      <3>2. (bucket + 1) * HashCount <= e * HashCount
        BY <1>1, <1>2, <3>1, ProductsKeepOrder
      <3> QED
        BY <1>1, <1>2, <2>1, <2>3, <3>1, <3>2
    <2> QED
      BY <1>2, <2>2, <2>3
  <1>4. \A e \in Nat : bucket >= e <=> hash >= Edge(e, total)
    <2> TAKE e \in Nat
    <2>1. hash \in Int /\ (hash >= Edge(e, total) <=> hash * total >= e * HashCount)
      BY <1>1, EdgeIs
    <2> QED
      BY <1>3, <2>1 DEF x
  <1>5. bucket >= 0
    <2>1. x >= 0 * HashCount
      BY <1>1 DEF x
    <2> QED
      BY <1>3, <2>1
  <1>6. bucket < total
    <2>1. ~(HashCount <= hash)
      BY <1>1
    <2>2. ~(HashCount * total <= x)
      BY <1>1, <2>1, ProductsKeepOrder DEF x
    <2>3. HashCount * total = total * HashCount /\ HashCount * total \in Int
      BY <1>1
    <2>4. ~(bucket >= total)
      BY <1>1, <1>3, <2>2, <2>3
    <2> QED
      BY <1>2, <2>4
  <1> QED
    BY <1>2, <1>4, <1>5, <1>6 DEF bucket

-----------------------------------------------------------------------------
(* fractional: shares                                                        *)

\* The distribution that is chosen is the one in whose range the bucket lies.
LEMMA ChosenIs ==
  ASSUME NEW weights \in Seq(Nat), IsDistributable(weights), NEW hash \in Hashes
  PROVE  /\ Chosen(hash, weights) \in 1 .. Len(weights)
         /\ \A i \in 1 .. Len(weights) :
               Chosen(hash, weights) = i <=>
                   /\ PartialSums(weights)[i - 1] <= Bucket(hash, weights)
                   /\ Bucket(hash, weights) < PartialSums(weights)[i]
  <1> DEFINE n == Len(weights)
             sum == PartialSums(weights)
             bucket == Bucket(hash, weights)
             range == Candidates(hash, weights)
  <1>1. /\ n \in Nat /\ DOMAIN weights = 1 .. n
        /\ \A i \in 0 .. n : sum[i] \in Nat
        /\ \A i, j \in 0 .. n : i <= j => sum[i] <= sum[j]
        /\ sum[0] = 0
    BY SumsGrow, SumsAreOrdered
  <1>2. SumOf(weights) = sum[n] /\ sum[n] \in Nat \ {0}
    BY <1>1, WidthAssumption DEF IsDistributable, SumOf, MaxWeight
  <1>3. bucket \in Nat /\ bucket < sum[n]
    BY <1>2, BucketIs DEF Bucket
  <1>4. range = {i \in 1 .. n : bucket < sum[i]}
    BY <1>1 DEF Candidates, RangeEnd
  <1> HIDE DEF n, sum, bucket, range
  <1>5. n \in 1 .. n
    <2>1. n # 0
      BY <1>1, <1>2
    <2> QED
      BY <1>1, <2>1
  <1>6. n \in range /\ range \in SUBSET Nat
    BY <1>1, <1>3, <1>4, <1>5
  <1> DEFINE first == Min(range)
  <1>7. first \in range /\ \A i \in range : first <= i
    BY <1>6, LeastNumber
  <1>8. Chosen(hash, weights) = first
    BY <1>6 DEF Chosen, range
  <1> HIDE DEF first
  <1>9. first \in 1 .. n /\ bucket < sum[first]
    BY <1>4, <1>7
  <1>10. sum[first - 1] <= bucket
    <2>1. CASE first = 1
      BY <1>1, <1>3, <2>1
    <2>2. CASE first # 1
      <3>1. first - 1 \in 1 .. n /\ first - 1 \notin range
        BY <1>1, <1>7, <1>9, <2>2
      <3>2. sum[first - 1] \in Nat
        BY <1>1, <3>1
      <3> QED
        BY <1>3, <1>4, <3>1, <3>2
    <2> QED
      BY <2>1, <2>2
  <1>11. ASSUME NEW i \in 1 .. n, sum[i - 1] <= bucket, bucket < sum[i] PROVE first = i
    <2>1. i \in range /\ first <= i
      BY <1>4, <1>7, <1>11
    <2>2. CASE first < i
      <3>1. first \in 0 .. n /\ i - 1 \in 0 .. n /\ first <= i - 1
        BY <1>1, <1>9, <2>2
      <3>2. sum[first] <= sum[i - 1] /\ sum[first] \in Nat /\ sum[i - 1] \in Nat
        BY <1>1, <3>1
      <3> QED
        BY <1>3, <1>9, <1>11, <3>2
    <2> QED
      BY <1>1, <1>9, <2>1, <2>2
  <1> QED
    BY <1>8, <1>9, <1>10, <1>11 DEF n, sum, bucket

\* The hashes that choose a distribution lie between two edges.
LEMMA TakersAreBetweenEdges ==
  ASSUME NEW weights \in Seq(Nat), IsDistributable(weights), NEW i \in 1 .. Len(weights)
  PROVE  LET total == SumOf(weights)
             from == Edge(PartialSums(weights)[i - 1], total)
             to == Edge(PartialSums(weights)[i], total)
         IN  /\ Takers(i, weights) = from .. to - 1
             /\ from <= to
  <1> DEFINE n == Len(weights)
             sum == PartialSums(weights)
             total == SumOf(weights)
             from == Edge(sum[i - 1], total)
             to == Edge(sum[i], total)
  <1>1. /\ n \in Nat /\ i - 1 \in 0 .. n /\ i \in 0 .. n
        /\ sum[i - 1] \in Nat /\ sum[i] \in Nat
        /\ sum[i - 1] <= sum[i] /\ sum[i] <= sum[n]
    BY SumsAreOrdered
  <1>2. total = sum[n] /\ total \in Nat \ {0} /\ HashCount \in Nat \ {0}
    BY WidthAssumption DEF IsDistributable, SumOf, MaxWeight
  <1>3. Hashes = 0 .. HashCount - 1
    BY DEF Hashes
  <1>4. \A hash \in Hashes : i = Chosen(hash, weights) <=>
                                  sum[i - 1] <= Bucket(hash, weights) /\ Bucket(hash, weights) < sum[i]
    BY ChosenIs
  <1>5. \A hash \in Hashes :
            /\ Bucket(hash, weights) \in Nat
            /\ \A e \in Nat : Bucket(hash, weights) >= e <=> hash >= Edge(e, total)
    BY <1>2, BucketIs DEF Bucket
  <1>6. /\ from \in Int /\ to \in Int
        /\ \A h \in Int : h >= from <=> h * total >= sum[i - 1] * HashCount
        /\ \A h \in Int : h >= to <=> h * total >= sum[i] * HashCount
        /\ to * total >= sum[i] * HashCount
    BY <1>1, <1>2, EdgeIs
  <1>7. \A hash \in Hashes : i = Chosen(hash, weights) <=> hash >= from /\ ~(hash >= to)
    <2> TAKE hash \in Hashes
    <2>1. Bucket(hash, weights) >= sum[i - 1] <=> hash >= from
      BY <1>1, <1>5
    <2>2. Bucket(hash, weights) >= sum[i] <=> hash >= to
      BY <1>1, <1>5
    <2>3. Bucket(hash, weights) \in Nat
      BY <1>5
    <2> HIDE DEF from, to, sum
    <2> QED
      BY <1>1, <1>4, <2>1, <2>2, <2>3
  <1> HIDE DEF n, sum, total, from, to
  <1>8. sum[i - 1] * HashCount \in Nat /\ sum[i] * HashCount \in Nat
        /\ sum[i - 1] * HashCount <= sum[i] * HashCount
        /\ sum[i] * HashCount <= HashCount * total
    <2>1. sum[i - 1] * HashCount \in Nat /\ sum[i] * HashCount \in Nat
      BY <1>1, <1>2
    <2>2. sum[i - 1] * HashCount <= sum[i] * HashCount
      BY <1>1, <1>2, ProductsKeepOrder
    <2>3. sum[i] * HashCount <= total * HashCount
      <3>1. sum[i] \in Int /\ total \in Int /\ sum[i] <= total
        BY <1>1, <1>2
      <3> QED
        BY <1>2, <3>1, ProductsKeepOrder
    <2>4. total * HashCount = HashCount * total
      BY <1>2
    <2> QED
      BY <2>1, <2>2, <2>3, <2>4
  <1>9. from >= 0
    <2>1. (-1) * total = -total
      BY <1>2
    <2> DEFINE least == sum[i - 1] * HashCount
    <2>2. least \in Nat /\ total \in Nat \ {0}
      BY <1>2, <1>8
    <2> HIDE DEF least
    <2>3. ~((-1) * total >= least)
      BY <2>1, <2>2
    <2>4. from \in Int /\ (-1 >= from <=> (-1) * total >= least)
      BY <1>6 DEF least
    <2> QED
      BY <2>3, <2>4
  <1>10. to <= HashCount
    BY <1>2, <1>6, <1>8
  <1>11. from <= to
    <2>1. to * total \in Int
      <3>1. to \in Int /\ total \in Int
        BY <1>2, <1>6
      <3> QED
        BY <3>1
    <2>2. to * total >= sum[i - 1] * HashCount
      BY <1>6, <1>8, <2>1
    <2> QED
      BY <1>6, <2>2
  <1>12. Takers(i, weights) = from .. to - 1
    <2>1. Takers(i, weights) = {h \in Hashes : h >= from /\ ~(h >= to)}
      BY <1>7 DEF Takers
    <2>2. \A h \in Int : h \in from .. to - 1 <=>
                           h \in 0 .. HashCount - 1 /\ h >= from /\ ~(h >= to)
      <3>1. from \in Int /\ to \in Int /\ HashCount \in Nat
        BY <1>2, <1>6
      <3> QED
        BY <1>9, <1>10, <3>1
    <2>3. Takers(i, weights) \subseteq from .. to - 1
      <3>1. \A h \in Hashes : h \in Int
        BY <1>3
      <3> QED
        BY <1>3, <2>1, <2>2, <3>1
    <2>4. \A h \in from .. to - 1 : h \in Takers(i, weights)
      <3>1. \A h \in from .. to - 1 : h \in Int
        OBVIOUS
      <3> QED
        BY <1>3, <2>1, <2>2, <3>1, Zenon
    <2> QED
      BY <2>3, <2>4, Zenon
  <1> QED
    BY <1>11, <1>12 DEF from, to, total, sum

\* So a distribution's share of the hashes is its share of the weights, to within
\* one hash.
LEMMA ShareIsDue ==
  ASSUME NEW weights \in Seq(Nat), IsDistributable(weights), NEW i \in 1 .. Len(weights)
  PROVE  Cardinality(Takers(i, weights)) * SumOf(weights) - weights[i] * HashCount
             \in -SumOf(weights) .. SumOf(weights)
  <1> DEFINE total == SumOf(weights)
             low == PartialSums(weights)[i - 1]
             high == PartialSums(weights)[i]
             from == Edge(low, total)
             to == Edge(high, total)
  <1>1. low \in Nat /\ high \in Nat /\ weights[i] \in Nat /\ high = low + weights[i]
    BY SumsGrow, SumsAreOrdered
  <1>2. total \in Nat \ {0} /\ HashCount \in Nat \ {0}
    BY WidthAssumption DEF IsDistributable, MaxWeight
  <1>3. /\ from \in Int /\ low * HashCount <= from * total /\ from * total < low * HashCount + total
        /\ to \in Int /\ high * HashCount <= to * total /\ to * total < high * HashCount + total
    BY <1>1, <1>2, EdgeIs
  <1>4. Takers(i, weights) = from .. to - 1 /\ from <= to
    BY TakersAreBetweenEdges
  <1> HIDE DEF total, low, high, from, to
  <1>5. Cardinality(Takers(i, weights)) = to - from
    <2>1. to - 1 \in Int
      BY <1>3
    <2>2. Cardinality(from .. to - 1) = IF from > to - 1 THEN 0 ELSE (to - 1) - from + 1
      BY <1>3, <2>1, FS_Interval
    <2> QED
      BY <1>3, <1>4, <2>2
  <1>6. (to - from) * total = to * total - from * total
    BY <1>2, <1>3
  <1>7. weights[i] * HashCount = high * HashCount - low * HashCount
    BY <1>1, <1>2
  <1>8. /\ to * total \in Int /\ from * total \in Int
        /\ high * HashCount \in Int /\ low * HashCount \in Int
    BY <1>1, <1>2, <1>3
  <1>9. (to - from) * total - weights[i] * HashCount \in -total .. total
    <2> DEFINE a == to * total
               b == from * total
               c == high * HashCount
               d == low * HashCount
    <2>1. /\ (to - from) * total = a - b /\ weights[i] * HashCount = c - d
          /\ d <= b /\ b < d + total /\ c <= a /\ a < c + total
          /\ a \in Int /\ b \in Int /\ c \in Int /\ d \in Int
      BY <1>3, <1>6, <1>7, <1>8
    <2> HIDE DEF a, b, c, d
    <2>2. (a - b) - (c - d) \in -total .. total
      BY <1>2, <2>1
    <2> QED
      BY <2>1, <2>2
  <1> QED
    BY <1>5, <1>9 DEF total

-----------------------------------------------------------------------------
(* fractional: moving weight                                                 *)

\* A unit of weight that moves to a neighbour changes the one sum between them.
LEMMA MovedSums ==
  ASSUME NEW weights \in Seq(Nat),
         NEW i \in 1 .. Len(weights), NEW j \in 1 .. Len(weights), (i - j) \in {-1, 1},
         weights[i] > 0
  PROVE  LET moved == [weights EXCEPT ![i] = @ - 1, ![j] = @ + 1]
             between == IF i < j THEN i ELSE j
         IN  /\ moved \in Seq(Nat) /\ Len(moved) = Len(weights)
             /\ \A k \in 0 .. Len(weights) :
                   PartialSums(moved)[k] = IF k # between THEN PartialSums(weights)[k]
                                           ELSE IF i < j THEN PartialSums(weights)[k] - 1
                                           ELSE PartialSums(weights)[k] + 1
  <1> DEFINE n == Len(weights)
             moved == [weights EXCEPT ![i] = @ - 1, ![j] = @ + 1]
             between == IF i < j THEN i ELSE j
             more == IF i < j THEN -1 ELSE 1
             sum == PartialSums(weights)
             after == PartialSums(moved)
  <1>1. /\ n \in Nat /\ i # j /\ between \in 1 .. n /\ between + 1 \in 1 .. n
        /\ {i, j} = {between, between + 1} /\ more \in Int
        /\ \A k \in 1 .. n : weights[k] \in Nat
    <2>1. /\ n \in Nat /\ i \in 1 .. n /\ j \in 1 .. n
          /\ \A k \in 1 .. n : weights[k] \in Nat
      OBVIOUS
    <2> HIDE DEF n
    <2>2. CASE i = j + 1
      BY <2>1, <2>2
    <2>3. CASE j = i + 1
      BY <2>1, <2>3
    <2>4. i = j + 1 \/ j = i + 1
      OBVIOUS
    <2> QED
      BY <2>2, <2>3, <2>4
  <1>2. /\ moved \in Seq(Nat) /\ Len(moved) = n
        /\ \A k \in 1 .. n : moved[k] = IF k = i THEN weights[i] - 1
                                        ELSE IF k = j THEN weights[j] + 1 ELSE weights[k]
    <2>1. weights \in [1 .. n -> Nat] /\ weights[i] - 1 \in Nat /\ weights[j] + 1 \in Nat
      OBVIOUS
    <2>2. moved \in [1 .. n -> Nat]
      BY <1>1, <2>1
    <2>3. moved \in Seq(Nat)
      BY <1>1, <2>2, SeqDef
    <2>4. Len(moved) = n
      BY <1>1, <2>2, <2>3, LenProperties
    <2> QED
      BY <1>1, <2>1, <2>3, <2>4
  <1>3. \A k \in 1 .. n : moved[k] = IF k = between THEN weights[k] + more
                                     ELSE IF k = between + 1 THEN weights[k] - more
                                     ELSE weights[k]
    <2> HIDE DEF n, moved
    <2>1. CASE i < j
      <3>1. between = i /\ between + 1 = j /\ more = -1
        BY <1>1, <2>1
      <3> HIDE DEF between, more
      <3> QED
        BY <1>1, <1>2, <3>1
    <2>2. CASE ~(i < j)
      <3>1. between = j /\ between + 1 = i /\ more = 1
        BY <1>1, <2>2
      <3> HIDE DEF between, more
      <3> QED
        BY <1>1, <1>2, <3>1
    <2> QED
      BY <2>1, <2>2
  <1>4. /\ sum[0] = 0 /\ \A k \in 1 .. n : sum[k] = sum[k - 1] + weights[k]
        /\ \A k \in 0 .. n : sum[k] \in Nat
    BY SumsGrow, SumsAreOrdered
  <1>5. after[0] = 0 /\ \A k \in 1 .. n : after[k] = after[k - 1] + moved[k]
    BY <1>2, SumsGrow
  <1> DEFINE Expected(k) == IF k = between THEN sum[k] + more ELSE sum[k]
             S == {k \in 0 .. n : after[k] = Expected(k)}
  <1> HIDE DEF n, moved, between, more, sum, after
  <1>6. 0 \in S
    BY <1>1, <1>4, <1>5
  <1>7. ASSUME NEW k \in 0 .. n, k # 0, k - 1 \in S PROVE k \in S
    <2>1. k \in 1 .. n /\ k - 1 \in 0 .. n
      BY <1>1, <1>7
    <2>2. /\ after[k] = after[k - 1] + moved[k] /\ sum[k] = sum[k - 1] + weights[k]
          /\ sum[k - 1] \in Nat /\ weights[k] \in Nat /\ after[k - 1] = Expected(k - 1)
      BY <1>1, <1>4, <1>5, <1>7, <2>1
    <2>3. /\ moved[k] = IF k = between THEN weights[k] + more
                        ELSE IF k = between + 1 THEN weights[k] - more ELSE weights[k]
          /\ k - 1 = between <=> k = between + 1
          /\ k = between => k # between + 1
      BY <1>1, <1>3, <2>1
    <2>4. after[k] = Expected(k)
      BY <1>1, <2>2, <2>3
    <2> QED
      BY <2>4
  <1>8. \A k \in 0 .. n : after[k] = Expected(k)
    <2>1. \A k \in 0 .. n : k \in S
      <3> HIDE DEF S
      <3> QED
        BY <1>1, <1>6, <1>7, StepByStep
    <2> QED
      BY <2>1
  <1> QED
    BY <1>2, <1>4, <1>8 DEF n, moved, between, more, sum, after

\* It moves users, if at all, from the one that loses it to the one that gains it.
LEMMA MovingMovesOnlyLosers ==
  ASSUME NEW weights \in Seq(Nat), IsDistributable(weights), NEW hash \in Hashes,
         NEW i \in 1 .. Len(weights), NEW j \in 1 .. Len(weights), (i - j) \in {-1, 1},
         weights[i] > 0
  PROVE  LET moved == [weights EXCEPT ![i] = @ - 1, ![j] = @ + 1]
             before == Chosen(hash, weights)
             after == Chosen(hash, moved)
         IN  after = before \/ (before = i /\ after = j)
  <1> DEFINE n == Len(weights)
             moved == [weights EXCEPT ![i] = @ - 1, ![j] = @ + 1]
             between == IF i < j THEN i ELSE j
             sum == PartialSums(weights)
             sums == PartialSums(moved)
             bucket == Bucket(hash, weights)
             before == Chosen(hash, weights)
             after == Chosen(hash, moved)
  <1>1. /\ moved \in Seq(Nat) /\ Len(moved) = n
        /\ \A k \in 0 .. n : sums[k] = IF k # between THEN sum[k]
                                       ELSE IF i < j THEN sum[k] - 1 ELSE sum[k] + 1
    BY MovedSums
  <1>2. /\ n \in Nat /\ \A k \in 0 .. n : sum[k] \in Nat
        /\ \A k, l \in 0 .. n : k <= l => sum[k] <= sum[l]
    BY SumsAreOrdered
  <1>3. between # n /\ n \in 0 .. n /\ between \in 1 .. n
    <2>1. n \in Nat /\ i \in 1 .. n /\ j \in 1 .. n
      OBVIOUS
    <2> HIDE DEF n
    <2> QED
      BY <2>1
  <1>4. SumOf(moved) = SumOf(weights)
    <2>1. sums[n] = sum[n]
      BY <1>1, <1>3
    <2> QED
      BY <1>1, <2>1 DEF SumOf
  <1>5. IsDistributable(moved) /\ Bucket(hash, moved) = bucket
    BY <1>4 DEF IsDistributable, Bucket
  <1>6. bucket \in Nat
    <2>1. SumOf(weights) \in Nat \ {0}
      BY WidthAssumption DEF IsDistributable, MaxWeight
    <2> QED
      BY <2>1, BucketIs DEF Bucket
  <1>7. before \in 1 .. n /\ sum[before - 1] <= bucket /\ bucket < sum[before]
    BY ChosenIs
  <1>8. \A k \in 1 .. n : sums[k - 1] <= bucket /\ bucket < sums[k] => after = k
    BY <1>1, <1>5, ChosenIs
  <1>9. (i < j /\ j = i + 1 /\ between = i) \/ (~(i < j) /\ i = j + 1 /\ between = j)
    <2>1. n \in Nat /\ i \in 1 .. n /\ j \in 1 .. n
      OBVIOUS
    <2> HIDE DEF n
    <2> QED
      BY <2>1
  <1> HIDE DEF n, moved, between, sum, sums, bucket, before, after
  <1> SUFFICES after = before \/ (before = i /\ after = j)
    BY DEF moved, before, after
  <1>10. /\ before - 1 \in 0 .. n /\ before \in 0 .. n
         /\ i - 1 \in 0 .. n /\ j - 1 \in 0 .. n /\ i \in 1 .. n /\ j \in 1 .. n
    BY <1>2, <1>7 DEF n
  <1>11. CASE before # between /\ before # between + 1
    <2>1. sums[before - 1] = sum[before - 1] /\ sums[before] = sum[before]
      BY <1>1, <1>3, <1>7, <1>10, <1>11
    <2> QED
      BY <1>7, <1>8, <2>1
  <1>12. CASE i < j /\ before = i
    <2>1. between = i /\ j = i + 1
      BY <1>9, <1>12
    <2>2. sums[i - 1] = sum[i - 1] /\ sums[i] = sum[i] - 1 /\ sums[j] = sum[j] /\ sum[i] <= sum[j]
      BY <1>1, <1>2, <1>10, <1>12, <2>1
    <2>3. sum[i] \in Nat /\ sum[j] \in Nat /\ sum[i - 1] <= bucket /\ bucket < sum[i]
      BY <1>2, <1>7, <1>10, <1>12
    <2>4. CASE bucket < sum[i] - 1
      BY <1>8, <1>10, <1>12, <2>2, <2>3, <2>4
    <2>5. CASE ~(bucket < sum[i] - 1)
      <3>1. sums[j - 1] <= bucket /\ bucket < sums[j]
        BY <1>6, <2>1, <2>2, <2>3, <2>5
      <3> QED
        BY <1>8, <1>10, <1>12, <3>1
    <2> QED
      BY <2>4, <2>5
  <1>13. CASE i < j /\ before = j
    <2>1. between = i /\ j = i + 1
      BY <1>9, <1>13
    <2>2. sums[j - 1] = sum[i] - 1 /\ sums[j] = sum[j] /\ sum[i] \in Nat
      BY <1>1, <1>2, <1>10, <1>13, <2>1
    <2>3. sum[i] <= bucket /\ bucket < sum[j]
      BY <1>7, <1>13, <2>1
    <2>4. sums[j - 1] <= bucket
      BY <1>6, <2>2, <2>3
    <2> QED
      BY <1>8, <1>10, <1>13, <2>2, <2>3, <2>4
  <1>14. CASE ~(i < j) /\ before = j
    <2>1. between = j /\ i = j + 1
      BY <1>9, <1>14
    <2>2. sums[j - 1] = sum[j - 1] /\ sums[j] = sum[j] + 1 /\ sum[j] \in Nat
      BY <1>1, <1>2, <1>10, <1>14, <2>1
    <2>3. sum[j - 1] <= bucket /\ bucket < sum[j]
      BY <1>7, <1>14
    <2>4. bucket < sums[j]
      BY <1>6, <2>2, <2>3
    <2> QED
      BY <1>8, <1>10, <1>14, <2>2, <2>3, <2>4
  <1>15. CASE ~(i < j) /\ before = i
    <2>1. between = j /\ i = j + 1
      BY <1>9, <1>15
    <2>2. /\ sums[j - 1] = sum[j - 1] /\ sums[j] = sum[j] + 1 /\ sums[i] = sum[i]
          /\ sums[i - 1] = sum[j] + 1
          /\ sum[j] \in Nat /\ sum[j - 1] \in Nat /\ sum[j - 1] <= sum[j]
      BY <1>1, <1>2, <1>10, <1>15, <2>1
    <2>3. sum[j] <= bucket /\ bucket < sum[i]
      BY <1>7, <1>15, <2>1
    <2>4. CASE bucket >= sum[j] + 1
      BY <1>8, <1>10, <1>15, <2>2, <2>3, <2>4
    <2>5. CASE ~(bucket >= sum[j] + 1)
      <3>1. sums[j - 1] <= bucket /\ bucket < sums[j]
        BY <1>6, <2>2, <2>3, <2>5
      <3> QED
        BY <1>8, <1>10, <1>15, <3>1
    <2> QED
      BY <2>4, <2>5
  <1>16. before = between \/ before = between + 1 => before = i \/ before = j
    BY <1>9, <1>10
  <1> QED
    BY <1>11, <1>12, <1>13, <1>14, <1>15, <1>16

-----------------------------------------------------------------------------
(* fractional: calls                                                         *)

\* The hash and the weights of the last call, and the answer they give.
FractionalInv ==
    call.op = "fractional" =>
        /\ call.weights \in Seq(Nat) /\ call.hash \in Hashes
        /\ IsDistributable(call.weights) =>
              result = Fractional(call.args, call.hash, call.weights)

LEMMA FractionalInvAlways == OpsSpec => []FractionalInv
  <1>1. OpsInit => FractionalInv
    BY DEF OpsInit, NoCall, FractionalInv
  <1>2. FractionalInv /\ [OpsNext]_opsVars => FractionalInv'
    <2> SUFFICES ASSUME FractionalInv, [OpsNext]_opsVars PROVE FractionalInv'
      OBVIOUS
    <2>1. ASSUME NEW args \in StringCalls, CallString(args) PROVE FractionalInv'
      BY <2>1 DEF CallString, Called, FractionalInv
    <2>2. ASSUME NEW args \in VersionCalls, CallSemVer(args) PROVE FractionalInv'
      BY <2>2 DEF CallSemVer, Called, FractionalInv
    <2>3. ASSUME NEW args \in FractionalCalls, CallFractional(args) PROVE FractionalInv'
      <3> DEFINE elements == Distributions(args)
      <3>1. CASE HasBucketingValue(args) /\ Weights(elements) # {}
        <4>1. PICK hash \in Hashes, weights \in Weights(elements) :
                  /\ call' = [Called("fractional", args) EXCEPT !.hash = hash, !.weights = weights]
                  /\ result' = Fractional(args, hash, weights)
          BY <2>3, <3>1 DEF CallFractional
        <4>2. weights \in Seq(Nat)
          <5>1. args.values \in Seq(Range(args.values)) /\ args.values # <<>>
            BY <3>1, ArrayAssumption DEF HasBucketingValue
          <5>2. elements \in Seq(Range(args.values))
            <6>1. Tail(args.values) \in Seq(Range(args.values))
              BY <5>1, HeadTailProperties
            <6> QED
              BY <5>1, <6>1, Zenon DEF Distributions
          <5>3. DOMAIN elements = 1 .. Len(elements) /\ Len(elements) \in Nat
            BY <5>2, LenProperties
          <5>4. weights \in [DOMAIN elements -> 0 .. MaxWeight]
            BY DEF Weights
          <5> HIDE DEF elements
          <5>5. MaxWeight \in Int
            BY WidthAssumption DEF MaxWeight
          <5>6. weights \in [1 .. Len(elements) -> Nat]
            BY <5>3, <5>4, <5>5
          <5> QED
            BY <5>3, <5>6, SeqDef
        <4>3. call'.args = args /\ call'.hash = hash /\ call'.weights = weights
          BY <4>1 DEF Called
        <4> QED
          BY <4>1, <4>2, <4>3 DEF FractionalInv
      <3>2. CASE ~(HasBucketingValue(args) /\ Weights(elements) # {})
        <4>1. call'.weights = <<>> /\ call'.hash = 0
          <5>1. call' = Called("fractional", args)
            BY <2>3, <3>2, Zenon DEF CallFractional
          <5> QED
            BY <5>1 DEF Called
        <4>2. <<>> \in Seq(Nat) /\ Len(<<>>) = 0
          OBVIOUS
        <4>3. ~IsDistributable(<<>>)
          <5>1. SumOf(<<>>) = 0
            BY <4>2, SumsGrow DEF SumOf
          <5> QED
            BY <5>1, WidthAssumption DEF IsDistributable, MaxWeight
        <4>4. 0 \in Hashes
          BY WidthAssumption DEF Hashes
        <4> QED
          BY <4>1, <4>2, <4>3, <4>4 DEF FractionalInv
      <3> QED
        BY <3>1, <3>2
    <2>4. CASE UNCHANGED opsVars
      BY <2>4 DEF opsVars, FractionalInv
    <2> QED
      BY <2>1, <2>2, <2>3, <2>4 DEF OpsNext
  <1> QED
    BY <1>1, <1>2, PTL DEF OpsSpec

\* For every width of hashes and weights, every number of distributions and all
\* their weights: every hash is given a variant, and every variant its share.
THEOREM SharesAreDue == OpsSpec => []SharesFollowWeights
  <1>1. FractionalInv => SharesFollowWeights
    <2> SUFFICES ASSUME FractionalInv, HasWeights PROVE SharesFollowWeights
      BY DEF SharesFollowWeights
    <2>1. /\ call.weights \in Seq(Nat) /\ call.hash \in Hashes /\ IsDistributable(call.weights)
          /\ result = Fractional(call.args, call.hash, call.weights)
          /\ DOMAIN call.weights = 1 .. Len(call.weights)
      BY DEF FractionalInv, HasWeights
    <2>2. result.ok
      <3>1. Chosen(call.hash, call.weights) # 0
        BY <2>1, ChosenIs
      <3> QED
        BY <2>1, <3>1 DEF Fractional, Answer
    <2>3. \A i \in DOMAIN call.weights :
              Cardinality(Takers(i, call.weights)) * SumOf(call.weights)
                  - call.weights[i] * HashCount \in -SumOf(call.weights) .. SumOf(call.weights)
      BY <2>1, ShareIsDue
    <2> QED
      BY <2>2, <2>3 DEF SharesFollowWeights
  <1> QED
    BY <1>1, FractionalInvAlways, PTL

\* Nor does moving weight between neighbours ever move a user of another variant
\* or in the other direction.
THEOREM RampsKeepUsers == OpsSpec => []RampKeepsUsers
  <1>1. FractionalInv => RampKeepsUsers
    <2> SUFFICES ASSUME FractionalInv, HasWeights PROVE RampKeepsUsers
      BY DEF RampKeepsUsers
    <2>1. /\ call.weights \in Seq(Nat) /\ call.hash \in Hashes /\ IsDistributable(call.weights)
          /\ DOMAIN call.weights = 1 .. Len(call.weights)
      BY DEF FractionalInv, HasWeights
    <2> QED
      BY <2>1, MovingMovesOnlyLosers DEF RampKeepsUsers
  <1> QED
    BY <1>1, FractionalInvAlways, PTL
=============================================================================
