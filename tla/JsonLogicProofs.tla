---------------------------- MODULE JsonLogicProofs ----------------------------
(* That the numbers of JsonLogic are ordered and differences follow the order, *)
(* for every width of integers and every precision of doubles; and that for   *)
(* every rule and all data the interpreter does not look at operands it does   *)
(* not reach, that rules authors take for the same are the same, and that       *)
(* missing and missing_some find the keys that var does not.                  *)
(*                                                                         *)
(* Apply calls itself.  All that is used of it is IsInterpreter: on every rule *)
(* it does what ApplyOnce says.  Each operation is brought into a form that    *)
(* names the operands by their places (ChainIs, IfIs, ArrayIs, VarIs, ...), and *)
(* the theorems compare those forms.                                        *)
EXTENDS JsonLogic, Induction, FiniteSetTheorems, SequenceTheorems

-----------------------------------------------------------------------------
(* Numbers                                                                   *)

IsInt(number) == number \in Numbers /\ ~IsFloat(number)

\* What the kinds of numbers have as values.
LEMMA NumberValues ==
    ASSUME NEW number \in Numbers
    PROVE  /\ number.kind \in {"signed", "unsigned", "double"}
           /\ number.kind = "signed" => number.value \in SignedValues
           /\ number.kind = "unsigned" => number.value \in UnsignedValues
           /\ IsInt(number) => number.value \in IntegerValues /\ number.value \in Int
           /\ ~IsInt(number) => number.value \in DoubleValues
BY RoundingAssumption
   DEF RoundingAssumption, Numbers, IsInt, IsFloat, IntegerValues, SignedValues, UnsignedValues

\* Conversion to double keeps the order of integers.
LEMMA DoublesKeepOrder ==
    ASSUME NEW l \in Numbers, NEW r \in Numbers
    PROVE  /\ AsDouble(l) \in DoubleValues /\ AsDouble(l) \in Int
           /\ AsDouble(r) \in DoubleValues /\ AsDouble(r) \in Int
           /\ IsInt(l) /\ IsInt(r) /\ l.value <= r.value => AsDouble(l) <= AsDouble(r)
BY NumberValues, RoundingAssumption DEF RoundingAssumption, AsDouble, IsInt

\* Integers are compared by their values, whatever their signedness.
LEMMA IntegersCompare ==
    ASSUME NEW l, NEW r, IsInt(l), IsInt(r)
    PROVE  /\ Less(l, r) <=> l.value < r.value
           /\ Equal(l, r) <=> l.value = r.value
<1>1. l \in Numbers /\ r \in Numbers /\ AreIntegers(l, r)
  BY DEF IsInt, AreIntegers
<1>2. l.value \in Int /\ r.value \in Int
  BY <1>1, NumberValues
<1>3. CASE l.kind = r.kind
  BY <1>1, <1>2, <1>3 DEF Less, Equal
<1>4. CASE l.kind = "signed" /\ r.kind = "unsigned"
  BY <1>1, <1>2, <1>4, NumberValues DEF Less, Equal, ToUnsigned, UnsignedValues
<1>5. CASE l.kind = "unsigned" /\ r.kind = "signed"
  BY <1>1, <1>2, <1>5, NumberValues DEF Less, Equal, ToUnsigned, UnsignedValues
<1>. QED BY <1>1, <1>3, <1>4, <1>5, NumberValues DEF IsInt, IsFloat

\* Numbers of which one is a double are compared as doubles.
LEMMA DoublesCompare ==
    ASSUME NEW l \in Numbers, NEW r \in Numbers, ~(IsInt(l) /\ IsInt(r))
    PROVE  /\ Less(l, r) <=> AsDouble(l) < AsDouble(r)
           /\ Equal(l, r) <=> AsDouble(l) = AsDouble(r)
BY DEF Less, Equal, AreIntegers, IsInt

\* What comes before another number has no greater double, and what has the
\* lesser double comes before the other.
LEMMA LessOfDoubles ==
    ASSUME NEW l \in Numbers, NEW r \in Numbers
    PROVE  /\ Less(l, r) => AsDouble(l) <= AsDouble(r)
           /\ AsDouble(l) < AsDouble(r) => Less(l, r)
<1>1. CASE IsInt(l) /\ IsInt(r)
  BY <1>1, IntegersCompare, DoublesKeepOrder, NumberValues
<1>2. CASE ~(IsInt(l) /\ IsInt(r))
  BY <1>2, DoublesCompare, DoublesKeepOrder
<1>. QED BY <1>1, <1>2

\* Less is transitive, though integers and doubles are compared differently.
LEMMA LessIsTransitive ==
    ASSUME NEW a \in Numbers, NEW b \in Numbers, NEW c \in Numbers, Less(a, b), Less(b, c)
    PROVE  Less(a, c)
<1>1. AsDouble(a) <= AsDouble(b) /\ AsDouble(b) <= AsDouble(c)
  BY LessOfDoubles
<1>2. AsDouble(a) \in Int /\ AsDouble(b) \in Int /\ AsDouble(c) \in Int
  BY DoublesKeepOrder
<1>3. CASE IsInt(a) /\ IsInt(b) /\ IsInt(c)
  BY <1>3, IntegersCompare, NumberValues
<1>4. CASE ~(IsInt(a) /\ IsInt(b)) \/ ~(IsInt(b) /\ IsInt(c))
  <2>1. AsDouble(a) < AsDouble(c)
    BY <1>1, <1>2, <1>4, DoublesCompare
  <2>. QED BY <2>1, LessOfDoubles
<1>. QED BY <1>3, <1>4

\* Less goes one way at most, and LessOrEqual is its opposite.
LEMMA LessIsOpposite ==
    ASSUME NEW a \in Numbers, NEW b \in Numbers
    PROVE  /\ Less(a, b) => ~Less(b, a)
           /\ LessOrEqual(a, b) <=> ~Less(b, a)
<1>1. CASE IsInt(a) /\ IsInt(b)
  BY <1>1, IntegersCompare, NumberValues DEF LessOrEqual
<1>2. CASE ~(IsInt(a) /\ IsInt(b))
  BY <1>2, DoublesCompare, DoublesKeepOrder DEF LessOrEqual
<1>. QED BY <1>1, <1>2

-----------------------------------------------------------------------------
\* What is computed is the operation on its operands, for some outcome of the
\* signed arithmetic that overflows.
ComputedInv ==
    /\ computed.numbers \in Seq(Numbers)
    /\ computed # NothingComputed =>
          \E overflow \in SignedValues :
              computed.status = NumericOperation(computed.op, computed.numbers, overflow)

\* That is so in every state.
LEMMA ComputedAlways == NumbersSpec => []ComputedInv
<1>1. NumbersInit => ComputedInv
  BY DEF NumbersInit, ComputedInv, NothingComputed
<1>2. ComputedInv /\ [NumbersNext]_computed => ComputedInv'
  <2>1. ASSUME NEW op \in NumericOperations, NEW nums \in Operands, Compute(op, nums)
        PROVE  ComputedInv'
    BY <2>1, OperandsAssumption DEF Compute, ComputedInv
  <2>2. ComputedInv /\ UNCHANGED computed => ComputedInv'
    BY DEF ComputedInv
  <2>. QED BY <2>1, <2>2 DEF NumbersNext
<1>. QED BY <1>1, <1>2, PTL DEF NumbersSpec

\* For every width of integers and every way to round, one order holds numbers
\* of all kinds.
THEOREM NumbersOrdered == NumbersSpec => []NumbersAreOrdered
<1>1. ComputedInv => NumbersAreOrdered
  <2> SUFFICES ASSUME ComputedInv,
                      NEW i \in DOMAIN computed.numbers, NEW j \in DOMAIN computed.numbers,
                      NEW k \in DOMAIN computed.numbers
               PROVE  LET a == computed.numbers[i]
                          b == computed.numbers[j]
                          c == computed.numbers[k]
                      IN  /\ Less(a, b) /\ Less(b, c) => Less(a, c)
                          /\ Less(a, b) => ~Less(b, a)
                          /\ LessOrEqual(a, b) <=> ~Less(b, a)
    BY DEF NumbersAreOrdered
  <2>1. /\ computed.numbers[i] \in Numbers /\ computed.numbers[j] \in Numbers
        /\ computed.numbers[k] \in Numbers
    BY DEF ComputedInv
  <2>. QED BY <2>1, LessIsTransitive, LessIsOpposite
<1>. QED BY <1>1, ComputedAlways, PTL

\* The difference of two numbers is less than zero only where the first comes
\* before the second, and greater only where it comes after, unless it
\* overflows.
LEMMA SubFollowsOrder ==
    ASSUME NEW l \in Numbers, NEW r \in Numbers, NEW overflow,
           AreIntegers(l, r) /\ FitsSigned(l) /\ FitsSigned(r) => l.value - r.value \in SignedValues
    PROVE  /\ Sub(l, r, overflow).value < 0 => Less(l, r)
           /\ Sub(l, r, overflow).value > 0 => Less(r, l)
<1> DEFINE difference == Sub(l, r, overflow).value
<1>1. CASE AreIntegers(l, r) /\ FitsSigned(l) /\ FitsSigned(r)
  <2>1. difference = l.value - r.value
    BY <1>1 DEF Sub, SignedResult, Signed
  <2>2. IsInt(l) /\ IsInt(r) /\ l.value \in Int /\ r.value \in Int
    BY <1>1, NumberValues DEF AreIntegers, IsInt
  <2>. QED BY <2>1, <2>2, IntegersCompare
<1>2. CASE ~<1>1!1 /\ l.kind = "unsigned" /\ r.kind = "unsigned" /\ l.value >= r.value
  <2>1. difference = l.value - r.value
    BY <1>2 DEF Sub, Unsigned
  <2>2. IsInt(l) /\ IsInt(r) /\ l.value \in Int /\ r.value \in Int
    BY <1>2, NumberValues DEF IsInt, IsFloat
  <2>. QED BY <2>1, <2>2, IntegersCompare
<1>3. CASE ~<1>1!1 /\ ~(l.kind = "unsigned" /\ r.kind = "unsigned" /\ l.value >= r.value)
  <2>1. difference = Rounded(AsDouble(l) - AsDouble(r), 1)
    BY <1>3 DEF Sub, Double
  <2>2. /\ AsDouble(l) \in DoubleValues /\ AsDouble(r) \in DoubleValues
        /\ AsDouble(l) \in Int /\ AsDouble(r) \in Int
    BY DoublesKeepOrder
  <2>3. /\ difference \in Int
        /\ difference < 0 => AsDouble(l) < AsDouble(r)
        /\ difference > 0 => AsDouble(r) < AsDouble(l)
    <3> DEFINE x == AsDouble(l)
               y == AsDouble(r)
    <3>1. /\ difference \in Int
          /\ x >= y => difference >= 0
          /\ x <= y => difference <= 0
      BY <2>1, <2>2, RoundingAssumption, Zenon DEF RoundingAssumption
    <3> HIDE DEF difference, x, y
    <3>2. x \in Int /\ y \in Int
      BY <2>2 DEF x, y
    <3>3. (difference < 0 => x < y) /\ (difference > 0 => y < x)
      BY <3>1, <3>2
    <3>. QED BY <3>1, <3>3 DEF x, y
  <2>. QED BY <2>3, LessOfDoubles
<1>. QED BY <1>1, <1>2, <1>3

\* For every width of integers and every way to round, the sign of a difference
\* does not contradict the order of its operands.
THEOREM DifferencesOrdered == NumbersSpec => []DifferencesFollowOrder
<1>1. ComputedInv => DifferencesFollowOrder
  <2> DEFINE l == computed.numbers[1]
             r == computed.numbers[2]
  <2>1. SUFFICES ASSUME ComputedInv, computed.op = <<"-">>, Len(computed.numbers) = 2
                 PROVE  DifferencesFollowOrder
    BY DEF DifferencesFollowOrder
  <2>2. l \in Numbers /\ r \in Numbers
    BY <2>1 DEF ComputedInv
  <2>3. computed # NothingComputed
    BY <2>1 DEF NothingComputed
  <2>4. PICK overflow \in SignedValues :
            computed.status = NumericOperation(<<"-">>, computed.numbers, overflow)
    BY <2>1, <2>3 DEF ComputedInv
  <2>5. computed.status = Ok(JsonNumber(Sub(l, r, overflow)))
    <3>1. NumericOperation(<<"-">>, computed.numbers, overflow)
              = Subtract(computed.numbers, overflow)
      BY DEF NumericOperation, Extremes, Comparisons, Accumulations
    <3>. QED BY <2>1, <2>4, <3>1 DEF Subtract
  <2>6. Content(computed.status.value) = Sub(l, r, overflow)
    BY <2>5 DEF Ok, JsonNumber, Content
  <2>. QED BY <2>2, <2>6, SubFollowsOrder DEF DifferencesFollowOrder
<1>. QED BY <1>1, ComputedAlways, PTL

-----------------------------------------------------------------------------
(* Least and greatest numbers                                                *)

\* min_element and max_element go from the first number to the last and keep one
\* of those they have seen.
LEMMA ExtremeElementGoesOneByOne ==
    ASSUME NEW op, NEW nums \in Seq(Numbers), nums # <<>>
    PROVE  \E g : /\ g[1] = nums[1]
                  /\ \A k \in 2 .. Len(nums) :
                        g[k] = IF Precedes(op, nums[k], g[k - 1]) THEN nums[k] ELSE g[k - 1]
                  /\ ExtremeElement(op, nums) = g[Len(nums)]
<1> DEFINE rest == Tail(nums)
           n == Len(rest)
           Found(found, number) == IF Precedes(op, number, found) THEN number ELSE found
           step == [p \in Numbers \X (1 .. n) |-> Found(p[1], rest[p[2]])]
           Next(f, s) == IF s = {} THEN Head(nums) ELSE Found(f[s \ {Max(s)}], rest[Max(s)])
           Collects(f) == f = [s \in SUBSET DOMAIN rest |-> Next(f, s)]
           iter == CHOOSE f : Collects(f)
<1>1. /\ Len(nums) \in Nat /\ n \in Nat /\ Len(nums) = n + 1 /\ DOMAIN rest = 1 .. n
      /\ Head(nums) = nums[1] /\ Head(nums) \in Numbers
      /\ \A k \in 1 .. n : rest[k] = nums[k + 1] /\ rest[k] \in Numbers
  OBVIOUS
<1>2. /\ step \in [Numbers \X (1 .. n) -> Numbers]
      /\ \A found \in Numbers, k \in 1 .. n : step[<<found, k>>] = Found(found, rest[k])
  <2> HIDE DEF rest, n
  <2>. QED BY <1>1
<1>3. PICK f \in [SUBSET (1 .. n) -> Numbers] : Folds(f, n, Head(nums), step)
  <2> HIDE DEF step, n
  <2>. QED BY <1>1, <1>2, FoldExists
<1>4. Collects(f)
  <2> HIDE DEF step, n, rest
  <2>1. ASSUME NEW s \in SUBSET (1 .. n), s # {}
        PROVE  step[<<f[s \ {Max(s)}], Max(s)>>] = Found(f[s \ {Max(s)}], rest[Max(s)])
    <3>1. Max(s) \in 1 .. n /\ s \ {Max(s)} \in SUBSET (1 .. n)
      BY <1>1, <2>1, LastPlace
    <3>2. f[s \ {Max(s)}] \in Numbers
      BY <1>3, <3>1
    <3> HIDE DEF Found
    <3>. QED BY <1>2, <3>1, <3>2
  <2> HIDE DEF Found
  <2>2. f = [s \in SUBSET (1 .. n) |-> Next(f, s)]
    BY <1>3, <2>1 DEF Folds
  <2>. QED BY <1>1, <2>2
<1>5. Collects(iter)
  <2> HIDE DEF Collects
  <2>. QED BY <1>4
<1>6. ExtremeElement(op, nums) = iter[DOMAIN rest]
  BY DEF ExtremeElement, FoldLeft, MapThenFoldSet
<1> HIDE DEF iter
<1>7. \A s \in SUBSET (1 .. n) : iter[s] = Next(iter, s)
  <2> HIDE DEF Next, rest, n
  <2>. QED BY <1>1, <1>5
<1> DEFINE g == [k \in 1 .. Len(nums) |-> iter[1 .. k - 1]]
<1>8. g[1] = nums[1]
  <2> HIDE DEF rest, n
  <2>1. 1 .. 0 = {} /\ 1 .. 0 \in SUBSET (1 .. n)
    OBVIOUS
  <2>2. g[1] = iter[1 .. 0]
    BY <1>1
  <2>. QED BY <1>1, <1>7, <2>1, <2>2
<1>9. ASSUME NEW k \in 2 .. Len(nums) PROVE g[k] = Found(g[k - 1], nums[k])
  <2> DEFINE j == k - 1
  <2> HIDE DEF rest, n, Found
  <2>1. j \in 1 .. n /\ j \in Nat /\ j # 0 /\ k = j + 1 /\ j \in 1 .. Len(nums)
    BY <1>1
  <2>2. g[k] = iter[1 .. j] /\ g[j] = iter[1 .. j - 1]
    BY <2>1
  <2> HIDE DEF g, j
  <2>3. 1 .. j \in SUBSET (1 .. n) /\ rest[j] = nums[k]
    BY <1>1, <2>1
  <2>4. iter[1 .. j] = Found(iter[1 .. j - 1], rest[j])
    BY <1>7, <2>1, <2>3, FirstPlaces
  <2>. QED BY <2>2, <2>3, <2>4 DEF j
<1>10. ExtremeElement(op, nums) = g[Len(nums)]
  <2> HIDE DEF rest, n
  <2>1. Len(nums) \in 1 .. Len(nums) /\ Len(nums) - 1 = n
    BY <1>1
  <2>. QED BY <1>1, <1>6, <2>1
<1> HIDE DEF g
<1>. QED BY <1>8, <1>9, <1>10

\* What goes before another number goes before all that do not go before that one.
LEMMA PrecedesIsOrder ==
    ASSUME NEW op, NEW a \in Numbers, NEW b \in Numbers, NEW c \in Numbers
    PROVE  /\ ~Precedes(op, a, a)
           /\ Precedes(op, a, b) /\ Precedes(op, b, c) => Precedes(op, a, c)
BY LessIsTransitive, LessIsOpposite DEF Precedes

\* Of the first numbers, the one found so far is one, and none goes before it.
LEMMA ExtremeElementIsExtreme ==
    ASSUME NEW op, NEW nums \in Seq(Numbers), nums # <<>>
    PROVE  /\ ExtremeElement(op, nums) \in Range(nums)
           /\ \A n \in Range(nums) : ~Precedes(op, n, ExtremeElement(op, nums))
<1> DEFINE m == Len(nums)
<1>1. PICK g : /\ g[1] = nums[1]
               /\ \A k \in 2 .. m :
                     g[k] = IF Precedes(op, nums[k], g[k - 1]) THEN nums[k] ELSE g[k - 1]
               /\ ExtremeElement(op, nums) = g[m]
  BY ExtremeElementGoesOneByOne
<1>2. m \in Nat /\ m >= 1 /\ DOMAIN nums = 1 .. m /\ \A i \in 1 .. m : nums[i] \in Numbers
  OBVIOUS
<1> DEFINE IsFound(k) == /\ \E i \in 1 .. k : g[k] = nums[i]
                         /\ \A i \in 1 .. k : ~Precedes(op, nums[i], g[k])
           S == {k \in 1 .. m : IsFound(k)}
<1> HIDE DEF m
<1>3. 1 \in S
  <2>1. \A i \in 1 .. 1 : i = 1
    OBVIOUS
  <2>. QED BY <1>1, <1>2, <2>1, PrecedesIsOrder
<1>4. ASSUME NEW k \in 1 .. m, k # 1, k - 1 \in S PROVE k \in S
  <2> DEFINE j == k - 1
  <2>1. k \in 2 .. m /\ j \in 1 .. m /\ 1 .. k = (1 .. j) \cup {k}
    BY <1>2, <1>4
  <2>2. IsFound(j)
    BY <1>4
  <2>3. g[k] = IF Precedes(op, nums[k], g[j]) THEN nums[k] ELSE g[j]
    BY <1>1, <2>1
  <2>4. 1 .. j \subseteq 1 .. m /\ nums[k] \in Numbers
    BY <1>2, <2>1
  <2> HIDE DEF j
  <2>5. g[j] \in Numbers /\ \A i \in 1 .. j : nums[i] \in Numbers
    BY <1>2, <2>2, <2>4
  <2>6. CASE Precedes(op, nums[k], g[j])
    <3>1. \A i \in 1 .. j : ~Precedes(op, nums[i], nums[k])
      BY <2>2, <2>4, <2>5, <2>6, PrecedesIsOrder
    <3>2. ~Precedes(op, nums[k], nums[k])
      BY <2>4, PrecedesIsOrder
    <3>. QED BY <2>1, <2>3, <2>6, <3>1, <3>2
  <2>7. CASE ~Precedes(op, nums[k], g[j])
    BY <2>1, <2>2, <2>3, <2>7
  <2>. QED BY <2>6, <2>7
<1>5. IsFound(m)
  <2> HIDE DEF S
  <2>1. \A k \in 1 .. m : k \in S
    BY <1>2, <1>3, <1>4, StepByStep
  <2>. QED BY <1>2, <2>1 DEF S
<1>. QED BY <1>1, <1>2, <1>5 DEF Range

\* Whatever the numbers are, min returns one that none of them comes before and
\* max one that comes before none.
THEOREM ExtremesAreExtreme == NumbersSpec => []ExtremesBound
<1>1. ComputedInv => ExtremesBound
  <2> DEFINE op == computed.op
             nums == computed.numbers
             extreme == ExtremeElement(op, nums)
  <2>1. SUFFICES ASSUME ComputedInv, op \in Extremes, nums # <<>>
                 PROVE  ExtremesBound
    BY DEF ExtremesBound
  <2>2. computed # NothingComputed
    BY <2>1 DEF NothingComputed
  <2>3. PICK overflow \in SignedValues : computed.status = NumericOperation(op, nums, overflow)
    BY <2>1, <2>2 DEF ComputedInv
  <2>4. computed.status = Ok(JsonNumber(extreme))
    <3>1. NumericOperation(op, nums, overflow) = Extreme(op, nums)
      BY <2>1 DEF NumericOperation, Extremes, Comparisons, Accumulations
    <3>. QED BY <2>1, <2>3, <3>1 DEF Extreme
  <2>5. Content(computed.status.value) = extreme
    BY <2>4 DEF Ok, JsonNumber, Content
  <2>6. extreme \in Range(nums) /\ \A n \in Range(nums) : ~Precedes(op, n, extreme)
    BY <2>1, ExtremeElementIsExtreme DEF ComputedInv
  <2>. QED BY <2>5, <2>6 DEF ExtremesBound, Precedes
<1>. QED BY <1>1, ComputedAlways, PTL

-----------------------------------------------------------------------------
(* Sums and products of integers                                             *)

\* The remainder of a division by m, and what does not change it.
LEMMA RemainderIs ==
    ASSUME NEW m \in Nat \ {0}, NEW x \in Int
    PROVE  /\ x % m \in 0 .. m - 1
           /\ \E q \in Int : x = m * q + (x % m)
<1> DEFINE d == x \div m
           r == x % m
<1>1. d \in Int /\ r \in 0 .. m - 1
  OBVIOUS
<1>2. x = m * d + r
  <2>1. r = x - m * d
    BY Z3
  <2> HIDE DEF d, r
  <2>. QED BY <1>1, <2>1
<1> HIDE DEF d, r
<1>3. \E p \in Int : x = m * p + r
  BY <1>1, <1>2
<1>. QED BY <1>1, <1>3, Zenon DEF r

\* A multiple of the modulus does not count.
LEMMA RemainderOfMultiples ==
    ASSUME NEW m \in Nat \ {0}, NEW x \in Int, NEW q \in Int
    PROVE  (x + m * q) % m = x % m
<1> DEFINE r == x % m
<1>1. PICK p \in Int : x = m * p + r
  BY RemainderIs
<1>2. r \in 0 .. m - 1
  BY RemainderIs
<1> HIDE DEF r
<1>3. x + m * q = m * (p + q) + r /\ p + q \in Int
  BY <1>1, <1>2
<1>4. x + m * q \in Int
  OBVIOUS
<1>5. \A y, z \in Int : y = m * z + r => y % m = r
  BY <1>2
<1>. QED BY <1>3, <1>4, <1>5 DEF r

\* Sums, products and differences may be reduced at any step.
LEMMA RemaindersCombine ==
    ASSUME NEW m \in Nat \ {0}, NEW x \in Int, NEW y \in Int
    PROVE  /\ ((x % m) + y) % m = (x + y) % m
           /\ ((x % m) * y) % m = (x * y) % m
           /\ ((x % m) - x) % m = 0
           /\ (x - x) % m = 0
<1> DEFINE r == x % m
<1>1. PICK q \in Int : x = m * q + r
  BY RemainderIs
<1>2. r \in Int
  BY RemainderIs
<1> HIDE DEF r
<1>3. (r + y) % m = (x + y) % m
  <2>1. x + y = (r + y) + m * q /\ r + y \in Int
    BY <1>1, <1>2
  <2>. QED BY <2>1, RemainderOfMultiples
<1>4. (r * y) % m = (x * y) % m
  <2>1. /\ (m * q + r) * y = (m * q) * y + r * y
        /\ r * y \in Int /\ q * y \in Int /\ m * (q * y) \in Int
    BY <1>2
  <2>2. (m * q) * y = m * (q * y)
    OBVIOUS
  <2>3. x * y = r * y + m * (q * y)
    BY <1>1, <2>1, <2>2
  <2>4. (r * y + m * (q * y)) % m = (r * y) % m
    BY <2>1, RemainderOfMultiples, Zenon
  <2>. QED BY <2>3, <2>4, Zenon
<1>5. 0 % m = 0
  OBVIOUS
<1>6. (r - x) % m = 0
  <2>1. r - x = 0 + m * (-q) /\ -q \in Int
    BY <1>1, <1>2
  <2>2. (0 + m * (-q)) % m = 0 % m
    BY <2>1, RemainderOfMultiples
  <2>. QED BY <1>5, <2>1, <2>2, Zenon
<1>7. x - x = 0
  OBVIOUS
<1>. QED BY <1>3, <1>4, <1>5, <1>6, <1>7 DEF r

\* An operation on two integers: exact among signed ones unless it overflows, else
\* modulo the width.
LEMMA CombineOfIntegers ==
    ASSUME NEW op, NEW l, NEW r, IsInt(l), IsInt(r), NEW overflow \in SignedValues
    PROVE  LET exact == IF op = <<"+">> THEN l.value + r.value ELSE l.value * r.value
           IN  /\ Combine(op, l, r, overflow) =
                     IF l.kind = "signed" /\ r.kind = "signed"
                     THEN Signed(IF exact \in SignedValues THEN exact ELSE overflow)
                     ELSE Unsigned(exact % (2 * SignBit))
               /\ exact \in Int
               /\ IsInt(Combine(op, l, r, overflow))
<1> DEFINE exact == IF op = <<"+">> THEN l.value + r.value ELSE l.value * r.value
           width == 2 * SignBit
<1>1. AreIntegers(l, r) /\ l.value \in Int /\ r.value \in Int
  BY NumberValues DEF AreIntegers, IsInt
<1>2. exact \in Int
  BY <1>1
<1>3. Combine(op, l, r, overflow) = PromotedResult(l, r, exact, overflow)
  BY <1>1 DEF Combine, Add, Mul
<1> HIDE DEF exact
<1>4. exact % width \in UnsignedValues
  <2>1. width \in Nat \ {0}
    BY RoundingAssumption DEF RoundingAssumption
  <2> HIDE DEF width
  <2>2. exact % width \in 0 .. width - 1
    BY <1>2, <2>1, RemainderIs
  <2>. QED BY <2>2 DEF UnsignedValues, width
<1>5. /\ \A n \in SignedValues : IsInt(Signed(n))
      /\ \A n \in UnsignedValues : IsInt(Unsigned(n))
  BY DEF IsInt, IsFloat, Signed, Unsigned, Numbers
<1>6. PromotedResult(l, r, exact, overflow) =
          IF l.kind = "signed" /\ r.kind = "signed"
          THEN Signed(IF exact \in SignedValues THEN exact ELSE overflow)
          ELSE Unsigned(exact % width)
  BY DEF PromotedResult, SignedResult
<1>7. IsInt(Combine(op, l, r, overflow))
  BY <1>3, <1>4, <1>5, <1>6
<1>. QED BY <1>2, <1>3, <1>6, <1>7 DEF exact

\* accumulate goes from the first number to the last.
LEMMA AccumulateGoesOneByOne ==
    ASSUME NEW op, NEW nums \in Seq(Numbers), nums # <<>>, NEW overflow \in SignedValues,
           \A i \in DOMAIN nums : ~IsFloat(nums[i])
    PROVE  \E g : /\ g[1] = nums[1]
                  /\ \A k \in 2 .. Len(nums) :
                        g[k] = Combine(op, g[k - 1], nums[k], overflow)
                  /\ Accumulate(op, nums, overflow) = g[Len(nums)]
<1> DEFINE IntegerNumbers == {number \in Numbers : ~IsFloat(number)}
           rest == Tail(nums)
           n == Len(rest)
           Next(l, r) == Combine(op, l, r, overflow)
           step == [p \in IntegerNumbers \X (1 .. n) |-> Next(p[1], rest[p[2]])]
           Yields(f, s) == IF s = {} THEN Head(nums) ELSE Next(f[s \ {Max(s)}], rest[Max(s)])
           Collects(f) == f = [s \in SUBSET DOMAIN rest |-> Yields(f, s)]
           iter == CHOOSE f : Collects(f)
<1>1. /\ Len(nums) \in Nat /\ n \in Nat /\ Len(nums) = n + 1 /\ DOMAIN rest = 1 .. n
      /\ Head(nums) = nums[1] /\ Head(nums) \in IntegerNumbers
      /\ \A k \in 1 .. n : rest[k] = nums[k + 1] /\ rest[k] \in IntegerNumbers
  OBVIOUS
<1>2. /\ step \in [IntegerNumbers \X (1 .. n) -> IntegerNumbers]
      /\ \A l \in IntegerNumbers, k \in 1 .. n : step[<<l, k>>] = Next(l, rest[k])
  <2> HIDE DEF rest, n
  <2>. QED BY <1>1, CombineOfIntegers DEF IsInt
<1>3. PICK f \in [SUBSET (1 .. n) -> IntegerNumbers] : Folds(f, n, Head(nums), step)
  <2> HIDE DEF step, n
  <2>. QED BY <1>1, <1>2, FoldExists
<1>4. Collects(f)
  <2> HIDE DEF step, n, rest
  <2>1. ASSUME NEW s \in SUBSET (1 .. n), s # {}
        PROVE  step[<<f[s \ {Max(s)}], Max(s)>>] = Next(f[s \ {Max(s)}], rest[Max(s)])
    <3>1. Max(s) \in 1 .. n /\ s \ {Max(s)} \in SUBSET (1 .. n)
      BY <1>1, <2>1, LastPlace
    <3>2. f[s \ {Max(s)}] \in IntegerNumbers
      BY <1>3, <3>1
    <3> HIDE DEF Next
    <3>. QED BY <1>2, <3>1, <3>2
  <2> HIDE DEF Next
  <2>2. f = [s \in SUBSET (1 .. n) |-> Yields(f, s)]
    BY <1>3, <2>1 DEF Folds
  <2>. QED BY <1>1, <2>2
<1>5. Collects(iter)
  <2> HIDE DEF Collects
  <2>. QED BY <1>4
<1>6. Accumulate(op, nums, overflow) = iter[DOMAIN rest]
  BY DEF Accumulate, FoldLeft, MapThenFoldSet
<1> HIDE DEF iter
<1>7. \A s \in SUBSET (1 .. n) : iter[s] = Yields(iter, s)
  <2> HIDE DEF Yields, rest, n
  <2>. QED BY <1>1, <1>5
<1> DEFINE g == [k \in 1 .. Len(nums) |-> iter[1 .. k - 1]]
<1>8. g[1] = nums[1]
  <2> HIDE DEF rest, n
  <2>1. 1 .. 0 = {} /\ 1 .. 0 \in SUBSET (1 .. n)
    OBVIOUS
  <2>2. g[1] = iter[1 .. 0]
    BY <1>1
  <2>. QED BY <1>1, <1>7, <2>1, <2>2
<1>9. ASSUME NEW k \in 2 .. Len(nums) PROVE g[k] = Next(g[k - 1], nums[k])
  <2> DEFINE j == k - 1
  <2> HIDE DEF rest, n, Next
  <2>1. j \in 1 .. n /\ j \in Nat /\ j # 0 /\ k = j + 1 /\ j \in 1 .. Len(nums)
    BY <1>1
  <2>2. g[k] = iter[1 .. j] /\ g[j] = iter[1 .. j - 1]
    BY <2>1
  <2> HIDE DEF g, j
  <2>3. 1 .. j \in SUBSET (1 .. n) /\ rest[j] = nums[k]
    BY <1>1, <2>1
  <2>4. iter[1 .. j] = Next(iter[1 .. j - 1], rest[j])
    BY <1>7, <2>1, <2>3, FirstPlaces
  <2>. QED BY <2>2, <2>3, <2>4 DEF j
<1>10. Accumulate(op, nums, overflow) = g[Len(nums)]
  <2> HIDE DEF rest, n
  <2>1. Len(nums) \in 1 .. Len(nums) /\ Len(nums) - 1 = n
    BY <1>1
  <2>. QED BY <1>1, <1>6, <2>1
<1> HIDE DEF g
<1>. QED BY <1>8, <1>9, <1>10

\* What the first numbers come to among all integers, one number at a time.
LEMMA ExactGoesOneByOne ==
    ASSUME NEW op, NEW nums, Len(nums) \in Nat \ {0},
           \A i \in 1 .. Len(nums) : nums[i].value \in Int
    PROVE  /\ Exact(op, nums)[1] = nums[1].value
           /\ \A k \in 2 .. Len(nums) :
                 Exact(op, nums)[k] = IF op = <<"+">> THEN Exact(op, nums)[k - 1] + nums[k].value
                                      ELSE Exact(op, nums)[k - 1] * nums[k].value
<1> DEFINE n == Len(nums)
           Next(x, i) == IF op = <<"+">> THEN x + nums[i].value ELSE x * nums[i].value
           step == [p \in Int \X (1 .. n) |-> Next(p[1], p[2])]
           Body(f, i) == IF i = 1 THEN nums[1].value
                         ELSE IF op = <<"+">> THEN f[i - 1] + nums[i].value
                         ELSE f[i - 1] * nums[i].value
           Computes(f) == f = [i \in 1 .. n |-> Body(f, i)]
           exact == CHOOSE f : Computes(f)
<1>1. n \in Nat \ {0} /\ \A i \in 1 .. n : nums[i].value \in Int
  OBVIOUS
<1>2. /\ step \in [Int \X (1 .. n) -> Int]
      /\ \A x \in Int, i \in 1 .. n : step[<<x, i>>] = Next(x, i)
  <2>1. \A x \in Int, i \in 1 .. n : Next(x, i) \in Int
    BY <1>1
  <2> HIDE DEF Next, n
  <2>. QED BY <2>1
<1>3. PICK f \in [1 .. n -> Int] : Recurs(f, 1, n, nums[1].value, step)
  <2> HIDE DEF step, n
  <2>1. 1 \in Nat /\ n \in Nat /\ 1 <= n /\ nums[1].value \in Int
    BY <1>1
  <2>. QED BY <1>2, <2>1, RecursionExists
<1>4. Computes(f)
  <2> HIDE DEF step, n
  <2>1. ASSUME NEW i \in 1 .. n PROVE f[i] = Body(f, i)
    <3>1. CASE i = 1
      BY <1>3, <3>1 DEF Recurs
    <3>2. CASE i # 1
      <4>1. f[i - 1] \in Int
        <5>1. i - 1 \in 1 .. n
          BY <1>1, <3>2
        <5>. QED BY <1>3, <5>1, Zenon
      <4>2. f[i] = step[<<f[i - 1], i>>]
        BY <1>3, <3>2, Zenon DEF Recurs
      <4>3. step[<<f[i - 1], i>>] = Next(f[i - 1], i)
        BY <1>2, <4>1, Zenon
      <4>. QED BY <3>2, <4>2, <4>3
    <3>. QED BY <3>1, <3>2
  <2> HIDE DEF Body
  <2>. QED BY <1>3, <2>1
<1>5. Computes(exact)
  <2> HIDE DEF Computes
  <2>. QED BY <1>4
<1>6. Exact(op, nums) = exact
  BY DEF Exact
<1>7. \A i \in 1 .. n : exact[i] = Body(exact, i)
  <2> HIDE DEF Body, exact, n
  <2>. QED BY <1>5
<1> HIDE DEF exact
<1>. QED BY <1>1, <1>6, <1>7

\* The value of a partial result: exact as long as all numbers are signed, from
\* the first unsigned one on modulo the width.
LEMMA AccumulateIsModular ==
    ASSUME NEW op, NEW nums \in Seq(Numbers), nums # <<>>, NEW overflow \in SignedValues,
           \A i \in DOMAIN nums : ~IsFloat(nums[i]),
           \A k \in DOMAIN nums : \/ \E i \in 1 .. k : nums[i].kind = "unsigned"
                                  \/ Exact(op, nums)[k] \in SignedValues
    PROVE  (Accumulate(op, nums, overflow).value - Exact(op, nums)[Len(nums)]) % (2 * SignBit) = 0
<1> DEFINE m == Len(nums)
           width == 2 * SignBit
           exact == Exact(op, nums)
           AllSigned(k) == \A i \in 1 .. k : nums[i].kind = "signed"
<1>1. PICK g : /\ g[1] = nums[1]
               /\ \A k \in 2 .. m : g[k] = Combine(op, g[k - 1], nums[k], overflow)
               /\ Accumulate(op, nums, overflow) = g[m]
  BY AccumulateGoesOneByOne
<1>2. /\ m \in Nat \ {0} /\ DOMAIN nums = 1 .. m
      /\ \A i \in 1 .. m : IsInt(nums[i]) /\ nums[i].kind \in {"signed", "unsigned"}
                           /\ nums[i].value \in Int
  BY NumberValues DEF IsInt, IsFloat
<1>3. /\ exact[1] = nums[1].value
      /\ \A k \in 2 .. m : exact[k] = IF op = <<"+">> THEN exact[k - 1] + nums[k].value
                                       ELSE exact[k - 1] * nums[k].value
  BY <1>2, ExactGoesOneByOne
<1>4. \A k \in 1 .. m : AllSigned(k) => exact[k] \in SignedValues
  BY <1>2
<1>5. width \in Nat \ {0} /\ UnsignedValues = 0 .. width - 1
  BY RoundingAssumption DEF RoundingAssumption, UnsignedValues
<1> DEFINE IsRight(k) ==
               /\ IsInt(g[k]) /\ exact[k] \in Int
               /\ AllSigned(k) => g[k].kind = "signed" /\ g[k].value = exact[k]
               /\ ~AllSigned(k) => g[k].kind = "unsigned" /\ g[k].value = exact[k] % width
           S == {k \in 1 .. m : IsRight(k)}
<1> HIDE DEF m, exact, width
<1>6. 1 \in S
  <2>1. AllSigned(1) <=> nums[1].kind = "signed"
    OBVIOUS
  <2>2. nums[1].kind = "unsigned" => nums[1].value % width = nums[1].value
    <3>1. nums[1].kind = "unsigned" => nums[1].value \in 0 .. width - 1
      BY <1>2, <1>5, NumberValues DEF IsInt
    <3>. QED BY <1>5, <3>1
  <2>. QED BY <1>1, <1>2, <1>3, <2>1, <2>2
<1>7. ASSUME NEW k \in 1 .. m, k # 1, k - 1 \in S PROVE k \in S
  <2> DEFINE j == k - 1
             l == g[j]
             r == nums[k]
  <2>1. k \in 2 .. m /\ j \in 1 .. m /\ 1 .. k = (1 .. j) \cup {k}
    BY <1>2, <1>7
  <2>2. IsRight(j)
    BY <1>7
  <2>3. IsInt(l) /\ IsInt(r) /\ l.value \in Int /\ r.value \in Int /\ exact[j] \in Int
        /\ l.kind \in {"signed", "unsigned"} /\ r.kind \in {"signed", "unsigned"}
    BY <1>2, <2>1, <2>2, NumberValues DEF IsInt, IsFloat
  <2>4. AllSigned(k) <=> AllSigned(j) /\ r.kind = "signed"
    BY <2>1
  <2>5. AllSigned(k) <=> l.kind = "signed" /\ r.kind = "signed"
    BY <2>2, <2>4
  <2> DEFINE x == IF op = <<"+">> THEN l.value + r.value ELSE l.value * r.value
             y == IF op = <<"+">> THEN exact[j] + r.value ELSE exact[j] * r.value
  <2>6. /\ g[k] = IF AllSigned(k) THEN Signed(IF x \in SignedValues THEN x ELSE overflow)
                  ELSE Unsigned(x % width)
        /\ x \in Int /\ IsInt(g[k])
    <3>1. g[k] = Combine(op, l, r, overflow)
      BY <1>1, <2>1
    <3> HIDE DEF l, r, j
    <3>2. /\ Combine(op, l, r, overflow) =
                IF l.kind = "signed" /\ r.kind = "signed"
                THEN Signed(IF x \in SignedValues THEN x ELSE overflow)
                ELSE Unsigned(x % width)
          /\ x \in Int /\ IsInt(Combine(op, l, r, overflow))
      BY <2>3, CombineOfIntegers, Zenon DEF width
    <3> HIDE DEF x, AllSigned
    <3>. QED BY <2>5, <3>1, <3>2
  <2>7. exact[k] = y /\ y \in Int
    BY <1>3, <2>1, <2>3
  <2>8. AllSigned(j) => x = y
    BY <2>2
  <2>9. x % width = y % width
    <3>1. CASE AllSigned(j)
      BY <2>8, <3>1
    <3>2. CASE ~AllSigned(j)
      <4>1. l.value = exact[j] % width
        BY <2>2, <3>2
      <4> HIDE DEF l, r, j
      <4> DEFINE a == exact[j]
                 b == r.value
      <4>2. width \in Nat \ {0} /\ a \in Int /\ b \in Int
        BY <1>5, <2>3
      <4> HIDE DEF a, b
      <4>3. /\ ((a % width) + b) % width = (a + b) % width
            /\ ((a % width) * b) % width = (a * b) % width
        BY <4>2, RemaindersCombine
      <4>4. l.value = a % width
        BY <4>1 DEF a
      <4>5. /\ (l.value + b) % width = (a + b) % width
            /\ (l.value * b) % width = (a * b) % width
        BY <4>3, <4>4, Zenon
      <4>. QED BY <4>5, Zenon DEF a, b
    <3>. QED BY <3>1, <3>2
  <2>10. CASE AllSigned(k)
    <3>1. exact[k] \in SignedValues /\ x = y
      BY <1>4, <2>4, <2>8, <2>10
    <3>2. g[k] = Signed(x)
      BY <2>6, <2>7, <2>10, <3>1
    <3> HIDE DEF x, y
    <3>. QED BY <2>6, <2>7, <2>10, <3>1, <3>2 DEF Signed
  <2>11. CASE ~AllSigned(k)
    <3> HIDE DEF x, y
    <3>. QED BY <2>6, <2>7, <2>9, <2>11 DEF Unsigned
  <2>. QED BY <2>10, <2>11
<1>8. IsRight(m)
  <2> HIDE DEF S
  <2>1. \A k \in 1 .. m : k \in S
    BY <1>2, <1>6, <1>7, StepByStep
  <2>. QED BY <1>2, <2>1 DEF S
<1>9. (g[m].value - exact[m]) % width = 0
  <2> DEFINE z == exact[m]
  <2>1. z \in Int /\ g[m].value \in {z, z % width}
    BY <1>8
  <2> HIDE DEF z
  <2>2. (z - z) % width = 0 /\ ((z % width) - z) % width = 0
    BY <1>5, <2>1, RemaindersCombine
  <2>3. (g[m].value - z) % width = 0
    BY <2>1, <2>2
  <2>. QED BY <2>3 DEF z
<1>. QED BY <1>1, <1>9 DEF exact, width, m

\* For every width, sums and products of integers of mixed signedness are right
\* modulo the width unless operands that are all signed overflow.
THEOREM IntegersStayModular == NumbersSpec => []IntegersAreModular
<1>1. ComputedInv => IntegersAreModular
  <2> DEFINE op == computed.op
             nums == computed.numbers
  <2>1. SUFFICES ASSUME ComputedInv, op \in Accumulations, nums # <<>>, AllIntegers,
                        \A k \in DOMAIN nums :
                            \/ \E i \in 1 .. k : nums[i].kind = "unsigned"
                            \/ Exact(op, nums)[k] \in SignedValues
                 PROVE  (Content(computed.status.value).value - Exact(op, nums)[Len(nums)])
                            % (2 * SignBit) = 0
    BY DEF IntegersAreModular
  <2>2. computed # NothingComputed
    BY <2>1 DEF NothingComputed
  <2>3. PICK overflow \in SignedValues : computed.status = NumericOperation(op, nums, overflow)
    BY <2>1, <2>2 DEF ComputedInv
  <2>4. computed.status = Ok(JsonNumber(Accumulate(op, nums, overflow)))
    BY <2>1, <2>3 DEF NumericOperation, Extremes, Comparisons, Accumulations
  <2>5. Content(computed.status.value) = Accumulate(op, nums, overflow)
    BY <2>4 DEF Ok, JsonNumber, Content
  <2>. QED BY <2>1, <2>5, AccumulateIsModular DEF ComputedInv, AllIntegers
<1>. QED BY <1>1, ComputedAlways, PTL

-----------------------------------------------------------------------------
(* Rules that apply an operation to operands                                 *)

\* A rule that applies an operation to a list of operands.
Applies(logic, name, operands) ==
    /\ KindOf(logic) = "object" /\ Content(logic) # <<>>
    /\ FirstKey(Content(logic)) = <<name>>
    /\ IsArray(Content(logic)[<<name>>])
    /\ Content(Content(logic)[<<name>>]) = operands

Names == {"!", "and", "cat", "if", "missing", "missing_some", "or", "substr", "var",
          "<", "<=", ">", ">="}

\* The key of an object that has only one is its first.
LEMMA OnlyKeyIsFirst ==
  ASSUME NEW members, NEW key \in Range(KeyOrder), DOMAIN members = {key}
  PROVE  FirstKey(members) = key
  <1> DEFINE Places == {i \in DOMAIN KeyOrder : KeyOrder[i] \in DOMAIN members}
  <1>1. PICK i \in DOMAIN KeyOrder : KeyOrder[i] = key
    BY DEF Range
  <1>2. Places \in SUBSET Nat /\ Places # {}
    <2>1. DOMAIN KeyOrder = 1 .. Len(KeyOrder) /\ Len(KeyOrder) \in Nat
      BY KeyOrderAssumption, LenProperties
    <2> QED
      BY <1>1, <2>1
  <1>3. Min(Places) \in Places
    BY <1>2, LeastNumber
  <1> QED
    BY <1>3 DEF FirstKey

\* A rule made of a name and operands applies that operation to them.
LEMMA OpApplies ==
  ASSUME NEW name \in Names, NEW operands
  PROVE  Applies(Op(name, operands), name, operands)
  <1> DEFINE members == [key \in {<<name>>} |-> JsonArray(operands)]
  <1>1. Op(name, operands) = JsonObject(members)
    BY DEF Op
  <1>2. DOMAIN members = {<<name>>} /\ members[<<name>>] = JsonArray(operands)
    OBVIOUS
  <1>3. members # <<>>
    BY <1>2
  <1>4. <<name>> \in Range(KeyOrder)
    BY KeyOrderAssumption DEF Names
  <1>5. FirstKey(members) = <<name>>
    BY <1>2, <1>4, OnlyKeyIsFirst
  <1> HIDE DEF members
  <1> QED
    BY <1>1, <1>2, <1>3, <1>5 DEF Applies, JsonObject, JsonArray, KindOf, Content, IsArray

\* What was evaluated last, where it names an operation.
LEMMA EvaluatedApplies ==
  ASSUME NEW name, Evaluated(name)
  PROVE  Applies(evaluation.logic, name, OperandsOf(name))
  BY DEF Evaluated, OperandsOf, Applies

\* Such a rule answers with what its operation answers.
LEMMA ApplyIs ==
  ASSUME IsInterpreter, NEW name, NEW logic, NEW operands, NEW data,
         Applies(logic, name, operands),
         ApplyOp(<<name>>, Content(logic)[<<name>>], data) # NotFound
  PROVE  Apply(logic, data) = ApplyOp(<<name>>, Content(logic)[<<name>>], data)
  BY DEF IsInterpreter, ApplyOnce, Applies, IsPrimitive, IsArray

\* A scalar stands for itself.
LEMMA ScalarIs ==
  ASSUME IsInterpreter, NEW value, NEW data, IsPrimitive(value)
  PROVE  Apply(value, data) = Ok(value)
  BY DEF IsInterpreter, ApplyOnce

\* Which operation the table has for a name.
LEMMA Table ==
  ASSUME NEW name \in Names, NEW v, NEW d
  PROVE  ApplyOp(<<name>>, v, d) =
            CASE name = "var" -> Var(v, d)
              [] name = "missing" -> Missing(v, d)
              [] name = "missing_some" -> MissingSome(v, d)
              [] name = "and" -> And(v, d)
              [] name = "or" -> Or(v, d)
              [] name = "!" -> Not(v, d)
              [] name = "if" -> If(v, d)
              [] name = "cat" -> Cat(v, d)
              [] name = "substr" -> Substr(v, d)
              [] name \in {"<", "<=", ">", ">="} -> Numeric(<<name>>, v, d)
  <1> DEFINE op == <<name>>
  <1>1. \A other : op = <<other>> <=> name = other
    OBVIOUS
  <1> HIDE DEF op
  <1>2. /\ op = <<"var">> <=> name = "var"
        /\ op = <<"missing">> <=> name = "missing"
        /\ op = <<"missing_some">> <=> name = "missing_some"
        /\ op = <<"and">> <=> name = "and"
        /\ op = <<"or">> <=> name = "or"
        /\ op = <<"!">> <=> name = "!"
        /\ op = <<"cat">> <=> name = "cat"
        /\ op = <<"substr">> <=> name = "substr"
    BY <1>1, Zenon
  <1>3. /\ op # <<"!!">> /\ op # <<"in">> /\ op # <<"merge">>
        /\ op \notin {<<"==">>, <<"===">>} /\ op \notin {<<"!=">>, <<"!==">>}
        /\ op \in {<<"if">>, <<"?:">>} <=> name = "if"
    BY <1>1 DEF Names
  <1>4. op \in NumericOperations <=> name \in {"<", "<=", ">", ">="}
    BY <1>1 DEF Names, NumericOperations, Extremes, Comparisons, Accumulations
  <1>5. ApplyOp(op, v, d) =
            CASE name = "var" -> Var(v, d)
              [] name = "missing" -> Missing(v, d)
              [] name = "missing_some" -> MissingSome(v, d)
              [] name = "and" -> And(v, d)
              [] name = "or" -> Or(v, d)
              [] name = "!" -> Not(v, d)
              [] name = "if" -> If(v, d)
              [] name = "cat" -> Cat(v, d)
              [] name = "substr" -> Substr(v, d)
              [] name \in {"<", "<=", ">", ">="} -> Numeric(op, v, d)
    BY <1>2, <1>3, <1>4 DEF ApplyOp, Names
  <1> QED
    BY <1>5 DEF op

-----------------------------------------------------------------------------
(* Lists                                                                     *)

IsList(values) == values \in Seq(Range(values))

\* The places and the elements of a list.
LEMMA ListHas ==
  ASSUME NEW values, IsList(values)
  PROVE  /\ Len(values) \in Nat /\ DOMAIN values = 1 .. Len(values)
         /\ values = <<>> <=> Len(values) = 0
  BY LenProperties, EmptySeq DEF IsList

\* A function on the first n numbers is a list of n.
LEMMA ListIs ==
  ASSUME NEW n \in Nat, NEW values, values = [i \in 1 .. n |-> values[i]]
  PROVE  IsList(values) /\ Len(values) = n /\ DOMAIN values = 1 .. n
  <1>1. values \in [1 .. n -> Range(values)]
    BY DEF Range
  <1>2. values \in Seq(Range(values))
    BY <1>1, SeqDef
  <1>3. DOMAIN values = 1 .. n
    BY <1>1
  <1> HIDE DEF IsList
  <1>4. Len(values) = n
    <2>1. Len(values) \in Nat /\ DOMAIN values = 1 .. Len(values)
      BY <1>2, LenProperties
    <2> QED
      BY <1>3, <2>1
  <1> QED
    BY <1>2, <1>3, <1>4 DEF IsList

\* Lists are equal if they have the same length and elements.
LEMMA ListsAgree ==
  ASSUME NEW values, NEW others, IsList(values), IsList(others),
         Len(values) = Len(others), \A i \in 1 .. Len(values) : values[i] = others[i]
  PROVE  values = others
  <1>1. values \in [1 .. Len(values) -> Range(values)] /\ others \in [1 .. Len(values) -> Range(others)]
    BY LenProperties DEF IsList
  <1> QED
    BY <1>1

\* What a list of one operand is.
LEMMA OneIsList ==
  ASSUME NEW a
  PROVE  IsList(<<a>>) /\ Len(<<a>>) = 1 /\ <<a>>[1] = a
  <1>1. <<a>> = [i \in 1 .. 1 |-> <<a>>[i]]
    OBVIOUS
  <1> QED
    BY <1>1, ListIs

\* Of two.
LEMMA TwoAreList ==
  ASSUME NEW a, NEW b
  PROVE  IsList(<<a, b>>) /\ Len(<<a, b>>) = 2 /\ <<a, b>>[1] = a /\ <<a, b>>[2] = b
  <1>1. <<a, b>> = [i \in 1 .. 2 |-> <<a, b>>[i]]
    OBVIOUS
  <1> QED
    BY <1>1, ListIs

\* Of three.
LEMMA ThreeAreList ==
  ASSUME NEW a, NEW b, NEW c
  PROVE  /\ IsList(<<a, b, c>>) /\ Len(<<a, b, c>>) = 3
         /\ <<a, b, c>>[1] = a /\ <<a, b, c>>[2] = b /\ <<a, b, c>>[3] = c
  <1>1. <<a, b, c>> = [i \in 1 .. 3 |-> <<a, b, c>>[i]]
    OBVIOUS
  <1> QED
    BY <1>1, ListIs

\* Each of a list applied.
LEMMA EachIs ==
  ASSUME NEW values, IsList(values), NEW data
  PROVE  LET each == EachApplied(values, data)
         IN  /\ IsList(each) /\ Len(each) = Len(values) /\ DOMAIN each = 1 .. Len(values)
             /\ each = <<>> <=> Len(values) = 0
             /\ \A i \in 1 .. Len(values) : each[i] = Apply(values[i], data)
  <1> DEFINE n == Len(values)
             each == EachApplied(values, data)
  <1>1. n \in Nat /\ DOMAIN values = 1 .. n
    BY ListHas
  <1>2. each = [i \in 1 .. n |-> Apply(values[i], data)]
    BY <1>1 DEF EachApplied
  <1> HIDE DEF n, each
  <1>3. each = [i \in 1 .. n |-> each[i]]
    BY <1>2
  <1>4. IsList(each) /\ Len(each) = n /\ DOMAIN each = 1 .. n
    BY <1>1, <1>3, ListIs
  <1>5. each = <<>> <=> n = 0
    BY <1>4, ListHas
  <1>6. \A i \in 1 .. n : each[i] = Apply(values[i], data)
    BY <1>2
  <1> QED
    BY <1>4, <1>5, <1>6 DEF n, each

\* The first of some places before the last.
LEMMA FirstPlaceIs ==
  ASSUME NEW n \in Nat, NEW S \in SUBSET (1 .. n), NEW m \in S, \A i \in S : i >= m
  PROVE  Min(S) = m
  <1>1. S \in SUBSET Nat /\ S # {}
    OBVIOUS
  <1> DEFINE least == Min(S)
  <1>2. least \in S /\ \A i \in S : least <= i
    BY <1>1, LeastNumber
  <1> HIDE DEF least
  <1>3. least \in 1 .. n /\ m \in 1 .. n
    BY <1>2
  <1>4. least <= m /\ m <= least
    BY <1>2, <1>3
  <1>5. least = m
    BY <1>3, <1>4
  <1> QED
    BY <1>5 DEF least

-----------------------------------------------------------------------------
(* and, or                                                                   *)

\* What an operand must be for the next one to be reached.
Goes(name, status) ==
    IF name = "and" THEN IsTruthy(status) ELSE IsOk(status) /\ ~IsTruthy(status)

\* The operands go up to the m-th, which is the last or goes no further.
EndsAt(name, operands, data, m) ==
    /\ m \in 1 .. Len(operands)
    /\ \A i \in 1 .. m - 1 : Goes(name, Apply(operands[i], data))
    /\ m = Len(operands) \/ ~Goes(name, Apply(operands[m], data))

\* FirstOrLast picks the operand at which the chain ends.
LEMMA FirstOrLastIs ==
  ASSUME NEW each, NEW n \in Nat, Len(each) = n, NEW stops \in SUBSET (1 .. n),
         NEW m \in 1 .. n, \A i \in 1 .. m - 1 : i \notin stops, m = n \/ m \in stops
  PROVE  FirstOrLast(each, stops) = each[m]
  <1> DEFINE places == stops \cup {n}
  <1>1. n \in 1 .. n
    OBVIOUS
  <1>2. places \in SUBSET (1 .. n) /\ m \in places
    BY <1>1
  <1>3. ASSUME NEW i \in places PROVE i >= m
    <2>1. i \in 1 .. n
      BY <1>2
    <2>2. i \in stops \/ i = n
      OBVIOUS
    <2> HIDE DEF places
    <2>3. i \notin 1 .. m - 1 \/ i = n
      BY <2>2
    <2> QED
      BY <2>1, <2>3
  <1>4. FirstOrLast(each, stops) = each[Min(places)]
    BY DEF FirstOrLast
  <1> HIDE DEF places
  <1>5. Min(places) = m
    BY <1>2, <1>3, FirstPlaceIs
  <1> QED
    BY <1>4, <1>5

\* and and or answer what the operand answers at which their operands end: the
\* loops of And and Or, which return from within or with the last status.
LEMMA ChainIs ==
  ASSUME IsInterpreter, NEW name \in {"and", "or"}, NEW logic, NEW operands, NEW data,
         Applies(logic, name, operands), IsList(operands),
         NEW m, EndsAt(name, operands, data, m)
  PROVE  Apply(logic, data) = Apply(operands[m], data)
  <1> DEFINE each == EachApplied(operands, data)
             stops == {i \in DOMAIN each : ~Goes(name, each[i])}
             values == Content(logic)[<<name>>]
             n == Len(operands)
  <1>1. /\ IsList(each) /\ Len(each) = n /\ DOMAIN each = 1 .. n /\ (each = <<>> <=> n = 0)
        /\ \A i \in 1 .. n : each[i] = Apply(operands[i], data)
    BY EachIs
  <1>2. n \in Nat
    BY ListHas
  <1>3. m \in 1 .. n /\ \A i \in 1 .. m - 1 : i \in 1 .. n
    BY <1>2 DEF EndsAt
  <1>4. IsArray(values) /\ Content(values) = operands
    BY DEF Applies
  <1> HIDE DEF each, values, n
  <1>5. FirstOrLast(each, stops) = each[m]
    <2>1. \A i \in 1 .. m - 1 : i \notin stops
      BY <1>1, <1>3 DEF EndsAt
    <2>2. m = Len(each) \/ m \in stops
      BY <1>1, <1>3 DEF EndsAt, n
    <2>3. stops \in SUBSET (1 .. n) /\ (m = n \/ m \in stops)
      BY <1>1, <2>2
    <2> QED
      BY <1>1, <1>2, <1>3, <2>1, <2>2, <2>3, FirstOrLastIs
  <1>6. ApplyOp(<<name>>, values, data) = FirstOrLast(each, stops)
    <2>1. Sugared(values) = operands /\ each # <<>>
      BY <1>1, <1>2, <1>3, <1>4 DEF Sugared
    <2>2. CASE name = "and"
      <3>1. ApplyOp(<<name>>, values, data) = And(values, data)
        BY <2>2, Table DEF Names
      <3>2. stops = {i \in DOMAIN each : ~IsTruthy(each[i])}
        BY <2>2 DEF Goes
      <3> QED
        BY <2>1, <3>1, <3>2 DEF And, each
    <2>3. CASE name = "or"
      <3>1. ApplyOp(<<name>>, values, data) = Or(values, data)
        BY <2>3, Table DEF Names
      <3>2. stops = {i \in DOMAIN each : ~IsOk(each[i]) \/ IsTruthy(each[i])}
        BY <2>3 DEF Goes
      <3> QED
        BY <2>1, <3>1, <3>2 DEF Or, each
    <2> QED
      BY <2>2, <2>3
  <1>7. each[m] = Apply(operands[m], data) /\ Apply(operands[m], data) # NotFound
    BY <1>1, <1>3 DEF IsInterpreter
  <1> QED
    BY <1>5, <1>6, <1>7, ApplyIs DEF values

\* The operands of a chain that has any end at one of them.
LEMMA ChainEnds ==
  ASSUME NEW name, NEW operands, IsList(operands), Len(operands) # 0, NEW data
  PROVE  \E m : EndsAt(name, operands, data, m)
  <1> DEFINE n == Len(operands)
             S == {i \in 1 .. n : i = n \/ ~Goes(name, Apply(operands[i], data))}
             m == Min(S)
  <1>1. n \in Nat /\ n # 0
    BY ListHas
  <1> HIDE DEF n
  <1>2. n \in S /\ S \in SUBSET Nat
    BY <1>1
  <1>3. m \in S /\ \A i \in S : m <= i
    BY <1>2, LeastNumber
  <1> HIDE DEF m
  <1>4. m \in 1 .. n /\ \A i \in 1 .. m - 1 : i \in 1 .. n /\ i # n /\ ~(m <= i)
    BY <1>1, <1>3
  <1>5. \A i \in 1 .. m - 1 : Goes(name, Apply(operands[i], data))
    BY <1>3, <1>4
  <1>6. m = n \/ ~Goes(name, Apply(operands[m], data))
    BY <1>3
  <1>7. EndsAt(name, operands, data, m)
    BY <1>4, <1>5, <1>6 DEF EndsAt, n
  <1> QED
    BY <1>7

\* Without operands and and or fail.
LEMMA ChainOfNone ==
  ASSUME IsInterpreter, NEW name \in {"and", "or"}, NEW logic, NEW operands, NEW data,
         Applies(logic, name, operands), IsList(operands), Len(operands) = 0
  PROVE  Apply(logic, data) = Invalid
  <1> DEFINE values == Content(logic)[<<name>>]
             each == EachApplied(operands, data)
  <1>1. each = <<>>
    BY EachIs
  <1>2. Sugared(values) = operands
    BY DEF Applies, Sugared
  <1> HIDE DEF each
  <1>3. ApplyOp(<<name>>, values, data) = Invalid
    <2>1. CASE name = "and"
      BY <1>1, <1>2, <2>1, Table DEF Names, And, each
    <2>2. CASE name = "or"
      BY <1>1, <1>2, <2>2, Table DEF Names, Or, each
    <2> QED
      BY <2>1, <2>2
  <1>4. Invalid # NotFound
    BY DEF Invalid, NotFound
  <1> QED
    BY <1>3, <1>4, ApplyIs

\* Where and and or get by without an operand that fails, no value of it changes
\* anything.
LEMMA ChainIsStable ==
  ASSUME IsInterpreter, NEW name \in {"and", "or"}, NEW operands, IsList(operands), NEW data,
         NEW others, IsList(others), Len(others) = Len(operands), NEW i \in 1 .. Len(operands),
         \A j \in 1 .. Len(operands) : j # i => others[j] = operands[j],
         ~IsOk(Apply(operands[i], data)),
         NEW logic, Applies(logic, name, operands), IsOk(Apply(logic, data)),
         NEW other, Applies(other, name, others)
  PROVE  Apply(other, data) = Apply(logic, data)
  <1>1. Len(operands) \in Nat /\ Len(operands) # 0
    BY ListHas
  <1>2. PICK m : EndsAt(name, operands, data, m)
    BY <1>1, ChainEnds
  <1>3. Apply(logic, data) = Apply(operands[m], data)
    BY <1>2, ChainIs
  <1>4. m # i
    BY <1>3
  <1>5. ~(i \in 1 .. m - 1)
    BY <1>2 DEF EndsAt, Goes, IsTruthy
  <1>6. m \in 1 .. Len(operands)
    BY <1>2 DEF EndsAt
  <1>7. m # Len(operands) /\ \A j \in 1 .. m : j \in 1 .. Len(operands) /\ j # i
    <2>1. m < i
      BY <1>1, <1>4, <1>5, <1>6
    <2> QED
      BY <1>1, <1>6, <2>1
  <1>8. \A j \in 1 .. m : others[j] = operands[j]
    BY <1>7
  <1>9. m \in 1 .. m /\ \A j \in 1 .. m - 1 : j \in 1 .. m
    BY <1>6
  <1>10. EndsAt(name, others, data, m)
    BY <1>2, <1>6, <1>7, <1>8, <1>9 DEF EndsAt
  <1>11. Apply(other, data) = Apply(others[m], data)
    BY <1>10, ChainIs
  <1> QED
    BY <1>3, <1>8, <1>9, <1>11

-----------------------------------------------------------------------------
(* !                                                                         *)

Negated(status) == IF IsOk(status) THEN Ok(JsonBool(~Truthy(status.value))) ELSE status

\* A negated operand ends or where the operand itself ends and.
LEMMA NegatedGoes ==
  ASSUME NEW status
  PROVE  /\ IsOk(Negated(status)) <=> IsOk(status)
         /\ Goes("or", Negated(status)) <=> Goes("and", status)
  <1>1. CASE ~IsOk(status)
    BY <1>1 DEF Negated, Goes, IsTruthy
  <1>2. CASE IsOk(status)
    <2> DEFINE b == ~Truthy(status.value)
    <2>1. Negated(status) = Ok(JsonBool(b))
      BY <1>2 DEF Negated
    <2>2. b <=> ~Truthy(status.value)
      OBVIOUS
    <2> HIDE DEF b
    <2>3. IsOk(Ok(JsonBool(b))) /\ Ok(JsonBool(b)).value = JsonBool(b)
      BY DEF Ok, IsOk
    <2>4. Truthy(JsonBool(b)) <=> b
      BY DEF Truthy, JsonBool, KindOf, Content
    <2>5. Goes("or", Ok(JsonBool(b))) <=> ~b
      BY <2>3, <2>4 DEF Goes, IsTruthy
    <2>6. Goes("and", status) <=> Truthy(status.value)
      BY <1>2 DEF Goes, IsTruthy
    <2> QED
      BY <1>2, <2>1, <2>2, <2>3, <2>5, <2>6
  <1> QED
    BY <1>1, <1>2

\* ! of one operand answers what the operand answers, negated.
LEMMA NotIs ==
  ASSUME IsInterpreter, NEW logic, NEW operand, NEW data, Applies(logic, "!", <<operand>>)
  PROVE  Apply(logic, data) = Negated(Apply(operand, data))
  <1> DEFINE values == Content(logic)[<<"!">>]
             status == Apply(operand, data)
             b == Truthy(status.value)
  <1>1. IsArray(values) /\ Size(values) = 1 /\ Content(values)[1] = operand
    BY OneIsList DEF Applies, Size
  <1> HIDE DEF values
  <1>2. GetBool(values, data) = IF IsOk(status) THEN Ok(JsonBool(b)) ELSE status
    BY <1>1 DEF GetBool
  <1>3. Not(values, data) = Negated(status)
    <2>1. CASE ~IsOk(status)
      BY <1>2, <2>1 DEF Not, Negated
    <2>2. CASE IsOk(status)
      <3>1. Negated(status) = Ok(JsonBool(~b))
        BY <2>2 DEF Negated
      <3>2. GetBool(values, data) = Ok(JsonBool(b))
        BY <1>2, <2>2
      <3> HIDE DEF b
      <3>3. Content(Ok(JsonBool(b)).value) = b /\ IsOk(Ok(JsonBool(b)))
        BY Zenon DEF Content, Ok, JsonBool, IsOk
      <3>4. Not(values, data) = Ok(JsonBool(~Content(Ok(JsonBool(b)).value)))
        BY <3>2, <3>3 DEF Not
      <3> QED
        BY <3>1, <3>3, <3>4
    <2> QED
      BY <2>1, <2>2
  <1>4. ApplyOp(<<"!">>, values, data) = Not(values, data)
    BY Table DEF Names
  <1>5. Negated(status) # NotFound
    <2>1. status # NotFound
      BY DEF IsInterpreter
    <2> QED
      BY <2>1 DEF Negated, Ok, NotFound
  <1> QED
    BY <1>3, <1>4, <1>5, ApplyIs DEF values

-----------------------------------------------------------------------------
(* Equivalent forms of and and or                                            *)

\* The negated and is the or of its negated operands, failures included.
LEMMA DeMorgan ==
  ASSUME IsInterpreter, NEW logic, NEW operands, NEW data,
         Applies(logic, "and", operands), IsList(operands)
  PROVE  LET negated == [i \in DOMAIN operands |-> Op("!", <<operands[i]>>)]
         IN  Apply(Op("!", <<logic>>), data) = Apply(Op("or", negated), data)
  <1> DEFINE negated == [i \in DOMAIN operands |-> Op("!", <<operands[i]>>)]
             n == Len(operands)
  <1>1. n \in Nat /\ DOMAIN operands = 1 .. n
    BY ListHas
  <1> HIDE DEF n
  <1>2. negated = [i \in 1 .. n |-> negated[i]]
    BY <1>1
  <1>3. \A i \in 1 .. n : negated[i] = Op("!", <<operands[i]>>)
    BY <1>1
  <1> HIDE DEF negated
  <1>4. IsList(negated) /\ Len(negated) = n
    BY <1>1, <1>2, ListIs
  <1>5. \A i \in 1 .. n : Apply(negated[i], data) = Negated(Apply(operands[i], data))
    <2> TAKE i \in 1 .. n
    <2>1. Applies(Op("!", <<operands[i]>>), "!", <<operands[i]>>)
      BY OpApplies DEF Names
    <2>2. Apply(Op("!", <<operands[i]>>), data) = Negated(Apply(operands[i], data))
      BY <2>1, NotIs
    <2> QED
      BY <1>3, <2>2
  <1>6. Apply(Op("!", <<logic>>), data) = Negated(Apply(logic, data))
    <2>1. Applies(Op("!", <<logic>>), "!", <<logic>>)
      BY OpApplies DEF Names
    <2> QED
      BY <2>1, NotIs
  <1>7. Applies(Op("or", negated), "or", negated)
    BY OpApplies DEF Names
  <1>8. CASE n = 0
    <2>1. Apply(logic, data) = Invalid /\ Apply(Op("or", negated), data) = Invalid
      BY <1>4, <1>7, <1>8, ChainOfNone DEF n
    <2> QED
      BY <1>6, <2>1 DEF Negated, Invalid, IsOk, negated
  <1>9. CASE n # 0
    <2>1. PICK m : EndsAt("and", operands, data, m)
      BY <1>9, ChainEnds DEF n
    <2>2. m \in 1 .. n /\ \A i \in 1 .. m - 1 : i \in 1 .. n
      <3>1. m \in 1 .. n
        BY <2>1 DEF EndsAt, n
      <3> QED
        BY <1>1, <3>1
    <2>3. \A i \in 1 .. n :
             Goes("or", Apply(negated[i], data)) <=> Goes("and", Apply(operands[i], data))
      BY <1>5, NegatedGoes
    <2>4. EndsAt("or", negated, data, m)
      BY <1>4, <2>1, <2>2, <2>3 DEF EndsAt, n
    <2>5. Apply(logic, data) = Apply(operands[m], data)
      BY <2>1, ChainIs
    <2>6. Apply(Op("or", negated), data) = Apply(negated[m], data)
      BY <1>4, <1>7, <2>4, ChainIs
    <2> QED
      BY <1>5, <1>6, <2>2, <2>5, <2>6 DEF negated
  <1> QED
    BY <1>8, <1>9

\* What is left of a list without its first element.
LEMMA TailIsList ==
  ASSUME NEW values, IsList(values), Len(values) # 0
  PROVE  /\ IsList(Tail(values)) /\ Len(Tail(values)) = Len(values) - 1
         /\ Head(values) = values[1]
         /\ \A i \in 1 .. Len(values) - 1 : Tail(values)[i] = values[i + 1]
  <1>1. values # <<>> /\ Len(values) \in Nat
    BY ListHas
  <1> DEFINE tail == Tail(values)
             n == Len(values) - 1
  <1>2. n \in Nat
    BY <1>1
  <1>3. /\ tail \in Seq(Range(values)) /\ Len(tail) = n
        /\ \A i \in 1 .. n : tail[i] = values[i + 1]
    BY <1>1, HeadTailProperties DEF IsList
  <1>4. Head(values) = values[1]
    OBVIOUS
  <1> HIDE DEF tail, n
  <1>5. tail \in [1 .. n -> Range(values)]
    BY <1>3, LenProperties
  <1>6. tail = [i \in 1 .. n |-> tail[i]]
    BY <1>5
  <1>7. IsList(tail)
    BY <1>2, <1>6, ListIs
  <1> QED
    BY <1>3, <1>4, <1>7 DEF tail, n

\* All but the first operand grouped.
LEMMA Grouping ==
  ASSUME IsInterpreter, NEW name \in {"and", "or"}, NEW logic, NEW operands, NEW data,
         Applies(logic, name, operands), IsList(operands), Len(operands) > 1
  PROVE  Apply(logic, data) = Apply(Op(name, <<Head(operands), Op(name, Tail(operands))>>), data)
  <1> DEFINE n == Len(operands)
             tail == Tail(operands)
             rest == Op(name, tail)
             pair == <<Head(operands), rest>>
             grouped == Op(name, pair)
  <1>1. n \in Nat /\ n > 1
    BY ListHas
  <1>2. /\ IsList(tail) /\ Len(tail) = n - 1 /\ Head(operands) = operands[1]
        /\ \A i \in 1 .. n - 1 : tail[i] = operands[i + 1]
    BY <1>1, TailIsList
  <1>3. IsList(pair) /\ Len(pair) = 2 /\ pair[1] = operands[1] /\ pair[2] = rest
    BY <1>2, TwoAreList
  <1>4. Applies(rest, name, tail) /\ Applies(grouped, name, pair)
    BY OpApplies DEF Names
  <1> HIDE DEF n, tail, rest, pair, grouped
  <1>5. CASE ~Goes(name, Apply(operands[1], data))
    <2>1. EndsAt(name, operands, data, 1)
      BY <1>1, <1>5 DEF EndsAt, n
    <2>2. EndsAt(name, pair, data, 1)
      BY <1>3, <1>5 DEF EndsAt
    <2> QED
      BY <1>3, <1>4, <2>1, <2>2, ChainIs DEF grouped, pair, rest, tail
  <1>6. CASE Goes(name, Apply(operands[1], data))
    <2>1. EndsAt(name, pair, data, 2)
      BY <1>3, <1>6 DEF EndsAt
    <2>2. PICK m : EndsAt(name, tail, data, m)
      <3>1. Len(tail) # 0
        BY <1>1, <1>2
      <3> QED
        BY <1>2, <3>1, ChainEnds
    <2>3. m \in 1 .. n - 1 /\ \A i \in 1 .. m - 1 : Goes(name, Apply(tail[i], data))
      BY <1>2, <2>2 DEF EndsAt
    <2>4. m + 1 \in 1 .. n /\ (m + 1) - 1 = m /\ tail[m] = operands[m + 1]
      BY <1>1, <1>2, <2>3
    <2>5. ASSUME NEW i \in 1 .. m PROVE Goes(name, Apply(operands[i], data))
      <3>1. CASE i = 1
        BY <1>6, <3>1
      <3>2. CASE i # 1
        <4>1. i - 1 \in 1 .. m - 1 /\ i - 1 \in 1 .. n - 1 /\ (i - 1) + 1 = i
          BY <1>1, <2>3, <3>2
        <4> QED
          BY <1>2, <2>3, <4>1
      <3> QED
        BY <3>1, <3>2
    <2>6. m + 1 = n \/ ~Goes(name, Apply(operands[m + 1], data))
      BY <1>1, <1>2, <2>2, <2>3, <2>4 DEF EndsAt
    <2>7. EndsAt(name, operands, data, m + 1)
      BY <2>4, <2>5, <2>6 DEF EndsAt, n
    <2>8. Apply(logic, data) = Apply(tail[m], data)
      BY <2>4, <2>7, ChainIs
    <2>9. Apply(grouped, data) = Apply(rest, data)
      BY <1>3, <1>4, <2>1, ChainIs
    <2>10. Apply(rest, data) = Apply(tail[m], data)
      BY <1>2, <1>4, <2>2, ChainIs
    <2> QED
      BY <2>8, <2>9, <2>10 DEF grouped, pair, rest, tail
  <1> QED
    BY <1>5, <1>6

-----------------------------------------------------------------------------
(* if                                                                        *)

\* What a condition must be for the next one to be reached.
Passes(status) == IsOk(status) /\ ~Truthy(status.value)

\* The m-th operand is the condition that decides.
Decides(operands, data, m) ==
    /\ m \in 1 .. Len(operands) - 1 /\ m % 2 = 1
    /\ \A j \in 1 .. m - 1 : j % 2 = 1 => Passes(Apply(operands[j], data))
    /\ ~Passes(Apply(operands[m], data))

\* No condition does.
NoneDecides(operands, data) ==
    \A j \in 1 .. Len(operands) - 1 : j % 2 = 1 => Passes(Apply(operands[j], data))

\* Either no condition of if decides or there is a first one that does.
LEMMA SomeDecides ==
  ASSUME NEW operands, IsList(operands), NEW data, ~NoneDecides(operands, data)
  PROVE  \E m : Decides(operands, data, m)
  <1> DEFINE n == Len(operands)
             S == {j \in 1 .. n - 1 : j % 2 = 1 /\ ~Passes(Apply(operands[j], data))}
             m == Min(S)
  <1>1. n \in Nat
    BY ListHas
  <1>2. S # {}
    BY DEF NoneDecides
  <1> HIDE DEF n
  <1>3. S \in SUBSET Nat
    BY <1>1
  <1>4. m \in S /\ \A j \in S : m <= j
    BY <1>2, <1>3, LeastNumber
  <1> HIDE DEF m
  <1>5. m \in 1 .. n - 1
    BY <1>4
  <1>6. ASSUME NEW j \in 1 .. m - 1, j % 2 = 1 PROVE Passes(Apply(operands[j], data))
    <2>1. j \in 1 .. n - 1 /\ ~(m <= j)
      BY <1>1, <1>5
    <2>2. j \notin S
      BY <1>4, <2>1
    <2> QED
      BY <1>6, <2>1, <2>2
  <1>7. Decides(operands, data, m)
    BY <1>4, <1>5, <1>6 DEF Decides, n
  <1> QED
    BY <1>7

\* What If answers, by the condition that decides: the value after it, its failure,
\* or the last operand if there is one more than conditions and values.
LEMMA IfIs ==
  ASSUME IsInterpreter, NEW logic, NEW operands, NEW data,
         Applies(logic, "if", operands), IsList(operands)
  PROVE  /\ Len(operands) = 0 => Apply(logic, data) = Invalid
         /\ \A m : Decides(operands, data, m) =>
               Apply(logic, data) = IF IsOk(Apply(operands[m], data))
                                    THEN Apply(operands[m + 1], data)
                                    ELSE Apply(operands[m], data)
         /\ NoneDecides(operands, data) /\ Len(operands) # 0 =>
               Apply(logic, data) = IF Len(operands) % 2 = 1
                                    THEN Apply(operands[Len(operands)], data)
                                    ELSE Invalid
  <1> DEFINE values == Content(logic)[<<"if">>]
             each == EachApplied(operands, data)
             n == Len(operands)
             stops == {i \in Conditions(operands) : ~IsOk(each[i]) \/ IsTruthy(each[i])}
  <1>1. /\ Len(each) = n /\ (each = <<>> <=> n = 0)
        /\ \A i \in 1 .. n : each[i] = Apply(operands[i], data)
    BY EachIs
  <1>2. n \in Nat /\ (operands = <<>> <=> n = 0)
    BY ListHas
  <1>3. IsArray(values) /\ Content(values) = operands
    BY DEF Applies
  <1>4. Conditions(operands) = {i \in 1 .. n - 1 : i % 2 = 1}
    BY DEF Conditions
  <1> HIDE DEF values, each, n
  <1>5. stops = {i \in 1 .. n - 1 : i % 2 = 1 /\ ~Passes(Apply(operands[i], data))}
    <2>1. \A i \in 1 .. n - 1 : i \in 1 .. n
      BY <1>2
    <2>2. \A i \in 1 .. n - 1 : ~IsOk(each[i]) \/ IsTruthy(each[i]) <=> ~Passes(Apply(operands[i], data))
      BY <1>1, <2>1 DEF Passes, IsTruthy
    <2> QED
      BY <1>4, <2>2
  <1> DEFINE answer == IF operands = <<>> THEN Invalid
                       ELSE IF stops # {}
                       THEN IF IsOk(each[Min(stops)]) THEN each[Min(stops) + 1] ELSE each[Min(stops)]
                       ELSE IF n % 2 = 1 THEN each[n] ELSE Invalid
  <1>6. If(values, data) = answer
    <2>1. Last(each) = each[n]
      BY <1>1 DEF Last
    <2> QED
      BY <1>3, <2>1 DEF If, each, n
  <1>7. ApplyOp(<<"if">>, values, data) = answer
    BY <1>6, Table DEF Names
  <1> HIDE DEF stops
  <1>8. ASSUME answer # NotFound PROVE Apply(logic, data) = answer
    BY <1>7, <1>8, ApplyIs DEF values
  <1>9. \A status : Invalid # NotFound /\ \A i \in 1 .. n : each[i] # NotFound
    BY <1>1 DEF IsInterpreter, Invalid, NotFound
  <1>10. ASSUME n = 0 PROVE Apply(logic, data) = Invalid
    BY <1>2, <1>8, <1>9, <1>10
  <1>11. ASSUME NEW m, Decides(operands, data, m)
         PROVE  Apply(logic, data) = IF IsOk(Apply(operands[m], data))
                                    THEN Apply(operands[m + 1], data)
                                    ELSE Apply(operands[m], data)
    <2>1. /\ m \in 1 .. n - 1 /\ m % 2 = 1 /\ ~Passes(Apply(operands[m], data))
          /\ \A j \in 1 .. m - 1 : j % 2 = 1 => Passes(Apply(operands[j], data))
      BY <1>11 DEF Decides, n
    <2>2. m \in stops /\ stops \in SUBSET (1 .. n)
      <3>1. \A i \in 1 .. n - 1 : i \in 1 .. n
        BY <1>2
      <3> QED
        BY <1>5, <2>1, <3>1
    <2>3. ASSUME NEW i \in stops, ~(i >= m) PROVE FALSE
      <3>1. i \in 1 .. m - 1
        BY <2>1, <2>2, <2>3
      <3> QED
        BY <1>5, <2>1, <3>1
    <2>4. Min(stops) = m
      BY <1>2, <2>2, <2>3, FirstPlaceIs
    <2>5. m \in 1 .. n /\ m + 1 \in 1 .. n /\ operands # <<>> /\ stops # {}
      BY <1>2, <2>1, <2>2
    <2>6. answer = IF IsOk(each[m]) THEN each[m + 1] ELSE each[m]
      BY <2>4, <2>5
    <2>7. answer # NotFound
      BY <1>9, <2>5, <2>6
    <2> QED
      BY <1>1, <1>8, <2>5, <2>6, <2>7
  <1>12. ASSUME NoneDecides(operands, data), n # 0
         PROVE  Apply(logic, data) = IF n % 2 = 1 THEN Apply(operands[n], data) ELSE Invalid
    <2>1. stops = {}
      BY <1>5, <1>12 DEF NoneDecides, n
    <2>2. answer = IF n % 2 = 1 THEN each[n] ELSE Invalid
      BY <1>2, <1>12, <2>1
    <2>3. n \in 1 .. n
      BY <1>2, <1>12
    <2> QED
      BY <1>1, <1>8, <1>9, <2>2, <2>3
  <1> QED
    BY <1>10, <1>11, <1>12 DEF n

\* The same where a condition decides.
LEMMA IfDecided ==
  ASSUME IsInterpreter, NEW logic, NEW operands, NEW data,
         Applies(logic, "if", operands), IsList(operands), NEW m, Decides(operands, data, m)
  PROVE  Apply(logic, data) = IF IsOk(Apply(operands[m], data)) THEN Apply(operands[m + 1], data)
                              ELSE Apply(operands[m], data)
  <1> DEFINE Answer(k) == IF IsOk(Apply(operands[k], data)) THEN Apply(operands[k + 1], data)
                          ELSE Apply(operands[k], data)
  <1>1. \A k : Decides(operands, data, k) => Apply(logic, data) = Answer(k)
    BY IfIs
  <1> HIDE DEF Answer
  <1>2. Apply(logic, data) = Answer(m)
    BY <1>1
  <1> QED
    BY <1>2 DEF Answer

\* Where the first condition decides, it is the one.
LEMMA FirstDecides ==
  ASSUME NEW operands, NEW data, Len(operands) \in Nat, Len(operands) > 1,
         ~Passes(Apply(operands[1], data))
  PROVE  Decides(operands, data, 1)
  <1>1. 1 \in 1 .. Len(operands) - 1 /\ 1 % 2 = 1
    OBVIOUS
  <1>2. \A j \in 1 .. 1 - 1 : FALSE
    OBVIOUS
  <1> QED
    BY <1>1, <1>2 DEF Decides

\* A part of a list.
LEMMA PartIs ==
  ASSUME NEW values, IsList(values), NEW a \in 1 .. Len(values), NEW b \in a .. Len(values)
  PROVE  /\ IsList(SubSeq(values, a, b)) /\ Len(SubSeq(values, a, b)) = b - a + 1
         /\ \A i \in 1 .. b - a + 1 : SubSeq(values, a, b)[i] = values[a + i - 1]
  <1> DEFINE n == b - a + 1
             part == SubSeq(values, a, b)
  <1>1. Len(values) \in Nat
    BY ListHas
  <1>2. n \in Nat
    BY <1>1
  <1>3. part = [i \in 1 .. n |-> values[a + i - 1]]
    BY DEF IsList
  <1> HIDE DEF n, part
  <1>4. part = [i \in 1 .. n |-> part[i]] /\ \A i \in 1 .. n : part[i] = values[a + i - 1]
    BY <1>3
  <1>5. IsList(part) /\ Len(part) = n
    BY <1>2, <1>4, ListIs
  <1> QED
    BY <1>4, <1>5 DEF n, part

\* A chain of conditions is the first one and the rest of the chain.
LEMMA ChainedIf ==
  ASSUME IsInterpreter, NEW logic, NEW operands, NEW data,
         Applies(logic, "if", operands), IsList(operands), Len(operands) > 2
  PROVE  LET rest == Op("if", SubSeq(operands, 3, Len(operands)))
         IN  Apply(logic, data) = Apply(Op("if", <<operands[1], operands[2], rest>>), data)
  <1> DEFINE n == Len(operands)
             others == SubSeq(operands, 3, n)
             rest == Op("if", others)
             three == <<operands[1], operands[2], rest>>
             nested == Op("if", three)
  <1>1. n \in Nat /\ n > 2
    BY ListHas
  <1>2. IsList(others) /\ Len(others) = n - 2 /\ \A i \in 1 .. n - 2 : others[i] = operands[i + 2]
    <2>1. 3 \in 1 .. n /\ n \in 3 .. n /\ n - 3 + 1 = n - 2
      BY <1>1
    <2>2. \A i \in 1 .. n - 2 : 3 + i - 1 = i + 2
      BY <1>1
    <2> HIDE DEF others
    <2>3. /\ IsList(others) /\ Len(others) = n - 3 + 1
          /\ \A i \in 1 .. n - 3 + 1 : others[i] = operands[3 + i - 1]
      BY <2>1, PartIs DEF others
    <2> QED
      BY <2>1, <2>2, <2>3
  <1>3. /\ IsList(three) /\ Len(three) = 3 /\ three[1] = operands[1] /\ three[2] = operands[2]
        /\ three[3] = rest
    BY ThreeAreList
  <1>4. Applies(rest, "if", others) /\ Applies(nested, "if", three)
    BY OpApplies DEF Names
  <1> HIDE DEF n, others, rest, three, nested
  <1>5. CASE ~Passes(Apply(operands[1], data))
    <2>1. Len(operands) \in Nat /\ Len(operands) > 1
      BY <1>1 DEF n
    <2>2. Decides(operands, data, 1)
      BY <1>5, <2>1, FirstDecides
    <2>3. Len(three) \in Nat /\ Len(three) > 1 /\ ~Passes(Apply(three[1], data))
      BY <1>3, <1>5
    <2>4. Decides(three, data, 1)
      BY <2>3, FirstDecides
    <2>5. Apply(logic, data) = IF IsOk(Apply(operands[1], data)) THEN Apply(operands[2], data)
                               ELSE Apply(operands[1], data)
      BY <2>2, IfDecided
    <2>6. Apply(nested, data) = IF IsOk(Apply(operands[1], data)) THEN Apply(operands[2], data)
                                ELSE Apply(operands[1], data)
      BY <1>3, <1>4, <2>4, IfDecided
    <2> QED
      BY <2>5, <2>6 DEF nested, three, rest, others, n
  <1>6. CASE Passes(Apply(operands[1], data))
    <2>1. NoneDecides(three, data)
      <3>1. \A j \in 1 .. Len(three) - 1 : j % 2 = 1 => j = 1
        <4>1. \A j \in 1 .. 3 - 1 : j % 2 = 1 => j = 1
          OBVIOUS
        <4> QED
          BY <1>3, <4>1
      <3>2. Passes(Apply(three[1], data))
        BY <1>3, <1>6
      <3>3. ASSUME NEW j \in 1 .. Len(three) - 1, j % 2 = 1 PROVE Passes(Apply(three[j], data))
        <4>1. j = 1
          BY <3>1, <3>3
        <4> QED
          BY <3>2, <4>1
      <3> QED
        BY <3>3 DEF NoneDecides
    <2>2. Apply(nested, data) = Apply(rest, data)
      <3>1. Apply(nested, data) = IF Len(three) % 2 = 1 THEN Apply(three[Len(three)], data) ELSE Invalid
        <4>1. Len(three) # 0
          BY <1>3
        <4> QED
          BY <1>3, <1>4, <2>1, <4>1, IfIs
      <3>2. 3 % 2 = 1
        OBVIOUS
      <3>3. Len(three) % 2 = 1 /\ three[Len(three)] = rest
        BY <1>3, <3>2
      <3> QED
        BY <3>1, <3>3
    <2>3. ASSUME NEW j \in 1 .. n - 3
          PROVE  /\ j + 2 \in 1 .. n - 1 /\ others[j] = operands[j + 2]
                 /\ (j + 2) % 2 = 1 <=> j % 2 = 1
      <3>1. j \in 1 .. n - 2 /\ j + 2 \in 1 .. n - 1
        BY <1>1
      <3>2. (j + 2) % 2 = 1 <=> j % 2 = 1
        OBVIOUS
      <3> QED
        BY <1>2, <3>1, <3>2
    <2>4. ASSUME NEW j \in 1 .. n - 1, j % 2 = 1, j # 1
          PROVE  /\ j - 2 \in 1 .. n - 3 /\ (j - 2) % 2 = 1 /\ others[j - 2] = operands[j]
      <3>1. j # 2
        BY <2>4
      <3>2. j - 2 \in 1 .. n - 3 /\ (j - 2) + 2 = j
        BY <1>1, <2>4, <3>1
      <3>3. (j - 2) % 2 = 1
        BY <2>4
      <3> QED
        BY <2>3, <3>2, <3>3
    <2>5. CASE NoneDecides(others, data)
      <3>1. NoneDecides(operands, data)
        <4> SUFFICES ASSUME NEW j \in 1 .. n - 1, j % 2 = 1 PROVE Passes(Apply(operands[j], data))
          BY DEF NoneDecides, n
        <4>1. CASE j = 1
          BY <1>6, <4>1
        <4>2. CASE j # 1
          <5>1. j - 2 \in 1 .. n - 3 /\ (j - 2) % 2 = 1 /\ others[j - 2] = operands[j]
            BY <2>4, <4>2
          <5>2. (n - 2) - 1 = n - 3
            BY <1>1
          <5> QED
            BY <1>2, <2>5, <5>1, <5>2 DEF NoneDecides
        <4> QED
          BY <4>1, <4>2
      <3>2. Apply(logic, data) = IF n % 2 = 1 THEN Apply(operands[n], data) ELSE Invalid
        BY <1>1, <3>1, IfIs DEF n
      <3>3. Apply(rest, data) = IF (n - 2) % 2 = 1 THEN Apply(others[n - 2], data) ELSE Invalid
        <4>1. Len(others) # 0
          BY <1>1, <1>2
        <4> QED
          BY <1>2, <1>4, <2>5, <4>1, IfIs
      <3>4. n - 2 \in 1 .. n - 2 /\ (n - 2) + 2 = n /\ ((n - 2) % 2 = 1 <=> n % 2 = 1)
        BY <1>1
      <3>5. others[n - 2] = operands[n]
        BY <1>2, <3>4
      <3>6. Apply(logic, data) = Apply(rest, data)
        BY <3>2, <3>3, <3>4, <3>5
      <3> QED
        BY <2>2, <3>6 DEF nested, three, rest, others, n
    <2>6. CASE ~NoneDecides(others, data)
      <3>1. PICK m : Decides(others, data, m)
        BY <1>2, <2>6, SomeDecides
      <3>2. m \in 1 .. n - 3 /\ m % 2 = 1 /\ ~Passes(Apply(others[m], data))
        <4>1. (n - 2) - 1 = n - 3
          BY <1>1
        <4> QED
          BY <1>2, <3>1, <4>1 DEF Decides
      <3>3. m + 2 \in 1 .. n - 1 /\ (m + 2) % 2 = 1 /\ others[m] = operands[m + 2]
        BY <2>3, <3>2
      <3>4. m + 1 \in 1 .. n - 2 /\ (m + 1) + 2 = (m + 2) + 1
        BY <1>1, <3>2
      <3>5. others[m + 1] = operands[(m + 2) + 1]
        BY <1>2, <3>4
      <3>6. ASSUME NEW j \in 1 .. (m + 2) - 1, j % 2 = 1 PROVE Passes(Apply(operands[j], data))
        <4>1. CASE j = 1
          BY <1>6, <4>1
        <4>2. CASE j # 1
          <5>1. j \in 1 .. n - 1
            BY <1>1, <3>2
          <5>2. (j - 2) % 2 = 1 /\ others[j - 2] = operands[j] /\ j - 2 \in 1 .. n - 3
            BY <2>4, <3>6, <4>2, <5>1
          <5>3. j - 2 \in 1 .. m - 1
            BY <3>2, <5>2
          <5> QED
            BY <3>1, <5>2, <5>3 DEF Decides
        <4> QED
          BY <4>1, <4>2
      <3>7. Decides(operands, data, m + 2)
        BY <3>2, <3>3, <3>6 DEF Decides, n
      <3>8. Apply(logic, data) = IF IsOk(Apply(others[m], data)) THEN Apply(others[m + 1], data)
                                 ELSE Apply(others[m], data)
        <4>1. Apply(logic, data) = IF IsOk(Apply(operands[m + 2], data))
                                   THEN Apply(operands[(m + 2) + 1], data)
                                   ELSE Apply(operands[m + 2], data)
          BY <3>7, IfDecided
        <4> QED
          BY <3>3, <3>5, <4>1
      <3>9. Apply(rest, data) = IF IsOk(Apply(others[m], data)) THEN Apply(others[m + 1], data)
                                ELSE Apply(others[m], data)
        BY <1>2, <1>4, <3>1, IfDecided
      <3> QED
        BY <2>2, <3>8, <3>9 DEF nested, three, rest, others, n
    <2> QED
      BY <2>5, <2>6
  <1> QED
    BY <1>5, <1>6

-----------------------------------------------------------------------------
(* Operands that are not reached                                             *)

\* Where if gets by without an operand that fails, no value of it changes anything.
LEMMA IfIsStable ==
  ASSUME IsInterpreter, NEW operands, IsList(operands), NEW data,
         NEW others, IsList(others), Len(others) = Len(operands), NEW i \in 1 .. Len(operands),
         \A j \in 1 .. Len(operands) : j # i => others[j] = operands[j],
         ~IsOk(Apply(operands[i], data)),
         NEW logic, Applies(logic, "if", operands), IsOk(Apply(logic, data)),
         NEW other, Applies(other, "if", others)
  PROVE  Apply(other, data) = Apply(logic, data)
  <1> DEFINE n == Len(operands)
  <1>1. n \in Nat /\ n # 0 /\ i \in 1 .. n
    BY ListHas
  <1>2. ~Passes(Apply(operands[i], data))
    BY DEF Passes
  <1> HIDE DEF n
  <1>3. CASE NoneDecides(operands, data)
    <2>1. Apply(logic, data) = IF n % 2 = 1 THEN Apply(operands[n], data) ELSE Invalid
      BY <1>1, <1>3, IfIs DEF n
    <2>2. n % 2 = 1 /\ Apply(logic, data) = Apply(operands[n], data)
      BY <2>1 DEF Invalid, IsOk
    <2>3. i # n
      BY <2>2
    <2>4. i \in 1 .. n - 1 /\ i % 2 # 1
      <3>1. i \in 1 .. n - 1
        BY <1>1, <2>3
      <3> QED
        BY <1>2, <1>3, <3>1 DEF NoneDecides, n
    <2>5. NoneDecides(others, data)
      <3> SUFFICES ASSUME NEW j \in 1 .. n - 1, j % 2 = 1 PROVE Passes(Apply(others[j], data))
        BY DEF NoneDecides, n
      <3>1. j \in 1 .. n /\ j # i
        BY <1>1, <2>4
      <3>2. others[j] = operands[j]
        BY <3>1 DEF n
      <3> QED
        BY <1>3, <3>2 DEF NoneDecides, n
    <2>6. Apply(other, data) = Apply(others[n], data)
      BY <1>1, <2>2, <2>5, IfIs DEF n
    <2>7. n \in 1 .. n
      BY <1>1
    <2> QED
      BY <2>2, <2>3, <2>6, <2>7 DEF n
  <1>4. CASE ~NoneDecides(operands, data)
    <2>1. PICK m : Decides(operands, data, m)
      BY <1>4, SomeDecides
    <2>2. /\ m \in 1 .. n - 1 /\ m % 2 = 1 /\ ~Passes(Apply(operands[m], data))
          /\ \A j \in 1 .. m - 1 : j % 2 = 1 => Passes(Apply(operands[j], data))
      BY <2>1 DEF Decides, n
    <2>3. Apply(logic, data) = IF IsOk(Apply(operands[m], data)) THEN Apply(operands[m + 1], data)
                               ELSE Apply(operands[m], data)
      BY <2>1, IfDecided
    <2>4. IsOk(Apply(operands[m], data)) /\ IsOk(Apply(operands[m + 1], data))
      BY <2>3
    <2>5. i # m /\ i # m + 1
      BY <2>4
    <2>6. m \in 1 .. n /\ m + 1 \in 1 .. n
      BY <1>1, <2>2
    <2>7. others[m] = operands[m] /\ others[m + 1] = operands[m + 1]
      BY <2>5, <2>6 DEF n
    <2>8. ASSUME NEW j \in 1 .. m - 1, j % 2 = 1 PROVE Passes(Apply(others[j], data))
      <3>1. Passes(Apply(operands[j], data))
        BY <2>2, <2>8
      <3>2. j \in 1 .. n /\ j # i
        BY <1>1, <1>2, <2>2, <3>1
      <3> QED
        BY <3>1, <3>2 DEF n
    <2>9. Decides(others, data, m)
      BY <2>2, <2>7, <2>8 DEF Decides, n
    <2>10. Apply(other, data) = IF IsOk(Apply(others[m], data)) THEN Apply(others[m + 1], data)
                                ELSE Apply(others[m], data)
      BY <2>9, IfDecided
    <2> QED
      BY <2>3, <2>7, <2>10
  <1> QED
    BY <1>3, <1>4

\* A list with an element replaced is one.
LEMMA ReplacedIsList ==
  ASSUME NEW operands, IsList(operands), NEW i \in 1 .. Len(operands), NEW operand
  PROVE  LET others == [operands EXCEPT ![i] = operand]
         IN  /\ IsList(others) /\ Len(others) = Len(operands) /\ others[i] = operand
             /\ \A j \in 1 .. Len(operands) : j # i => others[j] = operands[j]
  <1> DEFINE n == Len(operands)
             others == [operands EXCEPT ![i] = operand]
  <1>1. n \in Nat /\ DOMAIN operands = 1 .. n
    BY ListHas
  <1>2. operands = [j \in 1 .. n |-> operands[j]]
    BY LenProperties DEF IsList
  <1> HIDE DEF n
  <1>3. DOMAIN others = 1 .. n /\ others[i] = operand
        /\ \A j \in 1 .. n : j # i => others[j] = operands[j]
    BY <1>1 DEF n
  <1>4. others = [j \in 1 .. n |-> others[j]]
    BY <1>1
  <1> HIDE DEF others
  <1>5. IsList(others) /\ Len(others) = n
    BY <1>1, <1>4, ListIs
  <1> QED
    BY <1>3, <1>5 DEF n, others

\* The rule evaluated last is one of the rules.
LogicInv ==
    \/ evaluation = NoEvaluation
    \/ /\ evaluation.logic \in Rules
       /\ evaluation.status = Apply(evaluation.logic, evaluation.data)

\* That is so in every state.
LEMMA EvaluatedAlways == LogicSpec => []LogicInv
  <1>1. LogicInit => LogicInv
    BY DEF LogicInit, LogicInv
  <1>2. LogicInv /\ [LogicNext]_evaluation => LogicInv'
    <2>1. ASSUME NEW logic \in Rules, NEW data \in Contexts, Evaluate(logic, data)
          PROVE  LogicInv'
      BY <2>1 DEF Evaluate, LogicInv
    <2>2. LogicInv /\ UNCHANGED evaluation => LogicInv'
      BY DEF LogicInv
    <2> QED
      BY <2>1, <2>2 DEF LogicNext
  <1> QED
    BY <1>1, <1>2, PTL DEF LogicSpec

\* Operands of what was evaluated are lists.
LEMMA OperandsAreList ==
  ASSUME LogicInv, NEW name, Evaluated(name)
  PROVE  /\ Applies(evaluation.logic, name, OperandsOf(name)) /\ IsList(OperandsOf(name))
         /\ \A i \in DOMAIN OperandsOf(name) : IsWellFormed(OperandsOf(name)[i])
         /\ evaluation.status = Outcome(evaluation.logic)
  <1>1. evaluation # NoEvaluation
    BY DEF Evaluated, NoEvaluation, JsonNull, KindOf
  <1>2. evaluation.logic \in Rules
    BY <1>1 DEF LogicInv
  <1> DEFINE values == Content(evaluation.logic)[<<name>>]
  <1>3. IsArray(values) /\ KindOf(evaluation.logic) = "object"
        /\ <<name>> \in DOMAIN Content(evaluation.logic)
    BY DEF Evaluated
  <1>4. IsWellFormed(values) /\ \A i \in DOMAIN Content(values) : IsWellFormed(Content(values)[i])
    BY <1>2, <1>3, RulesAssumption
  <1>5. IsList(Content(values))
    BY <1>3, <1>4 DEF IsWellFormed, IsList
  <1>6. evaluation.status = Outcome(evaluation.logic)
    BY <1>1 DEF LogicInv, Outcome
  <1> QED
    BY <1>4, <1>5, <1>6, EvaluatedApplies DEF OperandsOf

\* and, or and if answer without the operands they do not reach, whatever those
\* are, even where they would fail.
THEOREM UnreachedDoNotCount ==
  ASSUME IsInterpreter
  PROVE  LogicSpec => []OnlyReachedOperandsCount
  <1>1. LogicInv => OnlyReachedOperandsCount
    <2> DEFINE With(name, i, value) == Outcome(Op(name, [OperandsOf(name) EXCEPT ![i] = value]))
    <2> SUFFICES \A name \in {"and", "or", "if"} : LogicInv /\ Evaluated(name) =>
                    \A i \in DOMAIN OperandsOf(name) :
                        \A failing \in Substitutes :
                            ~IsOk(Outcome(failing)) /\ IsOk(With(name, i, failing)) =>
                                \A operand \in Substitutes :
                                    With(name, i, operand) = With(name, i, failing)
      BY Zenon DEF OnlyReachedOperandsCount
    <2> TAKE name \in {"and", "or", "if"}
    <2> HAVE LogicInv /\ Evaluated(name)
    <2> TAKE i \in DOMAIN OperandsOf(name)
    <2> TAKE failing \in Substitutes
    <2> HAVE ~IsOk(Outcome(failing)) /\ IsOk(With(name, i, failing))
    <2> TAKE operand \in Substitutes
    <2> DEFINE data == evaluation.data
               operands == OperandsOf(name)
               n == Len(operands)
               before == [operands EXCEPT ![i] = failing]
               after == [operands EXCEPT ![i] = operand]
    <2>1. IsList(operands) /\ i \in 1 .. n
      BY OperandsAreList, ListHas
    <2>2. /\ IsList(before) /\ Len(before) = n /\ before[i] = failing
          /\ \A j \in 1 .. n : j # i => before[j] = operands[j]
      BY <2>1, ReplacedIsList
    <2>3. /\ IsList(after) /\ Len(after) = n /\ after[i] = operand
          /\ \A j \in 1 .. n : j # i => after[j] = operands[j]
      BY <2>1, ReplacedIsList
    <2> HIDE DEF operands, n, before, after
    <2>4. Applies(Op(name, before), name, before) /\ Applies(Op(name, after), name, after)
      BY OpApplies DEF Names
    <2>5. ~IsOk(Apply(before[i], data)) /\ IsOk(Apply(Op(name, before), data))
      BY <2>2 DEF Outcome, before, operands
    <2>6. \A j \in 1 .. n : j # i => after[j] = before[j]
      BY <2>2, <2>3
    <2>7. CASE name = "if"
      <3>1. Apply(Op(name, after), data) = Apply(Op(name, before), data)
        BY <2>1, <2>2, <2>3, <2>4, <2>5, <2>6, <2>7, IfIsStable
      <3> QED
        BY <3>1 DEF Outcome, before, after, operands
    <2>8. CASE name \in {"and", "or"}
      <3>1. Apply(Op(name, after), data) = Apply(Op(name, before), data)
        BY <2>1, <2>2, <2>3, <2>4, <2>5, <2>6, <2>8, ChainIsStable
      <3> QED
        BY <3>1 DEF Outcome, before, after, operands
    <2> QED
      BY <2>7, <2>8
  <1> QED
    BY <1>1, EvaluatedAlways, PTL

-----------------------------------------------------------------------------
(* Lists of operands that are all evaluated                                  *)

Failing(operands, data) == {i \in 1 .. Len(operands) : ~IsOk(Apply(operands[i], data))}
FirstFailure(operands, data) == Apply(operands[Min(Failing(operands, data))], data)

\* Where an operand fails there is a first that does.
LEMMA FirstFailureFails ==
  ASSUME NEW operands, IsList(operands), NEW data, Failing(operands, data) # {}
  PROVE  /\ Min(Failing(operands, data)) \in 1 .. Len(operands)
         /\ ~IsOk(FirstFailure(operands, data))
  <1>1. Len(operands) \in Nat
    BY ListHas
  <1>2. Failing(operands, data) \in SUBSET Nat
    BY <1>1 DEF Failing
  <1>3. Min(Failing(operands, data)) \in Failing(operands, data)
    BY <1>2, LeastNumber
  <1> QED
    BY <1>3 DEF Failing, FirstFailure

\* An array is evaluated to the array of what its elements are evaluated to, or
\* fails as the first of them does that fails.
LEMMA ArrayIs ==
  ASSUME IsInterpreter, NEW values, IsArray(values), IsList(Content(values)), NEW data
  PROVE  LET operands == Content(values)
             status == Apply(values, data)
         IN  /\ Failing(operands, data) # {} => status = FirstFailure(operands, data)
             /\ Failing(operands, data) = {} =>
                   /\ IsOk(status) /\ IsArray(status.value) /\ IsList(Content(status.value))
                   /\ Len(Content(status.value)) = Len(operands)
                   /\ \A i \in 1 .. Len(operands) :
                         Content(status.value)[i] = Apply(operands[i], data).value
  <1> DEFINE operands == Content(values)
             each == EachApplied(operands, data)
             n == Len(operands)
  <1>1. n \in Nat /\ (operands = <<>> <=> n = 0)
    BY ListHas
  <1>2. /\ IsList(each) /\ Len(each) = n /\ DOMAIN each = 1 .. n
        /\ \A i \in 1 .. n : each[i] = Apply(operands[i], data)
    BY EachIs
  <1>3. Apply(values, data) = ApplyOnce(values, data) /\ ~IsPrimitive(values)
    BY DEF IsInterpreter, IsArray, IsPrimitive
  <1> HIDE DEF n
  <1>4. CASE n = 0
    <2>1. Apply(values, data) = Ok(values) /\ Failing(operands, data) = {}
      BY <1>1, <1>3, <1>4 DEF ApplyOnce, Failing, n
    <2>2. IsOk(Ok(values)) /\ Ok(values).value = values
      BY DEF Ok, IsOk
    <2> QED
      BY <1>4, <2>1, <2>2 DEF n
  <1>5. CASE n # 0
    <2>1. Apply(values, data) = IF Failures(each) # {} THEN each[Min(Failures(each))]
                                ELSE Ok(JsonArray(Values(each)))
      BY <1>1, <1>3, <1>5 DEF ApplyOnce
    <2> HIDE DEF each
    <2>2. Failures(each) = Failing(operands, data)
      BY <1>2 DEF Failures, Failing, n
    <2>3. ASSUME Failing(operands, data) # {}
          PROVE  Apply(values, data) = FirstFailure(operands, data)
      <3>1. Min(Failing(operands, data)) \in 1 .. n
        BY <2>3, FirstFailureFails DEF n
      <3> QED
        BY <1>2, <2>1, <2>2, <2>3, <3>1 DEF FirstFailure
    <2>4. ASSUME Failing(operands, data) = {}
          PROVE  /\ IsOk(Apply(values, data)) /\ IsArray(Apply(values, data).value)
                 /\ IsList(Content(Apply(values, data).value))
                 /\ Len(Content(Apply(values, data).value)) = n
                 /\ \A i \in 1 .. n :
                       Content(Apply(values, data).value)[i] = Apply(operands[i], data).value
      <3> DEFINE list == Values(each)
      <3>1. Apply(values, data) = Ok(JsonArray(list))
        BY <2>1, <2>2, <2>4
      <3>2. list = [i \in 1 .. n |-> each[i].value]
        BY <1>2 DEF Values
      <3> HIDE DEF list
      <3>3. list = [i \in 1 .. n |-> list[i]]
        BY <3>2
      <3>4. IsList(list) /\ Len(list) = n /\ \A i \in 1 .. n : list[i] = each[i].value
        BY <1>1, <3>2, <3>3, ListIs
      <3>5. /\ IsOk(Ok(JsonArray(list))) /\ IsArray(Ok(JsonArray(list)).value)
            /\ Content(Ok(JsonArray(list)).value) = list
        BY DEF Ok, IsOk, JsonArray, IsArray, KindOf, Content
      <3> QED
        BY <1>2, <3>1, <3>4, <3>5
    <2> QED
      BY <2>3, <2>4 DEF n
  <1> QED
    BY <1>4, <1>5

-----------------------------------------------------------------------------
(* Comparisons                                                               *)

ComparisonNames == {"<", "<=", ">", ">="}
NumbersOf(operands, data) == [i \in 1 .. Len(operands) |-> Content(Apply(operands[i], data).value)]
GiveNumbers(operands, data) == \A i \in 1 .. Len(operands) : IsNumber(Apply(operands[i], data).value)

\* Where an operand fails, a comparison fails as that does.
LEMMA ComparisonFails ==
  ASSUME IsInterpreter, NEW name \in ComparisonNames, NEW logic, NEW operands, NEW data,
         Applies(logic, name, operands), IsList(operands), Failing(operands, data) # {}
  PROVE  Apply(logic, data) = FirstFailure(operands, data)
  <1> DEFINE values == Content(logic)[<<name>>]
             args == Apply(values, data)
  <1>1. IsArray(values) /\ Content(values) = operands
    BY DEF Applies
  <1>2. args = FirstFailure(operands, data) /\ ~IsOk(args) /\ args # NotFound
    BY <1>1, ArrayIs, FirstFailureFails DEF IsInterpreter
  <1>3. ApplyOp(<<name>>, values, data) = args
    <2>1. ApplyOp(<<name>>, values, data) = Numeric(<<name>>, values, data)
      BY Table DEF Names, ComparisonNames
    <2> QED
      BY <1>2, <2>1 DEF Numeric
  <1> QED
    BY <1>2, <1>3, ApplyIs

\* Otherwise it gets what its operands are evaluated to.
LEMMA ComparisonGets ==
  ASSUME IsInterpreter, NEW operands, IsList(operands), NEW data, Failing(operands, data) = {},
         NEW values, IsArray(values), Content(values) = operands
  PROVE  LET args == Apply(values, data)
         IN  /\ IsOk(args) /\ (AreNumbers(args.value) <=> GiveNumbers(operands, data))
             /\ NumbersIn(args.value) = NumbersOf(operands, data)
  <1> DEFINE args == Apply(values, data)
             list == Content(args.value)
             n == Len(operands)
  <1>1. /\ IsOk(args) /\ IsArray(args.value) /\ Len(list) = n
        /\ \A i \in 1 .. n : list[i] = Apply(operands[i], data).value
    BY ArrayIs
  <1> HIDE DEF args, n
  <1>2. args.value # JsonNull /\ ~IsNumber(args.value)
    BY <1>1 DEF IsArray, IsNumber, KindOf, JsonNull
  <1>3. AreNumbers(args.value) <=> \A i \in 1 .. n : IsNumber(list[i])
    BY <1>1, <1>2 DEF AreNumbers, Size
  <1>4. NumbersIn(args.value) = [i \in 1 .. n |-> Content(list[i])]
    BY <1>1, <1>2 DEF NumbersIn, Size
  <1>5. NumbersIn(args.value) = [i \in 1 .. n |-> Content(Apply(operands[i], data).value)]
    BY <1>1, <1>4
  <1>6. AreNumbers(args.value) <=> \A i \in 1 .. n : IsNumber(Apply(operands[i], data).value)
    BY <1>1, <1>3
  <1> QED
    BY <1>1, <1>5, <1>6 DEF args, n, NumbersOf, GiveNumbers

\* It refuses operands that are no numbers.
LEMMA ComparisonRefuses ==
  ASSUME IsInterpreter, NEW name \in ComparisonNames, NEW logic, NEW operands, NEW data,
         Applies(logic, name, operands), IsList(operands),
         Failing(operands, data) = {}, ~GiveNumbers(operands, data)
  PROVE  Apply(logic, data) = Invalid
  <1> DEFINE values == Content(logic)[<<name>>]
             args == Apply(values, data)
  <1>1. IsArray(values) /\ Content(values) = operands
    BY DEF Applies
  <1>2. IsOk(args) /\ ~AreNumbers(args.value)
    BY <1>1, ComparisonGets
  <1>3. ApplyOp(<<name>>, values, data) = Invalid
    <2>1. ApplyOp(<<name>>, values, data) = Numeric(<<name>>, values, data)
      BY Table DEF Names, ComparisonNames
    <2> QED
      BY <1>2, <2>1 DEF Numeric
  <1>4. Invalid # NotFound
    BY DEF Invalid, NotFound
  <1> QED
    BY <1>3, <1>4, ApplyIs

\* Of numbers it says what NumericOperation says.
LEMMA ComparisonOfNumbers ==
  ASSUME IsInterpreter, NEW name \in ComparisonNames, NEW logic, NEW operands, NEW data,
         Applies(logic, name, operands), IsList(operands),
         Failing(operands, data) = {}, GiveNumbers(operands, data)
  PROVE  Apply(logic, data) = CompareInOrder(<<name>>, NumbersOf(operands, data))
  <1> DEFINE values == Content(logic)[<<name>>]
             args == Apply(values, data)
             op == <<name>>
             nums == NumbersOf(operands, data)
  <1>1. IsArray(values) /\ Content(values) = operands
    BY DEF Applies
  <1>2. IsOk(args) /\ AreNumbers(args.value) /\ NumbersIn(args.value) = nums
    BY <1>1, ComparisonGets
  <1>3. ApplyOp(op, values, data) = NumericOperation(op, nums, Overflowed)
    <2>1. ApplyOp(<<name>>, values, data) = Numeric(<<name>>, values, data)
      BY Table DEF Names, ComparisonNames
    <2> QED
      BY <1>2, <2>1 DEF Numeric
  <1>4. op \in Comparisons
    BY DEF Comparisons, ComparisonNames
  <1> HIDE DEF op, nums
  <1>5. /\ op \notin Extremes /\ op \notin Accumulations
        /\ op # <<"-">> /\ op \notin {<<"/">>, <<"%">>}
    BY <1>4 DEF Comparisons, Extremes, Accumulations
  <1>6. NumericOperation(op, nums, Overflowed) = CompareInOrder(op, nums)
    BY <1>4, <1>5 DEF NumericOperation
  <1>7. CompareInOrder(op, nums) # NotFound
    BY DEF CompareInOrder, Ok, Invalid, NotFound
  <1> QED
    BY <1>3, <1>6, <1>7, ApplyIs DEF op, nums

True == Ok(JsonBool(TRUE))
False == Ok(JsonBool(FALSE))

\* The two answers of a comparison, and what they are negated.
LEMMA TruthIs ==
  /\ IsOk(True) /\ IsOk(False) /\ True # NotFound /\ False # NotFound
  /\ True # Invalid /\ False # Invalid
  /\ Truthy(True.value) /\ ~Truthy(False.value)
  /\ Negated(True) = False /\ Negated(False) = True
  <1>1. IsOk(True) /\ IsOk(False) /\ True # NotFound /\ False # NotFound
        /\ True # Invalid /\ False # Invalid
    BY DEF True, False, Ok, IsOk, NotFound, Invalid
  <1>2. True.value = JsonBool(TRUE) /\ False.value = JsonBool(FALSE)
    BY DEF True, False, Ok
  <1>3. Truthy(JsonBool(TRUE)) = TRUE /\ Truthy(JsonBool(FALSE)) = FALSE
    BY DEF Truthy, JsonBool, KindOf, Content
  <1>4. Negated(True) = False
    <2>1. Negated(True) = Ok(JsonBool(~Truthy(True.value)))
      BY <1>1, Zenon DEF Negated
    <2>2. (~Truthy(True.value)) = FALSE
      BY <1>2, <1>3
    <2> QED
      BY <2>1, <2>2 DEF False
  <1>5. Negated(False) = True
    <2>1. Negated(False) = Ok(JsonBool(~Truthy(False.value)))
      BY <1>1, Zenon DEF Negated
    <2>2. (~Truthy(False.value)) = TRUE
      BY <1>2, <1>3
    <2> QED
      BY <2>1, <2>2 DEF True
  <1> QED
    BY <1>1, <1>2, <1>3, <1>4, <1>5

\* The comparison of two numbers.
LEMMA CompareTwo ==
  ASSUME NEW op, NEW nums, Len(nums) = 2
  PROVE  /\ Related(op, nums[1], nums[2]) => CompareInOrder(op, nums) = True
         /\ ~Related(op, nums[1], nums[2]) => CompareInOrder(op, nums) = False
  <1> DEFINE b == \A i \in 1 .. Len(nums) - 1 : Related(op, nums[i], nums[i + 1])
  <1>1. CompareInOrder(op, nums) = Ok(JsonBool(b))
    BY DEF CompareInOrder
  <1>2. \A i : i \in 1 .. Len(nums) - 1 <=> i = 1
    OBVIOUS
  <1>3. 1 + 1 = 2
    OBVIOUS
  <1>4. b <=> Related(op, nums[1], nums[2])
    BY <1>2, <1>3, Zenon
  <1>5. b \in BOOLEAN
    OBVIOUS
  <1> HIDE DEF b
  <1> QED
    BY <1>1, <1>4, <1>5 DEF True, False

\* Of three.
LEMMA CompareThree ==
  ASSUME NEW op \in {<<"<">>, <<"<=">>}, NEW nums, Len(nums) = 3
  PROVE  /\ Related(op, nums[1], nums[2]) /\ Related(op, nums[2], nums[3]) =>
               CompareInOrder(op, nums) = True
         /\ ~Related(op, nums[1], nums[2]) \/ ~Related(op, nums[2], nums[3]) =>
               CompareInOrder(op, nums) = False
  <1> DEFINE b == \A i \in 1 .. Len(nums) - 1 : Related(op, nums[i], nums[i + 1])
  <1>1. CompareInOrder(op, nums) = Ok(JsonBool(b))
    BY DEF CompareInOrder
  <1>2. \A i : i \in 1 .. Len(nums) - 1 <=> i = 1 \/ i = 2
    OBVIOUS
  <1>3. 1 + 1 = 2 /\ 2 + 1 = 3
    OBVIOUS
  <1>4. b <=> Related(op, nums[1], nums[2]) /\ Related(op, nums[2], nums[3])
    BY <1>2, <1>3, Zenon
  <1>5. b \in BOOLEAN
    OBVIOUS
  <1> HIDE DEF b
  <1> QED
    BY <1>1, <1>4, <1>5 DEF True, False

\* Two numbers that do not differ are equal, whichever comes first.
LEMMA EqualEitherWay ==
  ASSUME NEW a \in Numbers, NEW b \in Numbers
  PROVE  Equal(a, b) <=> Equal(b, a)
  <1>1. CASE IsInt(a) /\ IsInt(b)
    BY <1>1, IntegersCompare
  <1>2. CASE ~(IsInt(a) /\ IsInt(b))
    BY <1>2, DoublesCompare
  <1> QED
    BY <1>1, <1>2

\* A comparison answers what its opposite answers, negated.
LEMMA Opposites ==
  ASSUME IsInterpreter, NEW name \in {">", ">="}, NEW logic, NEW operands, NEW data,
         Applies(logic, name, operands), IsList(operands), Len(operands) # 3,
         \A i \in 1 .. Len(operands) :
             IsOk(Apply(operands[i], data)) /\ IsNumber(Apply(operands[i], data).value) =>
                 Content(Apply(operands[i], data).value) \in Numbers
  PROVE  LET opposite == Op(IF name = ">" THEN "<=" ELSE "<", operands)
         IN  Apply(logic, data) = Apply(Op("!", <<opposite>>), data)
  <1> DEFINE less == IF name = ">" THEN "<=" ELSE "<"
             opposite == Op(less, operands)
             nums == NumbersOf(operands, data)
             n == Len(operands)
  <1>1. Applies(opposite, less, operands)
    BY OpApplies DEF Names
  <1>2. Apply(Op("!", <<opposite>>), data) = Negated(Apply(opposite, data))
    <2>1. Applies(Op("!", <<opposite>>), "!", <<opposite>>)
      BY OpApplies DEF Names
    <2> QED
      BY <2>1, NotIs
  <1>3. less \in ComparisonNames /\ name \in ComparisonNames
    BY DEF ComparisonNames
  <1>4. n \in Nat
    BY ListHas
  <1> HIDE DEF less, opposite, n
  <1>5. CASE Failing(operands, data) # {}
    <2>1. Apply(logic, data) = FirstFailure(operands, data)
      BY <1>3, <1>5, ComparisonFails
    <2>2. Apply(opposite, data) = FirstFailure(operands, data)
      BY <1>1, <1>3, <1>5, ComparisonFails
    <2>3. ~IsOk(FirstFailure(operands, data))
      BY <1>5, FirstFailureFails
    <2> QED
      BY <1>2, <2>1, <2>2, <2>3 DEF Negated, opposite, less
  <1>6. CASE Failing(operands, data) = {} /\ ~GiveNumbers(operands, data)
    <2>1. Apply(logic, data) = Invalid
      BY <1>3, <1>6, ComparisonRefuses
    <2>2. Apply(opposite, data) = Invalid
      BY <1>1, <1>3, <1>6, ComparisonRefuses
    <2> QED
      BY <1>2, <2>1, <2>2 DEF Negated, Invalid, IsOk, opposite, less
  <1>7. CASE Failing(operands, data) = {} /\ GiveNumbers(operands, data)
    <2>1. Apply(logic, data) = CompareInOrder(<<name>>, nums)
      BY <1>3, <1>7, ComparisonOfNumbers
    <2>2. Apply(opposite, data) = CompareInOrder(<<less>>, nums)
      BY <1>1, <1>3, <1>7, ComparisonOfNumbers
    <2>3. nums = [i \in 1 .. n |-> Content(Apply(operands[i], data).value)]
      BY DEF NumbersOf, n
    <2>4. Len(nums) = n /\ \A i \in 1 .. n : nums[i] = Content(Apply(operands[i], data).value)
      <3> HIDE DEF nums
      <3>1. nums = [i \in 1 .. n |-> nums[i]]
        BY <2>3
      <3> QED
        BY <1>4, <2>3, <3>1, ListIs
    <2> HIDE DEF nums
    <2>5. \A i \in 1 .. n : nums[i] \in Numbers
      BY <1>7, <2>4 DEF Failing, GiveNumbers, n
    <2>6. CASE n # 2
      <3>1. CompareInOrder(<<name>>, nums) = Invalid /\ CompareInOrder(<<less>>, nums) = Invalid
        BY <2>4, <2>6 DEF CompareInOrder, n
      <3> QED
        BY <1>2, <2>1, <2>2, <3>1 DEF Negated, Invalid, IsOk, opposite, less
    <2>7. CASE n = 2
      <3> DEFINE a == nums[1]
                 b == nums[2]
      <3>1. a \in Numbers /\ b \in Numbers
        BY <2>5, <2>7
      <3> HIDE DEF a, b
      <3>2. Related(<<name>>, a, b) <=> ~Related(<<less>>, a, b)
        <4>1. CASE name = ">"
          <5>1. /\ <<name>> = <<">">> /\ <<name>> # <<"<">> /\ <<name>> # <<"<=">>
                /\ <<less>> = <<"<=">> /\ <<less>> # <<"<">>
            BY <4>1 DEF less
          <5>2. Related(<<name>>, a, b) <=> Less(b, a)
            BY <5>1 DEF Related
          <5>3. Related(<<less>>, a, b) <=> LessOrEqual(a, b)
            BY <5>1 DEF Related
          <5> QED
            BY <3>1, <5>2, <5>3, LessIsOpposite
        <4>2. CASE name = ">="
          <5>1. /\ <<name>> = <<">=">> /\ <<name>> # <<"<">> /\ <<name>> # <<"<=">>
                /\ <<name>> # <<">">> /\ <<less>> = <<"<">>
            BY <4>2 DEF less
          <5>2. Related(<<name>>, a, b) <=> Less(b, a) \/ Equal(a, b)
            BY <5>1 DEF Related
          <5>3. Related(<<less>>, a, b) <=> Less(a, b)
            BY <5>1 DEF Related
          <5>4. LessOrEqual(b, a) <=> Less(b, a) \/ Equal(b, a)
            BY DEF LessOrEqual
          <5> QED
            BY <3>1, <5>2, <5>3, <5>4, LessIsOpposite, EqualEitherWay
        <4> QED
          BY <4>1, <4>2
      <3>3. /\ Related(<<name>>, a, b) => CompareInOrder(<<name>>, nums) = True
            /\ ~Related(<<name>>, a, b) => CompareInOrder(<<name>>, nums) = False
            /\ Related(<<less>>, a, b) => CompareInOrder(<<less>>, nums) = True
            /\ ~Related(<<less>>, a, b) => CompareInOrder(<<less>>, nums) = False
        BY <2>4, <2>7, CompareTwo DEF a, b
      <3> QED
        BY <1>2, <2>1, <2>2, <3>2, <3>3, TruthIs DEF opposite, less
    <2> QED
      BY <2>6, <2>7
  <1> QED
    BY <1>5, <1>6, <1>7

\* "Between" is the two comparisons.
LEMMA Between ==
  ASSUME IsInterpreter, NEW name \in {"<", "<="}, NEW logic, NEW operands, NEW data,
         Applies(logic, name, operands), IsList(operands), Len(operands) = 3,
         IsOk(Apply(logic, data))
  PROVE  LET Pair(i) == Op(name, SubSeq(operands, i, i + 1))
         IN  Apply(logic, data) = Apply(Op("and", <<Pair(1), Pair(2)>>), data)
  <1> DEFINE Two(i) == SubSeq(operands, i, i + 1)
             Pair(i) == Op(name, Two(i))
             pairs == <<Pair(1), Pair(2)>>
             both == Op("and", pairs)
             nums == NumbersOf(operands, data)
             op == <<name>>
  <1>1. name \in ComparisonNames /\ name \in Names /\ op \in {<<"<">>, <<"<=">>}
    BY DEF ComparisonNames, Names
  <1>2. Failing(operands, data) = {} /\ GiveNumbers(operands, data)
    <2>1. CASE Failing(operands, data) # {}
      BY <1>1, <2>1, ComparisonFails, FirstFailureFails
    <2>2. CASE Failing(operands, data) = {} /\ ~GiveNumbers(operands, data)
      BY <1>1, <2>2, ComparisonRefuses DEF Invalid, IsOk
    <2> QED
      BY <2>1, <2>2
  <1>3. Apply(logic, data) = CompareInOrder(op, nums)
    BY <1>1, <1>2, ComparisonOfNumbers
  <1>4. Len(nums) = 3 /\ \A i \in 1 .. 3 : nums[i] = Content(Apply(operands[i], data).value)
    <2>1. nums = [i \in 1 .. 3 |-> Content(Apply(operands[i], data).value)]
      BY DEF NumbersOf
    <2> HIDE DEF nums
    <2>2. nums = [i \in 1 .. 3 |-> nums[i]]
      BY <2>1
    <2> QED
      BY <2>1, <2>2, ListIs
  <1>5. ASSUME NEW i \in {1, 2}
        PROVE  /\ Related(op, nums[i], nums[i + 1]) => Apply(Pair(i), data) = True
               /\ ~Related(op, nums[i], nums[i + 1]) => Apply(Pair(i), data) = False
    <2> DEFINE two == Two(i)
               pair == Op(name, two)
               others == NumbersOf(two, data)
    <2>1. IsList(two) /\ Len(two) = 2 /\ two[1] = operands[i] /\ two[2] = operands[i + 1]
      <3>1. i \in 1 .. Len(operands) /\ i + 1 \in i .. Len(operands) /\ (i + 1) - i + 1 = 2
            /\ i + 1 - 1 = i /\ i + 2 - 1 = i + 1
        OBVIOUS
      <3> HIDE DEF two
      <3>2. /\ IsList(two) /\ Len(two) = (i + 1) - i + 1
            /\ \A k \in 1 .. (i + 1) - i + 1 : two[k] = operands[i + k - 1]
        BY <3>1, PartIs DEF two
      <3>3. 1 \in 1 .. 2 /\ 2 \in 1 .. 2
        OBVIOUS
      <3> QED
        BY <3>1, <3>2, <3>3
    <2>2. Applies(pair, name, two)
      BY <1>1, OpApplies
    <2> HIDE DEF two, pair
    <2>3. i \in 1 .. Len(operands) /\ i + 1 \in 1 .. Len(operands) /\ i \in 1 .. 3 /\ i + 1 \in 1 .. 3
      OBVIOUS
    <2>4. \A k \in 1 .. Len(two) : k = 1 \/ k = 2
      BY <2>1
    <2>5. Failing(two, data) = {} /\ GiveNumbers(two, data)
      BY <1>2, <2>1, <2>3, <2>4 DEF Failing, GiveNumbers
    <2>6. Apply(pair, data) = CompareInOrder(op, others)
      BY <1>1, <2>1, <2>2, <2>5, ComparisonOfNumbers
    <2>7. others = [k \in 1 .. 2 |-> Content(Apply(two[k], data).value)]
      BY <2>1 DEF NumbersOf
    <2> HIDE DEF others, nums, op
    <2>8. others = [k \in 1 .. 2 |-> others[k]] /\ others[1] = nums[i] /\ others[2] = nums[i + 1]
      BY <1>4, <2>1, <2>3, <2>7
    <2>9. Len(others) = 2
      BY <2>8, ListIs
    <2>10. /\ Related(op, nums[i], nums[i + 1]) => Apply(pair, data) = True
           /\ ~Related(op, nums[i], nums[i + 1]) => Apply(pair, data) = False
      BY <2>6, <2>8, <2>9, CompareTwo
    <2> QED
      BY <2>10 DEF pair, two
  <1>6. Applies(both, "and", pairs)
    BY OpApplies DEF Names
  <1> HIDE DEF Pair
  <1>7. IsList(pairs) /\ Len(pairs) = 2 /\ pairs[1] = Pair(1) /\ pairs[2] = Pair(2)
    BY TwoAreList
  <1> HIDE DEF pairs, both, nums, op
  <1>8. CASE Related(op, nums[1], nums[2])
    <2>1. Apply(Pair(1), data) = True
      BY <1>5, <1>8
    <2>2. Goes("and", Apply(pairs[1], data))
      BY <1>7, <2>1, TruthIs DEF Goes, IsTruthy
    <2>3. EndsAt("and", pairs, data, 2)
      BY <1>7, <2>2 DEF EndsAt
    <2>4. Apply(both, data) = Apply(Pair(2), data)
      BY <1>6, <1>7, <2>3, ChainIs
    <2>5. Apply(Pair(2), data) = CompareInOrder(op, nums)
      BY <1>1, <1>4, <1>5, <1>8, CompareThree
    <2> QED
      BY <1>3, <2>4, <2>5 DEF both, pairs, Pair
  <1>9. CASE ~Related(op, nums[1], nums[2])
    <2>1. Apply(Pair(1), data) = False
      BY <1>5, <1>9
    <2>2. ~Goes("and", Apply(pairs[1], data))
      BY <1>7, <2>1, TruthIs DEF Goes, IsTruthy
    <2>3. EndsAt("and", pairs, data, 1)
      BY <1>7, <2>2 DEF EndsAt
    <2>4. Apply(both, data) = False
      BY <1>6, <1>7, <2>1, <2>3, ChainIs
    <2>5. CompareInOrder(op, nums) = False
      BY <1>1, <1>4, <1>9, CompareThree
    <2> QED
      BY <1>3, <2>4, <2>5 DEF both, pairs, Pair
  <1> QED
    BY <1>8, <1>9

-----------------------------------------------------------------------------
(* substr, cat                                                               *)

\* Two sequences flattened are put one after the other.
LEMMA FlattenTwo ==
  ASSUME NEW s, NEW t
  PROVE  FlattenSeq(<<s, t>>) = s \o t
  <1> DEFINE seqs == <<s, t>>
             IsFlat(f) == f = [i \in 1 .. Len(seqs) |-> IF i = 1 THEN seqs[i] ELSE f[i - 1] \o seqs[i]]
             flat == CHOOSE f : IsFlat(f)
             g == [i \in 1 .. 2 |-> IF i = 1 THEN s ELSE s \o t]
  <1>1. Len(seqs) = 2 /\ seqs[1] = s /\ seqs[2] = t
    OBVIOUS
  <1>2. FlattenSeq(seqs) = flat[2]
    BY <1>1 DEF FlattenSeq
  <1> HIDE DEF seqs
  <1>3. IsFlat(g)
    <2>1. \A i \in 1 .. 2 : g[i] = IF i = 1 THEN seqs[i] ELSE g[i - 1] \o seqs[i]
      <3>1. g[1] = s /\ g[2] = s \o t /\ 2 - 1 = 1
        OBVIOUS
      <3> HIDE DEF g
      <3>2. \A i \in 1 .. 2 : i = 1 \/ i = 2
        OBVIOUS
      <3> QED
        BY <1>1, <3>1, <3>2
    <2>2. g = [i \in 1 .. 2 |-> g[i]]
      OBVIOUS
    <2> HIDE DEF g
    <2> QED
      BY <1>1, <2>1, <2>2
  <1> HIDE DEF g
  <1>4. IsFlat(flat)
    BY <1>3
  <1> HIDE DEF flat
  <1>5. 1 \in 1 .. 2 /\ 2 \in 1 .. 2 /\ 2 - 1 = 1 /\ 2 # 1
    OBVIOUS
  <1>6. flat[1] = s
    BY <1>1, <1>4, <1>5
  <1>7. flat[2] = flat[1] \o t
    BY <1>1, <1>4, <1>5
  <1> QED
    BY <1>2, <1>6, <1>7 DEF seqs

\* Two texts put together.
LEMMA CatOfTwo ==
  ASSUME IsInterpreter, NEW a, NEW b, NEW data, NEW s, NEW t,
         Apply(a, data) = Ok(JsonString(s)), Apply(b, data) = Ok(JsonString(t))
  PROVE  Apply(Op("cat", <<a, b>>), data) = Ok(JsonString(s \o t))
  <1> DEFINE both == <<a, b>>
             logic == Op("cat", both)
             values == Content(logic)[<<"cat">>]
             args == Apply(values, data)
             list == Content(args.value)
  <1>1. Applies(logic, "cat", both)
    BY OpApplies DEF Names
  <1>2. IsList(both) /\ Len(both) = 2 /\ both[1] = a /\ both[2] = b
    BY TwoAreList
  <1> HIDE DEF both, logic
  <1>3. IsArray(values) /\ Content(values) = both
    BY <1>1 DEF Applies
  <1>4. \A i \in 1 .. 2 : i = 1 \/ i = 2
    OBVIOUS
  <1>5. Failing(both, data) = {}
    BY <1>2, <1>4 DEF Failing, Ok, IsOk
  <1> HIDE DEF values
  <1>6. /\ IsOk(args) /\ IsArray(args.value) /\ IsList(list) /\ Len(list) = 2
        /\ \A i \in 1 .. 2 : list[i] = Apply(both[i], data).value
    BY <1>2, <1>3, <1>5, ArrayIs
  <1>7. list[1] = JsonString(s) /\ list[2] = JsonString(t)
    BY <1>2, <1>6 DEF Ok
  <1> HIDE DEF args
  <1>8. AreTexts(list) /\ Contents(list) = <<s, t>>
    <2>1. DOMAIN list = 1 .. 2
      BY <1>6, ListHas
    <2>2. \A i \in 1 .. 2 : IsString(list[i]) /\ Content(list[i]) = <<s, t>>[i]
      BY <1>4, <1>7 DEF IsString, JsonString, KindOf, Content
    <2>3. <<s, t>> = [i \in 1 .. 2 |-> <<s, t>>[i]]
      OBVIOUS
    <2> QED
      BY <2>1, <2>2, <2>3 DEF AreTexts, Contents
  <1>9. ~IsString(args.value) /\ KindOf(args.value) # "object"
    BY <1>6 DEF IsArray, IsString
  <1>10. Cat(values, data) = Ok(JsonString(s \o t))
    BY <1>6, <1>8, <1>9, FlattenTwo DEF Cat, args
  <1>11. ApplyOp(<<"cat">>, values, data) = Cat(values, data)
    BY Table DEF Names
  <1>12. Ok(JsonString(s \o t)) # NotFound
    BY DEF Ok, NotFound
  <1> QED
    BY <1>1, <1>10, <1>11, <1>12, ApplyIs DEF values, logic, both

\* A text up to a place and from there on.
LEMMA TextIsCut ==
  ASSUME NEW text, IsList(text), NEW k \in 0 .. Len(text)
  PROVE  SubSeq(text, 1, k) \o SubSeq(text, k + 1, Len(text)) = text
  <1>1. Len(text) \in Nat
    BY ListHas
  <1>2. text \in Seq(Range(text))
    BY DEF IsList
  <1>3. 1 \in 1 .. Len(text) + 1 /\ k \in 1 - 1 .. Len(text) /\ Len(text) \in k .. Len(text)
    BY <1>1
  <1>4. SubSeq(text, 1, k) \o SubSeq(text, k + 1, Len(text)) = SubSeq(text, 1, Len(text))
    BY <1>2, <1>3, ConcatAdjacentSubSeq
  <1> QED
    BY <1>2, <1>4, SubSeqFull

\* The lesser of two numbers, as Start and Length bound the parts of a text.
LEMMA MinOfTwo ==
  ASSUME NEW a \in Int, NEW b \in Int
  PROVE  Min({a, b}) = IF a <= b THEN a ELSE b
  <1> DEFINE m == IF a <= b THEN a ELSE b
             IsMin(x) == x \in {a, b} /\ \A y \in {a, b} : x <= y
  <1>1. IsMin(m)
    OBVIOUS
  <1>2. \A x : IsMin(x) => x = m
    OBVIOUS
  <1>3. Min({a, b}) = CHOOSE x : IsMin(x)
    BY DEF Min
  <1> HIDE DEF IsMin, m
  <1>4. Min({a, b}) = m
    BY <1>1, <1>2, <1>3
  <1> QED
    BY <1>4 DEF m

\* The greater of two.
LEMMA MaxOfTwo ==
  ASSUME NEW a \in Int, NEW b \in Int
  PROVE  Max({a, b}) = IF a >= b THEN a ELSE b
  <1>1. CASE a >= b
    <2>1. a \in {a, b} /\ {a, b} \subseteq Int /\ \A n \in {a, b} : a >= n
      BY <1>1
    <2> QED
      BY <1>1, <2>1, MaxIs
  <1>2. CASE ~(a >= b)
    <2>1. b \in {a, b} /\ {a, b} \subseteq Int /\ \A n \in {a, b} : b >= n
      BY <1>2
    <2> QED
      BY <1>2, <2>1, MaxIs
  <1> QED
    BY <1>1, <1>2

\* The part of a text from a place on.
From(text, from) ==
    IF from >= Len(text) THEN <<>>
    ELSE SubSeq(text, from + 1, Min({from + Len(text), Len(text)}))
\* And its first characters.
FromFor(text, from, length) ==
    IF from >= Len(text) THEN <<>>
    ELSE SubSeq(text, from + 1, Min({from + length, Len(text)}))

\* substr with a start.
LEMMA SubstrFrom ==
  ASSUME IsInterpreter, NEW logic, NEW operands, NEW data, NEW text,
         Applies(logic, "substr", operands), IsList(operands), Len(operands) = 2,
         Apply(operands[1], data) = Ok(JsonString(text)), IsOk(Apply(logic, data))
  PROVE  LET start == Apply(operands[2], data)
         IN  /\ IsOk(start) /\ IsInteger(start.value)
             /\ Apply(logic, data) = Ok(JsonString(From(text, Start(text, AsInt64(start.value)))))
  <1> DEFINE values == Content(logic)[<<"substr">>]
             args == Apply(values, data)
             list == Content(args.value)
             start == Apply(operands[2], data)
             from == Start(text, AsInt64(start.value))
  <1>1. IsArray(values) /\ Content(values) = operands
    BY DEF Applies
  <1>2. ApplyOp(<<"substr">>, values, data) = Substr(values, data)
    BY Table DEF Names
  <1>3. Substr(values, data) # NotFound
    BY DEF Substr, Ok, Invalid, NotFound
  <1>4. Apply(logic, data) = Substr(values, data)
    BY <1>2, <1>3, ApplyIs
  <1>5. IsOk(args)
    <2>1. CASE ~IsOk(args)
      <3>1. Substr(values, data) = Invalid
        BY <2>1 DEF Substr
      <3> QED
        BY <1>4, <3>1 DEF Invalid, IsOk
    <2> QED
      BY <2>1
  <1>6. Failing(operands, data) = {}
    <2>1. CASE Failing(operands, data) # {}
      <3>1. args = FirstFailure(operands, data)
        BY <1>1, <2>1, ArrayIs
      <3> QED
        BY <1>5, <2>1, <3>1, FirstFailureFails
    <2> QED
      BY <2>1
  <1>7. /\ IsArray(args.value) /\ Len(list) = 2
        /\ \A i \in 1 .. 2 : list[i] = Apply(operands[i], data).value
    BY <1>1, <1>6, ArrayIs
  <1> HIDE DEF args, values
  <1>8. list[1] = JsonString(text) /\ list[2] = start.value
    <2>1. 1 \in 1 .. 2 /\ 2 \in 1 .. 2
      OBVIOUS
    <2>2. Ok(JsonString(text)).value = JsonString(text)
      BY DEF Ok
    <2> QED
      BY <1>7, <2>1, <2>2
  <1> HIDE DEF list, start
  <1>9. IsString(list[1]) /\ Content(list[1]) = text /\ list # <<>>
    <2>1. list # <<>>
      BY <1>7
    <2> QED
      BY <1>8, <2>1 DEF IsString, JsonString, KindOf, Content
  <1>10. IsInteger(list[2])
    <2>1. CASE ~IsInteger(list[2])
      <3>1. Substr(values, data) = Invalid
        BY <1>7, <1>9, <2>1 DEF Substr, args, list
      <3> QED
        BY <1>4, <3>1 DEF Invalid, IsOk
    <2> QED
      BY <2>1
  <1>11. Substr(values, data) = Ok(JsonString(From(text, from)))
    <2>1. ~(Len(list) > 2) /\ Len(list) > 1
      BY <1>7
    <2>2. CASE from >= Len(text)
      <3>1. Substr(values, data) = Ok(JsonString(<<>>))
        BY <1>5, <1>7, <1>8, <1>9, <1>10, <2>1, <2>2 DEF Substr, args, list
      <3> QED
        BY <2>2, <3>1 DEF From
    <2>3. CASE ~(from >= Len(text))
      <3>1. Substr(values, data)
                = Ok(JsonString(SubSeq(text, from + 1, Min({from + Len(text), Len(text)}))))
        BY <1>5, <1>7, <1>8, <1>9, <1>10, <2>1, <2>3 DEF Substr, args, list
      <3> QED
        BY <2>3, <3>1 DEF From
    <2> QED
      BY <2>2, <2>3
  <1>12. IsOk(start)
    <2>1. 2 \in 1 .. Len(operands)
      OBVIOUS
    <2> QED
      BY <1>6, <2>1 DEF Failing, start
  <1> QED
    BY <1>4, <1>8, <1>10, <1>11, <1>12 DEF start

\* substr with a start and a length.
LEMMA SubstrFromFor ==
  ASSUME IsInterpreter, NEW logic, NEW operands, NEW data, NEW text, NEW start, NEW length,
         Applies(logic, "substr", operands), IsList(operands), Len(operands) = 3,
         Apply(operands[1], data) = Ok(JsonString(text)),
         Apply(operands[2], data) = Ok(start), IsInteger(start),
         IsOk(Apply(operands[3], data)), Apply(operands[3], data).value = length, IsInteger(length)
  PROVE  LET from == Start(text, AsInt64(start))
         IN  Apply(logic, data)
                 = Ok(JsonString(FromFor(text, from, Length(text, from, AsInt32(length)))))
  <1> DEFINE values == Content(logic)[<<"substr">>]
             args == Apply(values, data)
             list == Content(args.value)
             from == Start(text, AsInt64(start))
             len == Length(text, from, AsInt32(length))
  <1>1. IsArray(values) /\ Content(values) = operands
    BY DEF Applies
  <1>2. ApplyOp(<<"substr">>, values, data) = Substr(values, data)
    BY Table DEF Names
  <1>3. Substr(values, data) # NotFound
    BY DEF Substr, Ok, Invalid, NotFound
  <1>4. Apply(logic, data) = Substr(values, data)
    BY <1>2, <1>3, ApplyIs
  <1>5. Failing(operands, data) = {}
    <2>1. \A i \in 1 .. 3 : i = 1 \/ i = 2 \/ i = 3
      OBVIOUS
    <2> QED
      BY <2>1 DEF Failing, Ok, IsOk
  <1>6. /\ IsOk(args) /\ IsArray(args.value) /\ Len(list) = 3
        /\ \A i \in 1 .. 3 : list[i] = Apply(operands[i], data).value
    BY <1>1, <1>5, ArrayIs
  <1> HIDE DEF args, values
  <1>7. list[1] = JsonString(text) /\ list[2] = start /\ list[3] = length
    BY <1>6 DEF Ok
  <1> HIDE DEF list
  <1>8. IsString(list[1]) /\ Content(list[1]) = text /\ list # <<>>
    BY <1>6, <1>7 DEF IsString, JsonString, KindOf, Content
  <1>9. Len(list) > 1 /\ Len(list) > 2
    BY <1>6
  <1>10. CASE from >= Len(text)
    <2>1. Substr(values, data) = Ok(JsonString(<<>>))
      BY <1>6, <1>7, <1>8, <1>9, <1>10 DEF Substr, args, list
    <2> QED
      BY <1>4, <1>10, <2>1 DEF FromFor
  <1>11. CASE ~(from >= Len(text))
    <2>1. Substr(values, data) = Ok(JsonString(SubSeq(text, from + 1, Min({from + len, Len(text)}))))
      BY <1>6, <1>7, <1>8, <1>9, <1>11 DEF Substr, args, list
    <2> QED
      BY <1>4, <1>11, <2>1 DEF FromFor
  <1> QED
    BY <1>10, <1>11

\* An int keeps all of a number that fits it.
LEMMA ToInt32Keeps ==
  ASSUME NEW n, FitsInt(n)
  PROVE  n \in Int /\ ToInt32(n) = n
  <1> DEFINE m == 2 * IntSignBit
             x == n + IntSignBit
  <1>1. IntSignBit \in Nat \ {0} /\ n \in Int
    BY IntAssumption, RoundingAssumption DEF FitsInt, RoundingAssumption
  <1>2. m \in Nat \ {0} /\ x \in 0 .. m - 1
    BY <1>1 DEF FitsInt
  <1>3. ToInt32(n) = (x % m) - IntSignBit
    BY DEF ToInt32
  <1>4. x - IntSignBit = n
    BY <1>1
  <1> HIDE DEF m, x
  <1>5. x % m = x
    BY <1>2
  <1> QED
    BY <1>1, <1>3, <1>4, <1>5

\* The two parts of a text.
LEMMA PartsOfText ==
  ASSUME NEW text, IsList(text), FitsInt(Len(text)), NEW k, FitsInt(k)
  PROVE  FromFor(text, 0, Length(text, 0, k)) \o From(text, Start(text, k)) = text
  <1> DEFINE n == Len(text)
             from == Start(text, k)
             length == Length(text, 0, k)
  <1>1. n \in Nat /\ (text = <<>> <=> n = 0) /\ k \in Int
    BY ListHas, ToInt32Keeps
  <1>2. from = IF k < 0 THEN (IF n + k >= 0 THEN n + k ELSE 0) ELSE k
    BY <1>1, MaxOfTwo DEF Start
  <1>3. length = IF k < 0 THEN n + k ELSE k
    <2>1. CASE k < 0
      <3>1. n - 0 + k = n + k
        BY <1>1
      <3>2. FitsInt(n + k)
        BY <1>1, <2>1, IntAssumption, RoundingAssumption DEF FitsInt, RoundingAssumption
      <3>3. ToInt32(n - 0 + k) = n + k
        BY <3>1, <3>2, ToInt32Keeps
      <3> QED
        BY <2>1, <3>3 DEF Length
    <2>2. CASE ~(k < 0)
      BY <2>2 DEF Length
    <2> QED
      BY <2>1, <2>2
  <1>4. from \in Nat /\ length \in Int
    BY <1>1, <1>2, <1>3
  <1> HIDE DEF n, from, length
  <1>5. From(text, from) = IF from >= n THEN <<>> ELSE SubSeq(text, from + 1, n)
    <2>1. Min({from + n, n}) = n
      BY <1>1, <1>4, MinOfTwo
    <2> QED
      BY <2>1 DEF From, n
  <1>6. FromFor(text, 0, length) = IF n = 0 THEN <<>> ELSE SubSeq(text, 1, IF length <= n THEN length ELSE n)
    <2>1. Min({0 + length, n}) = IF length <= n THEN length ELSE n
      BY <1>1, <1>4, MinOfTwo
    <2>2. 0 >= n <=> n = 0
      BY <1>1
    <2>3. 0 + 1 = 1
      OBVIOUS
    <2> QED
      BY <2>1, <2>2, <2>3 DEF FromFor, n
  <1> DEFINE cut == IF from <= n THEN from ELSE n
  <1>7. cut \in 0 .. n
    BY <1>1, <1>4
  <1>8. From(text, from) = SubSeq(text, cut + 1, n)
    <2>1. CASE from >= n
      <3>1. cut = n
        BY <1>1, <1>4, <2>1
      <3>2. SubSeq(text, cut + 1, n) = <<>>
        BY <1>1, <3>1, SubSeqEmpty
      <3> QED
        BY <1>5, <2>1, <3>2
    <2>2. CASE ~(from >= n)
      <3>1. cut = from
        BY <1>1, <1>4, <2>2
      <3> QED
        BY <1>5, <2>2, <3>1
    <2> QED
      BY <2>1, <2>2
  <1>9. FromFor(text, 0, length) = SubSeq(text, 1, cut)
    <2>1. CASE n = 0
      <3>1. cut = 0
        BY <1>7, <2>1
      <3>2. SubSeq(text, 1, cut) = <<>>
        BY <3>1, SubSeqEmpty
      <3> QED
        BY <1>6, <2>1, <3>2
    <2>2. CASE n # 0 /\ length < 0
      <3>1. k < 0 /\ cut = 0 /\ length <= n
        BY <1>1, <1>2, <1>3, <2>2
      <3>2. SubSeq(text, 1, cut) = <<>> /\ SubSeq(text, 1, length) = <<>>
        BY <1>4, <2>2, <3>1, SubSeqEmpty
      <3> QED
        BY <1>6, <2>2, <3>1, <3>2
    <2>3. CASE n # 0 /\ length >= 0
      <3>1. cut = IF length <= n THEN length ELSE n
        BY <1>1, <1>2, <1>3, <2>3
      <3> HIDE DEF cut
      <3> QED
        BY <1>6, <2>3, <3>1
    <2> QED
      BY <1>4, <2>1, <2>2, <2>3
  <1> HIDE DEF cut
  <1>10. SubSeq(text, 1, cut) \o SubSeq(text, cut + 1, n) = text
    BY <1>7, TextIsCut DEF n
  <1> QED
    BY <1>8, <1>9, <1>10 DEF from, length

\* A text cut in two and put together.
LEMMA CutText ==
  ASSUME IsInterpreter, NEW logic, NEW operands, NEW data,
         Applies(logic, "substr", operands), IsList(operands), Len(operands) = 2,
         IsString(operands[1]), IsWellFormed(operands[1]), FitsInt(Size(operands[1])),
         FitsInt(AsInt64(Apply(operands[2], data).value)), IsOk(Apply(logic, data))
  PROVE  LET head == Op("substr", <<operands[1], Literal(0), operands[2]>>)
         IN  Apply(Op("cat", <<head, logic>>), data) = Ok(operands[1])
  <1> DEFINE three == <<operands[1], Literal(0), operands[2]>>
             head == Op("substr", three)
             text == Content(operands[1])
             start == Apply(operands[2], data).value
             k == AsInt64(start)
  <1>1. operands[1] = JsonString(text) /\ IsList(text)
    <2>1. operands[1] # JsonNull
      BY DEF IsString, KindOf, JsonNull
    <2>2. operands[1] = <<KindOf(operands[1]), text>> /\ text \in Seq(Range(text))
      BY <2>1 DEF IsWellFormed
    <2> QED
      BY <2>2 DEF IsString, JsonString, IsList
  <1>2. Apply(operands[1], data) = Ok(JsonString(text))
    <2>1. IsPrimitive(operands[1])
      BY DEF IsString, IsPrimitive
    <2> QED
      BY <1>1, <2>1, ScalarIs
  <1>3. /\ IsOk(Apply(operands[2], data)) /\ IsInteger(start)
        /\ Apply(logic, data) = Ok(JsonString(From(text, Start(text, k))))
    BY <1>2, SubstrFrom
  <1>4. Apply(operands[2], data).value = start
    OBVIOUS
  <1>5. FitsInt(k) /\ FitsInt(Len(text)) /\ AsInt32(start) = k
    <2>1. FitsInt(k) /\ FitsInt(Len(text))
      BY DEF Size, text
    <2> QED
      BY <2>1, ToInt32Keeps DEF AsInt32
  <1>6. Apply(Literal(0), data) = Ok(Literal(0)) /\ IsInteger(Literal(0)) /\ AsInt64(Literal(0)) = 0
    <2>1. Literal(0) = JsonNumber(Unsigned(0))
      BY DEF Literal
    <2>2. IsPrimitive(JsonNumber(Unsigned(0))) /\ Content(JsonNumber(Unsigned(0))) = Unsigned(0)
          /\ IsNumber(JsonNumber(Unsigned(0)))
      BY DEF IsPrimitive, JsonNumber, KindOf, Content, IsNumber
    <2>3. ~IsFloat(Unsigned(0)) /\ Unsigned(0).value = 0
      BY DEF IsFloat, Unsigned
    <2>4. ToSigned(0) = 0
      BY RoundingAssumption DEF ToSigned, RoundingAssumption
    <2> QED
      BY <2>1, <2>2, <2>3, <2>4, ScalarIs DEF IsInteger, AsInt64
  <1>7. Applies(head, "substr", three)
    BY OpApplies DEF Names
  <1>8. /\ IsList(three) /\ Len(three) = 3 /\ three[1] = operands[1] /\ three[2] = Literal(0)
        /\ three[3] = operands[2]
    BY ThreeAreList
  <1> HIDE DEF three, head, start, text
  <1>9. Start(text, 0) = 0
    BY DEF Start
  <1>10. Apply(head, data) = Ok(JsonString(FromFor(text, 0, Length(text, 0, k))))
    BY <1>2, <1>3, <1>4, <1>5, <1>6, <1>7, <1>8, <1>9, SubstrFromFor
  <1>11. FromFor(text, 0, Length(text, 0, k)) \o From(text, Start(text, k)) = text
    BY <1>1, <1>5, PartsOfText
  <1>12. Apply(Op("cat", <<head, logic>>), data) = Ok(JsonString(text))
    <2> DEFINE s == FromFor(text, 0, Length(text, 0, k))
               t == From(text, Start(text, k))
    <2>1. Apply(head, data) = Ok(JsonString(s)) /\ Apply(logic, data) = Ok(JsonString(t)) /\ s \o t = text
      BY <1>3, <1>10, <1>11
    <2> HIDE DEF s, t
    <2>2. \A a, b : Apply(a, data) = Ok(JsonString(s)) /\ Apply(b, data) = Ok(JsonString(t)) =>
                       Apply(Op("cat", <<a, b>>), data) = Ok(JsonString(s \o t))
      BY CatOfTwo
    <2>3. Apply(Op("cat", <<head, logic>>), data) = Ok(JsonString(s \o t))
      BY <2>1, <2>2
    <2> QED
      BY <2>1, <2>3
  <1> QED
    BY <1>1, <1>12 DEF head, three

\* Rules that authors take for the same are: De Morgan's law, chained and nested
\* if, grouped operands, a text cut by substr and put together by cat, "between",
\* a comparison and the opposite one.
THEOREM FormsAgree ==
  ASSUME IsInterpreter
  PROVE  LogicSpec => []EquivalentForms
  <1>1. LogicInv => EquivalentForms
    <2> SUFFICES ASSUME LogicInv PROVE EquivalentForms
      OBVIOUS
    <2> DEFINE data == evaluation.data
    <2>1. ASSUME Evaluated("and")
          PROVE  LET negated == [i \in DOMAIN OperandsOf("and") |-> Op("!", <<OperandsOf("and")[i]>>)]
                 IN  Outcome(Op("!", <<evaluation.logic>>)) = Outcome(Op("or", negated))
      BY <2>1, OperandsAreList, DeMorgan DEF Outcome
    <2>2. ASSUME Evaluated("if"), Len(OperandsOf("if")) > 2
          PROVE  LET operands == OperandsOf("if")
                     rest == Op("if", SubSeq(operands, 3, Len(operands)))
                 IN  evaluation.status = Outcome(Op("if", <<operands[1], operands[2], rest>>))
      BY <2>2, OperandsAreList, ChainedIf DEF Outcome
    <2>3. ASSUME NEW name \in {"and", "or"}, Evaluated(name), Len(OperandsOf(name)) > 1
          PROVE  evaluation.status =
                     Outcome(Op(name, <<Head(OperandsOf(name)), Op(name, Tail(OperandsOf(name)))>>))
      BY <2>3, OperandsAreList, Grouping DEF Outcome
    <2>4. ASSUME Evaluated("substr"), Len(OperandsOf("substr")) = 2
          PROVE  LET text == OperandsOf("substr")[1]
                     start == OperandsOf("substr")[2]
                     head == Op("substr", <<text, Literal(0), start>>)
                     InInts == FitsInt(Size(text)) /\ FitsInt(AsInt64(Outcome(start).value))
                 IN  IsString(text) /\ IsOk(evaluation.status) /\ InInts =>
                         Outcome(Op("cat", <<head, evaluation.logic>>)) = Ok(text)
      <3> DEFINE operands == OperandsOf("substr")
      <3> SUFFICES ASSUME IsString(operands[1]), IsOk(evaluation.status), FitsInt(Size(operands[1])),
                          FitsInt(AsInt64(Outcome(operands[2]).value))
                   PROVE  LET head == Op("substr", <<operands[1], Literal(0), operands[2]>>)
                          IN  Outcome(Op("cat", <<head, evaluation.logic>>)) = Ok(operands[1])
        OBVIOUS
      <3>1. /\ Applies(evaluation.logic, "substr", operands) /\ IsList(operands)
            /\ \A i \in DOMAIN operands : IsWellFormed(operands[i])
            /\ evaluation.status = Apply(evaluation.logic, data)
        BY <2>4, OperandsAreList DEF Outcome
      <3> HIDE DEF operands
      <3>2. Len(operands) = 2
        BY <2>4 DEF operands
      <3>3. 1 \in DOMAIN operands
        BY <3>1, <3>2, ListHas
      <3> QED
        BY <3>1, <3>2, <3>3, CutText DEF Outcome
    <2>5. ASSUME NEW name \in {"<", "<="}, Evaluated(name), Len(OperandsOf(name)) = 3,
                 IsOk(evaluation.status)
          PROVE  LET Pair(i) == Op(name, SubSeq(OperandsOf(name), i, i + 1))
                 IN  evaluation.status = Outcome(Op("and", <<Pair(1), Pair(2)>>))
      BY <2>5, OperandsAreList, Between DEF Outcome
    <2>6. ASSUME NEW name \in {">", ">="}, Evaluated(name), Len(OperandsOf(name)) # 3,
                 AreFinite(OperandsOf(name))
          PROVE  LET opposite == Op(IF name = ">" THEN "<=" ELSE "<", OperandsOf(name))
                 IN  evaluation.status = Outcome(Op("!", <<opposite>>))
      <3> DEFINE operands == OperandsOf(name)
      <3>1. /\ Applies(evaluation.logic, name, operands) /\ IsList(operands)
            /\ evaluation.status = Apply(evaluation.logic, data)
        BY <2>6, OperandsAreList DEF Outcome
      <3> HIDE DEF operands
      <3>2. DOMAIN operands = 1 .. Len(operands)
        BY <3>1, ListHas
      <3>3. \A i \in 1 .. Len(operands) :
                IsOk(Apply(operands[i], data)) /\ IsNumber(Apply(operands[i], data).value) =>
                    Content(Apply(operands[i], data).value) \in Numbers
        BY <2>6, <3>2 DEF AreFinite, Outcome, operands
      <3>4. Len(operands) # 3
        BY <2>6 DEF operands
      <3> QED
        BY <3>1, <3>3, <3>4, Opposites DEF Outcome, operands
    <2> QED
      BY <2>1, <2>2, <2>3, <2>4, <2>5, <2>6, Zenon DEF EquivalentForms
  <1> QED
    BY <1>1, EvaluatedAlways, PTL

-----------------------------------------------------------------------------
(* What stands at some places                                                *)

\* Collected goes through a list once.
Collects(f, values, places) ==
    f = [i \in 0 .. Len(values) |->
            IF i = 0 THEN <<>>
            ELSE IF i \in places THEN Append(f[i - 1], values[i])
            ELSE f[i - 1]]

\* It collects what stands at those places, and no more: the length is their number.
LEMMA CollectedIs ==
  ASSUME NEW values, IsList(values), NEW places \in SUBSET (1 .. Len(values))
  PROVE  Collected(values, places) \in Seq(Range(values))
         /\ Len(Collected(values, places)) = Cardinality(places)
  <1> DEFINE n == Len(values)
             S == Range(values)
             A == Seq(S)
             step == [p \in A \X (0 .. n) |->
                         IF p[2] \in places THEN Append(p[1], values[p[2]]) ELSE p[1]]
             f == CHOOSE g : Collects(g, values, places)
  <1>1. n \in Nat /\ \A i \in 1 .. n : values[i] \in S
    <2>1. n \in Nat /\ DOMAIN values = 1 .. n
      BY ListHas
    <2> QED
      BY <2>1 DEF Range
  <1>2. Collected(values, places) = f[n]
    BY DEF Collected, Collects
  <1> HIDE DEF S, n
  <1>3. places \in SUBSET (1 .. n)
    BY DEF n
  <1>4. <<>> \in A
    OBVIOUS
  <1>5. step \in [A \X (0 .. n) -> A]
    <2>1. ASSUME NEW p \in A \X (0 .. n)
          PROVE  (IF p[2] \in places THEN Append(p[1], values[p[2]]) ELSE p[1]) \in A
      <3>1. p[1] \in A
        OBVIOUS
      <3>2. CASE p[2] \in places
        <4>1. values[p[2]] \in S
          BY <1>1, <1>3, <3>2
        <4> QED
          BY <3>1, <3>2, <4>1, AppendProperties
      <3> QED
        BY <3>1, <3>2
    <2> QED
      BY <2>1
  <1>6. PICK g \in [0 .. n -> A] : Recurs(g, 0, n, <<>>, step)
    <2> HIDE DEF A, step
    <2>1. 0 <= n /\ 0 \in Nat
      BY <1>1
    <2> QED
      BY <1>1, <1>4, <1>5, <2>1, RecursionExists
  <1>7. Collects(g, values, places)
    <2>1. g[0] = <<>>
      BY <1>6 DEF Recurs
    <2>2. ASSUME NEW i \in 0 .. n, i # 0
          PROVE  g[i] = IF i \in places THEN Append(g[i - 1], values[i]) ELSE g[i - 1]
      <3>1. g[i] = step[<<g[i - 1], i>>]
        BY <1>6, <2>2 DEF Recurs
      <3>2. i - 1 \in 0 .. n
        BY <1>1, <2>2
      <3>3. <<g[i - 1], i>> \in A \X (0 .. n)
        BY <1>6, <3>2
      <3> QED
        BY <3>1, <3>3
    <2>3. g = [i \in 0 .. n |-> IF i = 0 THEN <<>>
                                ELSE IF i \in places THEN Append(g[i - 1], values[i])
                                ELSE g[i - 1]]
      BY <1>6, <2>1, <2>2
    <2> QED
      BY <2>3 DEF Collects, n
  <1>8. Collects(f, values, places)
    BY <1>7
  <1> HIDE DEF f, A, step
  <1>9. /\ f[0] = <<>>
        /\ \A i \in 0 .. n : i # 0 =>
              f[i] = IF i \in places THEN Append(f[i - 1], values[i]) ELSE f[i - 1]
    <2>1. f = [i \in 0 .. n |-> IF i = 0 THEN <<>>
                                ELSE IF i \in places THEN Append(f[i - 1], values[i])
                                ELSE f[i - 1]]
      BY <1>8 DEF Collects, n
    <2>2. 0 \in 0 .. n
      BY <1>1
    <2> QED
      BY <2>1, <2>2
  <1> DEFINE Before(i) == places \cap (1 .. i)
             T == {i \in 0 .. n : f[i] \in Seq(S) /\ Len(f[i]) = Cardinality(Before(i))
                                  /\ IsFiniteSet(Before(i))}
  <1>10. 0 \in T
    <2>1. Before(0) = {}
      OBVIOUS
    <2>2. Cardinality({}) = 0 /\ IsFiniteSet({})
      BY FS_EmptySet
    <2>3. 0 \in 0 .. n /\ <<>> \in Seq(S) /\ Len(<<>>) = 0
      BY <1>1
    <2> QED
      BY <1>9, <2>1, <2>2, <2>3
  <1>11. ASSUME NEW i \in 0 .. n, i # 0 /\ i - 1 \in T PROVE i \in T
    <2>1. f[i - 1] \in Seq(S) /\ Len(f[i - 1]) = Cardinality(Before(i - 1)) /\ IsFiniteSet(Before(i - 1))
      BY <1>11
    <2>2. f[i] = IF i \in places THEN Append(f[i - 1], values[i]) ELSE f[i - 1]
      BY <1>9, <1>11
    <2>3. CASE i \in places
      <3>1. Before(i) = Before(i - 1) \cup {i} /\ i \notin Before(i - 1)
        BY <1>1, <1>3, <1>11, <2>3
      <3> HIDE DEF Before
      <3>2. IsFiniteSet(Before(i)) /\ Cardinality(Before(i)) = Cardinality(Before(i - 1)) + 1
        BY <2>1, <3>1, FS_AddElement
      <3>3. values[i] \in S
        BY <1>1, <1>3, <2>3
      <3>4. f[i] \in Seq(S) /\ Len(f[i]) = Len(f[i - 1]) + 1
        BY <2>1, <2>2, <2>3, <3>3, AppendProperties
      <3> QED
        BY <2>1, <3>2, <3>4
    <2>4. CASE i \notin places
      <3>1. Before(i) = Before(i - 1)
        BY <1>1, <1>3, <1>11, <2>4
      <3> QED
        BY <2>1, <2>2, <2>4, <3>1
    <2> QED
      BY <2>3, <2>4
  <1> HIDE DEF T
  <1>12. n \in T
    <2>1. \A i \in 0 .. n : i \in T
      BY <1>1, <1>10, <1>11, StepByStep
    <2> QED
      BY <1>1, <2>1
  <1>13. Before(n) = places
    BY <1>3
  <1> QED
    BY <1>2, <1>12, <1>13 DEF T, S

-----------------------------------------------------------------------------
(* var, missing                                                              *)

\* A key that is a name.
IsName(key) == IsString(key) /\ Content(key) # <<>>

\* What var answers for it with a default.
LEMMA VarIs ==
  ASSUME IsInterpreter, NEW key, IsName(key), NEW default, NEW data, IsPrimitive(default)
  PROVE  LET found == GetVariableValue(data, Content(key))
         IN  Apply(Op("var", <<key, default>>), data) = IF IsOk(found) THEN found ELSE Ok(default)
  <1> DEFINE pair == <<key, default>>
             logic == Op("var", pair)
             values == Content(logic)[<<"var">>]
             found == GetVariableValue(data, Content(key))
  <1>1. Applies(logic, "var", pair)
    BY OpApplies DEF Names
  <1>2. Len(pair) = 2 /\ pair[1] = key /\ pair[2] = default
    BY TwoAreList
  <1> HIDE DEF logic, pair, found
  <1>3. IsArray(values) /\ Size(values) = 2 /\ Content(values)[1] = key /\ Content(values)[2] = default
    BY <1>1, <1>2 DEF Applies, Size
  <1> HIDE DEF values
  <1>4. Apply(key, data) = Ok(key) /\ Apply(default, data) = Ok(default)
    <2>1. IsPrimitive(key)
      BY DEF IsName, IsString, IsPrimitive
    <2> QED
      BY <2>1, ScalarIs
  <1>5. KeyObject(values, data) = Ok(key)
    BY <1>3, <1>4 DEF KeyObject
  <1>6. IsOk(Ok(key)) /\ Ok(key).value = key
    BY DEF Ok, IsOk
  <1>7. key \notin {JsonNull, JsonString(<<>>)} /\ IsString(key)
    BY DEF IsName, IsString, KindOf, Content, JsonNull, JsonString
  <1>8. Var(values, data) = IF IsOk(found) THEN found ELSE Ok(default)
    BY <1>3, <1>4, <1>5, <1>6, <1>7 DEF Var, found
  <1>9. ApplyOp(<<"var">>, values, data) = Var(values, data)
    BY Table DEF Names
  <1>10. Var(values, data) # NotFound
    BY <1>8 DEF IsOk, Ok, NotFound
  <1> QED
    BY <1>1, <1>8, <1>9, <1>10, ApplyIs DEF values, logic, pair, found

\* Whether var falls back to its default, whatever that is.
Lacks(key, data) ==
    \A default \in BOOLEAN :
        Apply(Op("var", <<key, JsonBool(default)>>), data) = Ok(JsonBool(default))

\* It does just if GetVariableValue finds nothing.
LEMMA LacksIs ==
  ASSUME IsInterpreter, NEW key, IsName(key), NEW data
  PROVE  Lacks(key, data) <=> ~IsOk(GetVariableValue(data, Content(key)))
  <1> DEFINE found == GetVariableValue(data, Content(key))
  <1>1. \A default \in BOOLEAN :
            Apply(Op("var", <<key, JsonBool(default)>>), data)
                = IF IsOk(found) THEN found ELSE Ok(JsonBool(default))
    <2> TAKE default \in BOOLEAN
    <2>1. IsPrimitive(JsonBool(default))
      BY DEF IsPrimitive, JsonBool, KindOf
    <2> QED
      BY <2>1, VarIs
  <1> HIDE DEF found
  <1>2. Ok(JsonBool(TRUE)) # Ok(JsonBool(FALSE))
    BY DEF Ok, JsonBool
  <1>3. CASE IsOk(found)
    <2>1. Lacks(key, data) => found = Ok(JsonBool(TRUE)) /\ found = Ok(JsonBool(FALSE))
      BY <1>1, <1>3, Zenon DEF Lacks
    <2> QED
      BY <1>2, <1>3, <2>1 DEF found
  <1>4. CASE ~IsOk(found)
    BY <1>1, <1>4, Zenon DEF Lacks, found
  <1> QED
    BY <1>3, <1>4

\* A list of names is evaluated to itself, and Missing finds those that var lacks.
LEMMA MissingIs ==
  ASSUME IsInterpreter, NEW values, IsArray(values), IsList(Content(values)), NEW data,
         \A i \in DOMAIN Content(values) : IsName(Content(values)[i])
  PROVE  LET keys == Content(values)
         IN  /\ Missing(values, data)
                    = Ok(JsonArray(Collected(keys, {i \in DOMAIN keys : Lacks(keys[i], data)})))
             /\ IsOk(Apply(values, data)) /\ IsArray(Apply(values, data).value)
             /\ Content(Apply(values, data).value) = keys
  <1> DEFINE keys == Content(values)
             args == Apply(values, data)
             list == Content(args.value)
             n == Len(keys)
  <1>1. n \in Nat /\ DOMAIN keys = 1 .. n
    BY ListHas
  <1> HIDE DEF n
  <1>2. \A i \in 1 .. n : /\ IsName(keys[i])
                           /\ IsOk(Apply(keys[i], data)) /\ Apply(keys[i], data).value = keys[i]
    <2> TAKE i \in 1 .. n
    <2>1. IsName(keys[i])
      BY <1>1
    <2>2. IsPrimitive(keys[i])
      BY <2>1 DEF IsName, IsString, IsPrimitive
    <2>3. Apply(keys[i], data) = Ok(keys[i])
      BY <2>2, ScalarIs
    <2>4. IsOk(Ok(keys[i])) /\ Ok(keys[i]).value = keys[i]
      BY DEF Ok, IsOk
    <2> QED
      BY <2>1, <2>3, <2>4
  <1>3. Failing(keys, data) = {}
    BY <1>2 DEF Failing, n
  <1>4. /\ IsOk(args) /\ IsArray(args.value) /\ IsList(list) /\ Len(list) = n
        /\ \A i \in 1 .. n : list[i] = Apply(keys[i], data).value
    BY <1>3, ArrayIs DEF n
  <1> HIDE DEF args
  <1>5. list = keys
    <2>1. \A i \in 1 .. n : list[i] = keys[i]
      BY <1>2, <1>4
    <2> HIDE DEF list, keys
    <2>2. Len(list) = Len(keys)
      BY <1>4 DEF n
    <2>3. IsList(keys) /\ IsList(list)
      BY <1>4 DEF keys
    <2> QED
      BY <1>4, <2>1, <2>2, <2>3, ListsAgree
  <1> HIDE DEF keys, list
  <1>6. Sugared(args.value) = keys
    BY <1>4, <1>5 DEF Sugared, list
  <1>7. \A i \in DOMAIN keys : IsString(keys[i])
    BY <1>1, <1>2 DEF IsName
  <1>8. {i \in DOMAIN keys : ~IsOk(GetVariableValue(data, Content(keys[i])))}
            = {i \in DOMAIN keys : Lacks(keys[i], data)}
    <2>1. \A i \in DOMAIN keys : Lacks(keys[i], data) <=> ~IsOk(GetVariableValue(data, Content(keys[i])))
      BY <1>1, <1>2, LacksIs
    <2> QED
      BY <2>1
  <1>9. Missing(values, data) = Ok(JsonArray(Lacking(keys, data)))
    BY <1>4, <1>6, <1>7 DEF Missing, args
  <1>10. Lacking(keys, data) = Collected(keys, {i \in DOMAIN keys : Lacks(keys[i], data)})
    BY <1>8 DEF Lacking
  <1> QED
    BY <1>4, <1>5, <1>9, <1>10 DEF args, keys, list

\* missing
LEMMA MissingAnswers ==
  ASSUME IsInterpreter, NEW logic, NEW keys, NEW data, Applies(logic, "missing", keys),
         IsList(keys), \A i \in DOMAIN keys : IsName(keys[i])
  PROVE  Apply(logic, data)
             = Ok(JsonArray(Collected(keys, {i \in DOMAIN keys : Lacks(keys[i], data)})))
  <1> DEFINE values == Content(logic)[<<"missing">>]
  <1>1. IsArray(values) /\ Content(values) = keys
    BY DEF Applies
  <1> DEFINE answer == Ok(JsonArray(Collected(keys, {i \in DOMAIN keys : Lacks(keys[i], data)})))
  <1>2. answer # NotFound
    BY DEF Ok, NotFound
  <1> HIDE DEF values
  <1>3. Missing(values, data) = answer
    BY <1>1, MissingIs
  <1>4. ApplyOp(<<"missing">>, values, data) = Missing(values, data)
    BY Table DEF Names
  <1> QED
    BY <1>2, <1>3, <1>4, ApplyIs DEF values

\* missing_some
LEMMA MissingSomeTakesTwo ==
  ASSUME IsInterpreter, NEW logic, NEW operands, NEW data, Applies(logic, "missing_some", operands),
         IsOk(Apply(logic, data))
  PROVE  Len(operands) = 2 /\ Apply(logic, data) = MissingSome(Content(logic)[<<"missing_some">>], data)
  <1> DEFINE values == Content(logic)[<<"missing_some">>]
  <1>1. Content(values) = operands
    BY DEF Applies
  <1>2. ApplyOp(<<"missing_some">>, values, data) = MissingSome(values, data)
    BY Table DEF Names
  <1>3. MissingSome(values, data) # NotFound
    BY DEF MissingSome, Missing, Ok, Invalid, NotFound
  <1>4. Apply(logic, data) = MissingSome(values, data)
    BY <1>2, <1>3, ApplyIs
  <1>5. CASE Len(operands) # 2
    <2>1. ~IsPair(values)
      BY <1>1, <1>5 DEF IsPair, Size
    <2>2. MissingSome(values, data) = Invalid
      BY <2>1 DEF MissingSome
    <2> QED
      BY <1>4, <2>2 DEF Invalid, IsOk
  <1> QED
    BY <1>4, <1>5

\* The names among some that var finds, and those that it lacks.
FoundAmong(keys, data) == {i \in DOMAIN keys : ~Lacks(keys[i], data)}
LackedAmong(keys, data) == Collected(keys, {i \in DOMAIN keys : Lacks(keys[i], data)})

\* What missing_some answers: nothing if enough of the names are found, otherwise
\* those that are lacked.
LEMMA MissingSomeAnswers ==
  ASSUME IsInterpreter, NEW logic, NEW operands, NEW data, Applies(logic, "missing_some", operands),
         IsList(operands), IsOk(Apply(logic, data)), IsNumber(operands[1]),
         IsArray(operands[2]), IsList(Content(operands[2])),
         \A i \in DOMAIN Content(operands[2]) : IsName(Content(operands[2])[i])
  PROVE  LET keys == Content(operands[2])
         IN  Apply(logic, data)
                 = Ok(JsonArray(IF Cardinality(FoundAmong(keys, data)) >= Content(operands[1]).value
                                THEN <<>> ELSE LackedAmong(keys, data)))
  <1> DEFINE values == Content(logic)[<<"missing_some">>]
             each == EachApplied(operands, data)
             keys == Content(operands[2])
             places == {i \in DOMAIN keys : Lacks(keys[i], data)}
             found == {i \in DOMAIN keys : ~Lacks(keys[i], data)}
             lacked == Collected(keys, places)
             enough == Content(operands[1]).value
             listed == Apply(operands[2], data).value
             missing == Missing(listed, data)
  <1>1. IsArray(values) /\ Content(values) = operands
    BY DEF Applies
  <1>4. Apply(logic, data) = MissingSome(values, data)
    BY MissingSomeTakesTwo
  <1>5. Len(operands) = 2
    BY MissingSomeTakesTwo
  <1>6. /\ DOMAIN each = 1 .. 2
        /\ each[1] = Apply(operands[1], data) /\ each[2] = Apply(operands[2], data)
    <2>1. 1 \in 1 .. 2 /\ 2 \in 1 .. 2
      OBVIOUS
    <2> QED
      BY <1>5, <2>1, EachIs
  <1>7. each[1] = Ok(operands[1])
    <2>1. IsPrimitive(operands[1])
      BY DEF IsNumber, IsPrimitive
    <2> QED
      BY <1>6, <2>1, ScalarIs
  <1>8. /\ IsOk(each[2]) /\ IsArray(listed) /\ Content(listed) = keys
    BY <1>6, MissingIs
  <1> HIDE DEF each, listed, keys, values
  <1>9. Failures(each) = {}
    <2>1. \A i \in 1 .. 2 : i = 1 \/ i = 2
      OBVIOUS
    <2>2. IsOk(each[1])
      BY <1>7 DEF Ok, IsOk
    <2> QED
      BY <1>6, <1>8, <2>1, <2>2 DEF Failures
  <1>10. missing = Ok(JsonArray(lacked))
    BY <1>8, MissingIs DEF keys
  <1> HIDE DEF missing, lacked
  <1>11. IsOk(missing) /\ Size(missing.value) = Len(lacked) /\ Size(listed) = Len(keys)
    BY <1>8, <1>10 DEF Ok, IsOk, Size, JsonArray, Content
  <1>12. IsPair(values)
    BY <1>1, <1>5 DEF IsPair, Size
  <1>13. each[1].value = operands[1] /\ each[2].value = listed
    BY <1>6, <1>7 DEF Ok, listed
  <1>14. MissingSome(values, data) = IF Len(keys) - Len(lacked) >= enough THEN Ok(JsonArray(<<>>))
                                     ELSE missing
    <2>1. CASE Content(operands[1]).kind # "unsigned"
      <3>1. MissingSome(values, data) = Invalid
        BY <1>1, <1>9, <1>12, <1>13, <2>1 DEF MissingSome, each
      <3> QED
        BY <1>4, <3>1 DEF Invalid, IsOk
    <2>2. CASE Content(operands[1]).kind = "unsigned"
      BY <1>1, <1>8, <1>9, <1>11, <1>12, <1>13, <2>2 DEF MissingSome, each, missing
    <2> QED
      BY <2>1, <2>2
  <1>15. Len(keys) - Len(lacked) = Cardinality(found)
    <2>1. IsList(keys)
      BY DEF keys
    <2>2. Len(keys) \in Nat /\ DOMAIN keys = 1 .. Len(keys)
      BY <2>1, ListHas
    <2>3. IsFiniteSet(1 .. Len(keys)) /\ Cardinality(1 .. Len(keys)) = Len(keys)
      <3> DEFINE m == Len(keys)
      <3>1. m \in Int /\ m >= 0
        BY <2>2
      <3> HIDE DEF m
      <3>2. IsFiniteSet(1 .. m) /\ Cardinality(1 .. m) = IF 1 > m THEN 0 ELSE m - 1 + 1
        BY <3>1, FS_Interval
      <3>3. IsFiniteSet(1 .. m) /\ Cardinality(1 .. m) = m
        BY <3>1, <3>2
      <3> QED
        BY <3>3 DEF m
    <2>4. places \in SUBSET (1 .. Len(keys)) /\ found = (1 .. Len(keys)) \ places
      BY <2>2
    <2> HIDE DEF places, found
    <2>5. Len(lacked) = Cardinality(places)
      BY <2>1, <2>4, CollectedIs DEF lacked
    <2>6. IsFiniteSet(places) /\ Cardinality(places) \in Nat
      BY <2>3, <2>4, FS_Subset, FS_CardinalityType
    <2>7. Cardinality(found) = Cardinality(1 .. Len(keys)) - Cardinality((1 .. Len(keys)) \cap places)
      BY <2>3, <2>4, FS_Difference
    <2>8. (1 .. Len(keys)) \cap places = places
      BY <2>4
    <2> QED
      BY <2>3, <2>5, <2>7, <2>8
  <1>16. Apply(logic, data) = Ok(JsonArray(IF Cardinality(found) >= enough THEN <<>> ELSE lacked))
    BY <1>4, <1>10, <1>14, <1>15
  <1>17. found = FoundAmong(keys, data) /\ lacked = LackedAmong(keys, data)
    BY DEF lacked, FoundAmong, LackedAmong
  <1> HIDE DEF found
  <1> QED
    BY <1>16, <1>17 DEF keys

\* missing answers with the keys that var lacks, and so does missing_some unless
\* enough of them are there.
THEOREM MissingAgreesWithVar ==
  ASSUME IsInterpreter
  PROVE  LogicSpec => []MissingIsWhatVarLacks
  <1>1. LogicInv => MissingIsWhatVarLacks
    <2> SUFFICES ASSUME LogicInv PROVE MissingIsWhatVarLacks
      OBVIOUS
    <2> DEFINE data == evaluation.data
               Lacked(keys) == Collected(keys, {i \in DOMAIN keys : Lacks(keys[i], data)})
               AreNames(keys) == \A i \in DOMAIN keys : IsString(keys[i]) /\ Content(keys[i]) # <<>>
    <2>1. ASSUME Evaluated("missing"), AreNames(OperandsOf("missing"))
          PROVE  evaluation.status = Ok(JsonArray(Lacked(OperandsOf("missing"))))
      <3>1. \A i \in DOMAIN OperandsOf("missing") : IsName(OperandsOf("missing")[i])
        BY <2>1 DEF IsName
      <3> QED
        BY <2>1, <3>1, OperandsAreList, MissingAnswers DEF Outcome
    <2>2. ASSUME Evaluated("missing_some"), IsOk(evaluation.status),
                 IsNumber(OperandsOf("missing_some")[1]), IsArray(OperandsOf("missing_some")[2]),
                 AreNames(Content(OperandsOf("missing_some")[2]))
          PROVE  LET needed == OperandsOf("missing_some")[1]
                     keys == Content(OperandsOf("missing_some")[2])
                     found == {i \in DOMAIN keys : ~Lacks(keys[i], data)}
                 IN  evaluation.status =
                         Ok(JsonArray(IF Cardinality(found) >= Content(needed).value THEN <<>>
                                      ELSE Lacked(keys)))
      <3> DEFINE operands == OperandsOf("missing_some")
                 logic == evaluation.logic
      <3>1. /\ Applies(logic, "missing_some", operands) /\ IsList(operands)
            /\ \A i \in DOMAIN operands : IsWellFormed(operands[i])
            /\ evaluation.status = Apply(logic, data)
        BY <2>2, OperandsAreList DEF Outcome
      <3>2. \A i \in DOMAIN Content(operands[2]) : IsName(Content(operands[2])[i])
        BY <2>2 DEF IsName
      <3>3. IsNumber(operands[1]) /\ IsArray(operands[2]) /\ IsOk(Apply(logic, data))
        BY <2>2, <3>1
      <3> HIDE DEF operands
      <3>4. Len(operands) = 2
        BY <3>1, <3>3, MissingSomeTakesTwo
      <3>5. 2 \in DOMAIN operands
        BY <3>1, <3>4, ListHas
      <3>6. IsList(Content(operands[2]))
        <4>1. IsWellFormed(operands[2])
          BY <3>1, <3>5
        <4> QED
          BY <3>3, <4>1 DEF IsWellFormed, IsList
      <3> DEFINE keys == Content(operands[2])
                 found == {i \in DOMAIN keys : ~Lacks(keys[i], data)}
      <3>7. Apply(logic, data)
                = Ok(JsonArray(IF Cardinality(FoundAmong(keys, data)) >= Content(operands[1]).value
                               THEN <<>> ELSE LackedAmong(keys, data)))
        BY <3>1, <3>2, <3>3, <3>6, MissingSomeAnswers
      <3>8. found = FoundAmong(keys, data) /\ Lacked(keys) = LackedAmong(keys, data)
        BY DEF FoundAmong, LackedAmong
      <3> HIDE DEF found, Lacked
      <3> QED
        BY <3>1, <3>7, <3>8 DEF operands, found, Lacked, keys
    <2> QED
      BY <2>1, <2>2, Zenon DEF MissingIsWhatVarLacks, Lacks, Outcome
  <1> QED
    BY <1>1, EvaluatedAlways, PTL
================================================================================
