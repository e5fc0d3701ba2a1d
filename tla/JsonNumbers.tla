------------------------------ MODULE JsonNumbers ------------------------------
(***************************************************************************)
(* Numbers of JsonLogic                                                    *)
(* (providers/flagd/src/evaluator/json_logic/numeric.cpp): the class       *)
(* Number, which is an int64_t, a uint64_t or a double, and the operations *)
(* on a list of numbers that GetNumbers has made of evaluated operands.    *)
(*                                                                         *)
(* The parser makes a literal unsigned unless it is negative or has a      *)
(* fraction; an int or int64_t of the context is signed whatever its sign. *)
(* Integers have their width, and double its values, as parameters.  What  *)
(* signed arithmetic yields when it overflows, which is undefined, is a    *)
(* parameter of every operation.  Doubles are finite: no infinities, no    *)
(* NaN, one zero.                                                          *)
(***************************************************************************)
EXTENDS JsonValues, SequencesExt

CONSTANTS
    SignBit,         \* 2^63: an int64_t is below it, a uint64_t below its double
    Resolution,      \* doubles are given in multiples of one part in Resolution:
    DoubleValues,    \* those that there are, and
    Rounded(_, _),   \* the one next to the fraction of n by d, d > 0
    Operands         \* the lists of numbers to operate on

SignedValues == -SignBit .. SignBit - 1
UnsignedValues == 0 .. 2 * SignBit - 1
IntegerValues == SignedValues \cup UnsignedValues

\* Rounding keeps the order of integers and the sign of a difference.
RoundingAssumption ==
    /\ SignBit \in Nat \ {0} /\ Resolution \in Nat \ {0} /\ DoubleValues \subseteq Int
    /\ \A m, n \in IntegerValues :
          /\ Rounded(n * Resolution, 1) \in DoubleValues
          /\ m <= n => Rounded(m * Resolution, 1) <= Rounded(n * Resolution, 1)
    /\ \A x, y \in DoubleValues :
          /\ Rounded(x - y, 1) \in Int
          /\ x >= y => Rounded(x - y, 1) >= 0
          /\ x <= y => Rounded(x - y, 1) <= 0
ASSUME RoundingAssumption

VARIABLE computed   \* the last operation, its operands and what it returned

Signed(n) == [kind |-> "signed", value |-> n]
Unsigned(n) == [kind |-> "unsigned", value |-> n]
Double(x) == [kind |-> "double", value |-> x]

Numbers == [kind : {"signed"}, value : SignedValues]
           \cup [kind : {"unsigned"}, value : UnsignedValues]
           \cup [kind : {"double"}, value : DoubleValues]

ASSUME OperandsAssumption == \A nums \in Operands : nums \in Seq(Numbers)

\* What the parser makes of an integer.
Literal(n) == JsonNumber(IF n < 0 THEN Signed(n) ELSE Unsigned(n))

IsFloat(number) == number.kind = "double"
AreIntegers(l, r) == ~IsFloat(l) /\ ~IsFloat(r)

\* Conversions of integers to the other signedness and to double.
ToUnsigned(n) == IF n < 0 THEN n + 2 * SignBit ELSE n
ToSigned(n) == IF n < SignBit THEN n ELSE n - 2 * SignBit
AsDouble(number) ==
    IF IsFloat(number) THEN number.value ELSE Rounded(number.value * Resolution, 1)

-----------------------------------------------------------------------------
(* Number                                                                  *)

\* A comparison that leaves the conversions to C++.
LessAsPromoted(l, r) ==
    IF ~AreIntegers(l, r) THEN AsDouble(l) < AsDouble(r)
    ELSE IF l.kind = r.kind THEN l.value < r.value
    ELSE ToUnsigned(l.value) < ToUnsigned(r.value)

Less(l, r) ==
    IF ~AreIntegers(l, r) THEN AsDouble(l) < AsDouble(r)
    ELSE IF l.kind = r.kind THEN l.value < r.value
    ELSE IF l.kind = "signed" THEN l.value < 0 \/ ToUnsigned(l.value) < r.value
    ELSE r.value >= 0 /\ l.value < ToUnsigned(r.value)

Equal(l, r) ==
    IF ~AreIntegers(l, r) THEN AsDouble(l) = AsDouble(r)
    ELSE IF l.kind = r.kind THEN l.value = r.value
    ELSE IF l.kind = "signed" THEN l.value >= 0 /\ ToUnsigned(l.value) = r.value
    ELSE r.value >= 0 /\ l.value = ToUnsigned(r.value)

LessOrEqual(l, r) == Less(l, r) \/ Equal(l, r)

\* What C++ makes of an integer result: unsigned arithmetic is modulo its
\* width, signed arithmetic out of range is undefined.
SignedResult(n, overflow) == Signed(IF n \in SignedValues THEN n ELSE overflow)
Clamped(n) == IF n > 2 * SignBit - 1 THEN 2 * SignBit - 1 ELSE IF n < 0 THEN 0 ELSE n
ClampedResult(l, r, n, overflow) ==
    IF l.kind = "signed" /\ r.kind = "signed" THEN SignedResult(n, overflow)
    ELSE Unsigned(Clamped(n))
PromotedResult(l, r, n, overflow) ==
    IF l.kind = "signed" /\ r.kind = "signed" THEN SignedResult(n, overflow)
    ELSE Unsigned(n % (2 * SignBit))

Add(l, r, overflow) ==
    IF AreIntegers(l, r) THEN PromotedResult(l, r, l.value + r.value, overflow)
    ELSE Double(Rounded(AsDouble(l) + AsDouble(r), 1))

Mul(l, r, overflow) ==
    IF AreIntegers(l, r) THEN PromotedResult(l, r, l.value * r.value, overflow)
    ELSE Double(Rounded(AsDouble(l) * AsDouble(r), Resolution))

\* A difference is signed where both operands are within int64_t's range.
FitsSigned(number) == number.kind = "signed" \/ number.value < SignBit

SubAsPromoted(l, r, overflow) ==
    IF AreIntegers(l, r) THEN PromotedResult(l, r, l.value - r.value, overflow)
    ELSE Double(Rounded(AsDouble(l) - AsDouble(r), 1))

Sub(l, r, overflow) ==
    IF AreIntegers(l, r) /\ FitsSigned(l) /\ FitsSigned(r)
    THEN SignedResult(l.value - r.value, overflow)
    ELSE IF l.kind = "unsigned" /\ r.kind = "unsigned" /\ l.value >= r.value
    THEN Unsigned(l.value - r.value)
    ELSE Double(Rounded(AsDouble(l) - AsDouble(r), 1))

IsZero(number) == AsDouble(number) = 0

\* Division is that of doubles; r is not zero.
AbsoluteValue(n) == IF n < 0 THEN -n ELSE n

Div(l, r) ==
    LET divisor == AsDouble(r)
        dividend == IF divisor < 0 THEN -AsDouble(l) ELSE AsDouble(l)
    IN  Double(Rounded(dividend * Resolution, AbsoluteValue(divisor)))

\* The remainder of C++, which has the sign of the dividend.
Remainder(n, d) ==
    IF n < 0 THEN -((-n) % AbsoluteValue(d)) ELSE n % AbsoluteValue(d)

Mod(l, r) ==
    IF ~AreIntegers(l, r) THEN Double(Remainder(AsDouble(l), AsDouble(r)))
    ELSE IF l.kind = "signed" /\ r.kind = "signed"
    THEN Signed(Remainder(l.value, r.value))
    ELSE Unsigned(ToUnsigned(l.value) % ToUnsigned(r.value))

-----------------------------------------------------------------------------
(* The operations, on a list of numbers                                    *)

\* GetNumbers: nothing for null, and a number stands for a list of one.
AreNumbers(value) ==
    \/ value = JsonNull \/ IsNumber(value)
    \/ IsArray(value) /\ \A i \in 1 .. Size(value) : IsNumber(Content(value)[i])
NumbersIn(value) ==
    IF value = JsonNull THEN <<>>
    ELSE IF IsNumber(value) THEN <<Content(value)>>
    ELSE [i \in 1 .. Size(value) |-> Content(Content(value)[i])]

\* std::min_element and std::max_element go through the list once.
PrecedesAsPromoted(op, m, n) == IF op = <<"min">> THEN Less(m, n) ELSE LessAsPromoted(n, m)
Precedes(op, m, n) == IF op = <<"min">> THEN Less(m, n) ELSE Less(n, m)
ExtremeElement(op, nums) ==
    FoldLeft(LAMBDA found, n : IF Precedes(op, n, found) THEN n ELSE found, Head(nums), Tail(nums))

Extreme(op, nums) ==
    Ok(IF nums = <<>> THEN JsonNull ELSE JsonNumber(ExtremeElement(op, nums)))

\* std::accumulate, with Number::Add or Number::Mul.
Combine(op, l, r, overflow) == IF op = <<"+">> THEN Add(l, r, overflow) ELSE Mul(l, r, overflow)
Accumulate(op, nums, overflow) ==
    IF nums = <<>> THEN Signed(IF op = <<"+">> THEN 0 ELSE 1)
    ELSE FoldLeft(LAMBDA l, r : Combine(op, l, r, overflow), Head(nums), Tail(nums))

Subtract(nums, overflow) ==
    CASE Len(nums) = 1 -> Ok(JsonNumber(Sub(Signed(0), nums[1], overflow)))
      [] Len(nums) = 2 -> Ok(JsonNumber(Sub(nums[1], nums[2], overflow)))
      [] OTHER -> Invalid

DivideOrModulo(op, nums) ==
    IF Len(nums) # 2 \/ IsZero(nums[2]) THEN Invalid
    ELSE Ok(JsonNumber(IF op = <<"/">> THEN Div(nums[1], nums[2]) ELSE Mod(nums[1], nums[2])))

Related(op, l, r) ==
    CASE op = <<"<">>  -> Less(l, r)
      [] op = <<"<=">> -> LessOrEqual(l, r)
      [] op = <<">">>  -> Less(r, l)
      [] op = <<">=">> -> Less(r, l) \/ Equal(l, r)

\* Only < and <= take a third operand, with which they say "between".
CompareInOrder(op, nums) ==
    IF Len(nums) = 2 \/ (Len(nums) = 3 /\ op \in {<<"<">>, <<"<=">>})
    THEN Ok(JsonBool(\A i \in 1 .. Len(nums) - 1 : Related(op, nums[i], nums[i + 1])))
    ELSE Invalid

Extremes == {<<"min">>, <<"max">>}
Comparisons == {<<"<">>, <<"<=">>, <<">">>, <<">=">>}
Accumulations == {<<"+">>, <<"*">>}
NumericOperations ==
    Extremes \cup Comparisons \cup Accumulations \cup {<<"-">>, <<"/">>, <<"%">>}

NumericOperation(op, nums, overflow) ==
    CASE op \in Extremes -> Extreme(op, nums)
      [] op \in Comparisons -> CompareInOrder(op, nums)
      [] op \in Accumulations -> Ok(JsonNumber(Accumulate(op, nums, overflow)))
      [] op = <<"-">> -> Subtract(nums, overflow)
      [] op \in {<<"/">>, <<"%">>} -> DivideOrModulo(op, nums)

NothingComputed == [op |-> <<"none">>, numbers |-> <<>>, status |-> Invalid]
NumbersInit == computed = NothingComputed

Compute(op, nums) ==
    \E overflow \in SignedValues :
        computed' = [op |-> op, numbers |-> nums, status |-> NumericOperation(op, nums, overflow)]

NumbersNext == \E op \in NumericOperations, nums \in Operands : Compute(op, nums)

NumbersSpec == NumbersInit /\ [][NumbersNext]_computed

-----------------------------------------------------------------------------
(* Properties                                                              *)

\* Numbers of all kinds are in one order: of what is in order all that follows
\* is, nothing comes before itself, and a comparison fails just if the
\* opposite one holds.  (That two numbers are equal is not handed on: two
\* integers may be equal to the same double.)
NumbersAreOrdered ==
    \A i, j, k \in DOMAIN computed.numbers :
        LET a == computed.numbers[i]
            b == computed.numbers[j]
            c == computed.numbers[k]
        IN  /\ Less(a, b) /\ Less(b, c) => Less(a, c)
            /\ Less(a, b) => ~Less(b, a)
            /\ LessOrEqual(a, b) <=> ~Less(b, a)

\* min is an operand that none comes before, and max one that comes before
\* none, although the algorithms of the standard library ask for an order in
\* which equality is handed on.
ExtremesBound ==
    computed.op \in Extremes /\ computed.numbers # <<>> =>
        LET extreme == Content(computed.status.value)
            others == Range(computed.numbers)
        IN  /\ extreme \in others
            /\ \A n \in others :
                  IF computed.op = <<"min">> THEN ~Less(n, extreme) ELSE ~Less(extreme, n)

AllIntegers == \A i \in DOMAIN computed.numbers : ~IsFloat(computed.numbers[i])

\* What the sum or product of the first n of some numbers is among all integers.
Exact(op, nums) ==
    LET exact[n \in 1 .. Len(nums)] ==
            IF n = 1 THEN nums[1].value
            ELSE IF op = <<"+">> THEN exact[n - 1] + nums[n].value
            ELSE exact[n - 1] * nums[n].value
    IN  exact

\* Sums and products of integers are right modulo the width, in whatever order
\* and of whatever signedness the operands come, as long as no partial result
\* of signed operands alone overflows.
IntegersAreModular ==
    computed.op \in Accumulations /\ computed.numbers # <<>> /\ AllIntegers =>
        LET nums == computed.numbers
            exact == Exact(computed.op, nums)
            Defined(n) == \/ \E i \in 1 .. n : nums[i].kind = "unsigned"
                          \/ exact[n] \in SignedValues
        IN  (\A n \in DOMAIN nums : Defined(n)) =>
                (Content(computed.status.value).value - exact[Len(nums)]) % (2 * SignBit) = 0

\* The sign of a difference never contradicts the order of its operands,
\* whichever of its ways Sub takes, unless the difference overflows.
DifferencesFollowOrder ==
    computed.op = <<"-">> /\ Len(computed.numbers) = 2 =>
        LET l == computed.numbers[1]
            r == computed.numbers[2]
            difference == Content(computed.status.value).value
            isSigned == AreIntegers(l, r) /\ FitsSigned(l) /\ FitsSigned(r)
        IN  ~isSigned \/ l.value - r.value \in SignedValues =>
                /\ difference < 0 => Less(l, r)
                /\ difference > 0 => Less(r, l)
=============================================================================
