---------------------------- MODULE TargetingOps ----------------------------
(***************************************************************************)
(* The operations that flagd adds to JsonLogic                             *)
(* (providers/flagd/src/evaluator/flagd_ops.cpp): starts_with, ends_with,  *)
(* sem_ver and fractional, on arguments that JsonLogic has evaluated.      *)
(* An evaluated argument of a string operation is a text, a version's text *)
(* (see SemVersion) or a marker; what fractional takes is described there. *)
(* An operation answers with Answer(value) or with Error.                  *)
(*                                                                         *)
(* Fixed-width integers have their width as a parameter, so that small     *)
(* widths show what happens at the limits.                                 *)
(***************************************************************************)
EXTENDS SemVersion

CONSTANTS
    HashCount,     \* 2^32: a hash is below it
    WeightLimit,   \* 2^31: a weight, int32_t, is below it
    StringCalls, VersionCalls, FractionalCalls,   \* arguments to call them with
    Null,         \* the JSON null
    NotAText,     \* an argument that is no string
    Failed,       \* one that JsonLogic could not evaluate
    NotAnArray    \* arguments that are no array

ASSUME WidthAssumption == HashCount \in Nat \ {0} /\ WeightLimit \in Nat \ {0}
ASSUME ArrayAssumption ==
    \A args \in FractionalCalls :
        args.values = NotAnArray \/ args.values \in Seq(Range(args.values))

Error == [ok |-> FALSE, value |-> Null]
Answer(value) == [ok |-> TRUE, value |-> value]

VARIABLES
    call,      \* [op, args] of the last operation
    result     \* its answer

opsVars == <<call, result>>

NoCall == [op |-> "none", args |-> <<>>]
OpsInit == call = NoCall /\ result = Error

-----------------------------------------------------------------------------
(* Operations on strings                                                   *)

\* GetStrings: an array of just so many arguments, each of them a string.
AreStrings(args, size) ==
    /\ args # NotAnArray
    /\ Len(args) = size
    /\ \A i \in 1 .. size : args[i] \notin {NotAText, Failed}

StartsWith(args) ==
    IF AreStrings(args, 2) THEN Answer(IsPrefix(args[2], args[1])) ELSE Error
EndsWith(args) ==
    IF AreStrings(args, 2) THEN Answer(IsSuffix(args[2], args[1])) ELSE Error

-----------------------------------------------------------------------------
(* sem_ver                                                                 *)

\* SemanticVersion::Compare, which does what the hook's SemVer::Compare does.
ComparePrecedence(v, w) == Compare(v, w)

Major == 1
Minor == 2
Patch == 3

\* ^w: nothing changes up to w's first part that is not zero.
SameUpToCaret(v, w) ==
    IF w[Major] > 0 THEN v[Major] = w[Major]
    ELSE IF w[Minor] > 0 THEN v[Major] = 0 /\ v[Minor] = w[Minor]
    ELSE v[Major] = 0 /\ v[Minor] = 0 /\ v[Patch] = w[Patch]
SameUpToTilde(v, w) == v[Major] = w[Major] /\ v[Minor] = w[Minor]

Operators == {"=", "==", "!=", ">", "<", ">=", "<=", "^", "~"}

HoldsStrictly(v, op, w) ==
    LET order == ComparePrecedence(v, w) IN
    CASE op \in {"=", "=="} -> order = 0
      [] op = "!=" -> order # 0
      [] op \in {">", ">="} -> order > 0
      [] op \in {"<", "<="} -> order < 0
      [] op \in {"^", "~"} -> order >= 0 /\ SameUpToTilde(v.core, w.core)

Holds(v, op, w) ==
    LET order == ComparePrecedence(v, w) IN
    CASE op \in {"=", "=="} -> order = 0
      [] op = "!=" -> order # 0
      [] op = ">"  -> order > 0
      [] op = "<"  -> order < 0
      [] op = ">=" -> order >= 0
      [] op = "<=" -> order <= 0
      [] op = "^"  -> order >= 0 /\ SameUpToCaret(v.core, w.core)
      [] op = "~"  -> order >= 0 /\ SameUpToTilde(v.core, w.core)

SemVer(args) ==
    IF /\ AreStrings(args, 3)
       /\ RuleParse(args[1]) # Refused /\ RuleParse(args[3]) # Refused
       /\ args[2] \in Operators
    THEN Answer(Holds(RuleParse(args[1]), args[2], RuleParse(args[3])))
    ELSE Error

-----------------------------------------------------------------------------
(* fractional.  args.values is NotAnArray or a sequence of evaluated        *)
(* elements: Null, Failed, a Scalar, a scalar or object nested too Deep to  *)
(* encode, or a list.  args.targetingKey tells whether the context has one  *)
(* ("missing", "not a string" or "present").                                *)

Scalar == [kind |-> "scalar", variant |-> Null, weight |-> Null]
Deep == [Scalar EXCEPT !.kind = "deep"]
EmptyList == [Scalar EXCEPT !.kind = "empty"]
\* [variant] or [variant, weight]; a weight is an Integer, a Whole or broken
\* floating-point number, or not a number at all; Null if the list has none.
List(variant, weight) == [kind |-> "list", variant |-> variant, weight |-> weight]
Number(kind, n) == [kind |-> kind, n |-> n]

MaxWeight == WeightLimit - 1
MinWeight == -WeightLimit
Wrapped(n) == ((n - MinWeight) % (2 * WeightLimit)) + MinWeight

\* weight_json.get<int32_t>(): an integer is truncated to its low bits; a
\* floating-point number that does not fit is undefined behaviour.
Converted(number) ==
    IF number.kind = "integer" THEN {Wrapped(number.n)}
    ELSE IF number.n \in MinWeight .. MaxWeight THEN {number.n}
    ELSE MinWeight .. MaxWeight

\* The weights an element may be given; none if the element is refused.
Positive(n) == IF n > 0 THEN n ELSE 0
WeightsOf(element) ==
    IF element \in {Null, Failed} \/ element.kind # "list" THEN {}
    ELSE IF element.weight = Null THEN {1}
    ELSE IF element.weight.kind \in {"integer", "whole"}
    THEN {Positive(n) : n \in Converted(element.weight)}
    ELSE {}

\* The weights, added up one after the other.
PartialSums(weights) ==
    LET sum[i \in 0 .. Len(weights)] == IF i = 0 THEN 0 ELSE sum[i - 1] + weights[i]
    IN  sum
SumOf(weights) == PartialSums(weights)[Len(weights)]

\* Whether the first element is a distribution already: then the targeting key
\* is what is hashed.
HashesKey(args) == args.values[1].kind \in {"empty", "list"}
HasBucketingValue(args) ==
    /\ args.values \notin {NotAnArray, <<>>}
    /\ args.values[1] \notin {Null, Failed}
    /\ args.values[1] # Deep
    /\ HashesKey(args) => args.targetingKey = "present"
Distributions(args) == IF HashesKey(args) THEN args.values ELSE Tail(args.values)

\* All the ways to read the weights of all elements.
Weights(elements) ==
    {weights \in [DOMAIN elements -> 0 .. MaxWeight] :
        \A i \in DOMAIN elements : weights[i] \in WeightsOf(elements[i])}

IsDistributable(weights) == SumOf(weights) \in 1 .. MaxWeight

Hashes == 0 .. HashCount - 1
Bucket(hash, weights) == (hash * SumOf(weights)) \div HashCount

RangeEndOfOne(weights, i) == weights[i]
RangeEnd(weights, i) == PartialSums(weights)[i]

CandidatesAtTheEdge(hash, weights) ==
    {i \in DOMAIN weights : Bucket(hash, weights) <= RangeEnd(weights, i)}

\* The distributions whose range ends behind the bucket; the first is chosen.
Candidates(hash, weights) ==
    {i \in DOMAIN weights : Bucket(hash, weights) < RangeEnd(weights, i)}

Chosen(hash, weights) ==
    IF Candidates(hash, weights) = {} THEN 0 ELSE Min(Candidates(hash, weights))

\* The answer for one value of the hash and one reading of the weights.
Fractional(args, hash, weights) ==
    IF IsDistributable(weights) /\ Chosen(hash, weights) # 0
    THEN Answer(Distributions(args)[Chosen(hash, weights)].variant)
    ELSE Error

-----------------------------------------------------------------------------
Called(op, args) == [op |-> op, args |-> args, hash |-> 0, weights |-> <<>>]

CallString(args) ==
    \/ call' = Called("starts_with", args) /\ result' = StartsWith(args)
    \/ call' = Called("ends_with", args) /\ result' = EndsWith(args)

CallSemVer(args) == call' = Called("sem_ver", args) /\ result' = SemVer(args)

\* The hash is the murmur hash of the encoded bucketing value: any number.
CallFractional(args) ==
    IF HasBucketingValue(args) /\ Weights(Distributions(args)) # {}
    THEN \E hash \in Hashes, weights \in Weights(Distributions(args)) :
            /\ call' = [Called("fractional", args) EXCEPT !.hash = hash, !.weights = weights]
            /\ result' = Fractional(args, hash, weights)
    ELSE call' = Called("fractional", args) /\ result' = Error

OpsNext ==
    \/ \E args \in StringCalls : CallString(args)
    \/ \E args \in VersionCalls : CallSemVer(args)
    \/ \E args \in FractionalCalls : CallFractional(args)

OpsSpec == OpsInit /\ [][OpsNext]_opsVars

-----------------------------------------------------------------------------
(* Properties                                                              *)

HasWeights == call.op = "fractional" /\ IsDistributable(call.weights)
Takers(i, weights) == {h \in Hashes : i = Chosen(h, weights)}

\* Every hash is given a variant, and a variant's share of the hashes is its
\* share of the weights, to within one hash.
SharesFollowWeights ==
    HasWeights =>
        /\ result.ok
        /\ \A i \in DOMAIN call.weights :
              LET share == Cardinality(Takers(i, call.weights)) * SumOf(call.weights)
                  due == call.weights[i] * HashCount
              IN  share - due \in -SumOf(call.weights) .. SumOf(call.weights)

\* Moving one unit of weight between neighbours moves users only from the one
\* that loses it to the one that gains it; all others keep their variant.
RampKeepsUsers ==
    HasWeights =>
        \A i, j \in DOMAIN call.weights :
            (i - j) \in {-1, 1} /\ call.weights[i] > 0 =>
                LET moved == [call.weights EXCEPT ![i] = @ - 1, ![j] = @ + 1]
                    before == Chosen(call.hash, call.weights)
                    after == Chosen(call.hash, moved)
                IN  after = before \/ (before = i /\ after = j)
=============================================================================
