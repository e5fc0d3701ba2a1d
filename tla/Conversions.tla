------------------------------ MODULE Conversions ------------------------------
(***************************************************************************)
(* The values that pass between an application, JsonLogic and the hash of  *)
(* fractional: the conversions of evaluator.cpp (ContextToJson,            *)
(* ValueToJson, JsonToValue) and the encoding of what fractional hashes    *)
(* (EncodeJson, flagd_ops.cpp).                                            *)
(*                                                                         *)
(* An attribute of an evaluation context is [type, value]: the C++ type it *)
(* has in its std::any, and its value as JSON.  An openfeature::Value is    *)
(* one of these values too, with numbers that are an int64_t or a double.  *)
(* An encoding is the sequence of its CBOR data items.                     *)
(*                                                                         *)
(* As in JsonLogic, what calls itself on the parts of a value is a          *)
(* parameter, and what one call does is an operator of its own.            *)
(***************************************************************************)
EXTENDS JsonLogic

CONSTANTS
    JsonToValue(_),       \* the conversions of a value with all its parts,
    ValueToJson(_),
    EncodeJson(_),        \* its encoding,
    Meaning(_),           \* what it says, for the properties below,
    FitsThroughout(_),    \* and whether its integers fit an int64_t
    EvaluationContexts,   \* [targetingKey, attributes]; targetingKey may be
    NoTargetingKey,       \* this, and attributes is a function from names
    FlagKeys,             \* the flags to evaluate,
    Variants,             \* what they may be evaluated to, as JSON,
    Times,                \* and when, by the system's clock
    Nesting               \* how deep each of the values is nested, and each of their parts

VARIABLE conversion   \* the last context converted, and what came of it

\* Keys are texts of known length, so that they can be sorted.
ASSUME KeysAssumption == \A key \in Range(KeyOrder) : key \in Seq(Range(key))

\* Every value is made of finitely many, which are its parts and theirs.
Kinds == {"null", "boolean", "number", "string", "array", "object"}
ASSUME NestingAssumption ==
    \A value \in DOMAIN Nesting :
        /\ Nesting[value] \in Nat /\ IsWellFormed(value) /\ KindOf(value) \in Kinds
        /\ KindOf(value) = "object" => DOMAIN Content(value) \subseteq Range(KeyOrder)
        /\ ~IsPrimitive(value) =>
              \A k \in DOMAIN Content(value) :
                  /\ Content(value)[k] \in DOMAIN Nesting
                  /\ Nesting[Content(value)[k]] < Nesting[value]

-----------------------------------------------------------------------------
(* openfeature::Value and JSON                                             *)

\* get<int64_t>() takes the bits of an unsigned number.
JsonToValueOnce(json) ==
    IF IsPrimitive(json)
    THEN IF IsInteger(json) THEN JsonNumber(Signed(AsInt64(json))) ELSE json
    ELSE <<KindOf(json), [k \in DOMAIN Content(json) |-> JsonToValue(Content(json)[k])]>>

\* AsInt cuts a double off; it has no value for one that is out of range.
Truncated(x) == IF x < 0 THEN -((-x) \div Resolution) ELSE x \div Resolution
AsInt(number) == IF IsFloat(number) THEN Truncated(number.value) ELSE number.value

\* Rounding keeps a number that is a double, cutting off makes none that is
\* not one, and 2^64 - 1 is rounded up.
ASSUME WholeDoublesAssumption ==
    /\ \A n \in IntegerValues :
          n * Resolution \in DoubleValues => Rounded(n * Resolution, 1) = n * Resolution
    /\ \A x \in DoubleValues : Truncated(x) * Resolution \in DoubleValues
    /\ Rounded((2 * SignBit - 1) * Resolution, 1) > (2 * SignBit - 1) * Resolution

NumberToJson(number) ==
    IF AsInt(number) \in SignedValues
       /\ AsDouble(Signed(AsInt(number))) = AsDouble(number)
    THEN JsonNumber(Signed(AsInt(number)))
    ELSE JsonNumber(Double(AsDouble(number)))

ValueToJsonOnce(value) ==
    IF IsNumber(value) THEN NumberToJson(Content(value))
    ELSE IF IsPrimitive(value) THEN value
    ELSE <<KindOf(value), [k \in DOMAIN Content(value) |-> ValueToJson(Content(value)[k])]>>

-----------------------------------------------------------------------------
(* The evaluation context                                                  *)

ConvertedTypes ==
    {"string", "int64_t", "uint64_t", "int", "double", "bool", "Value", "json"}

AttributeToJson(attribute) ==
    IF attribute.type = "Value" THEN ValueToJson(attribute.value) ELSE attribute.value

\* The members of an object that replace those of another.
Overlaid(members, below) ==
    [name \in DOMAIN members \cup DOMAIN below |->
        IF name \in DOMAIN members THEN members[name] ELSE below[name]]
Only(name, value) == [key \in {name} |-> value]

\* Attributes of other types are left out, and one with the name of the
\* targeting key takes its place.
ContextToJson(ctx) ==
    LET names == {name \in DOMAIN ctx.attributes :
                      ctx.attributes[name].type \in ConvertedTypes}
        attributes == [name \in names |-> AttributeToJson(ctx.attributes[name])]
    IN  IF ctx.targetingKey = NoTargetingKey THEN JsonObject(attributes)
        ELSE JsonObject(Overlaid(attributes, Only(<<"targetingKey">>, JsonString(ctx.targetingKey))))

\* What targeting rules are applied to, whatever attributes say of $flagd.
Injected(flagKey, time) ==
    JsonObject(Overlaid(Only(<<"flagKey">>, JsonString(flagKey)),
                        Only(<<"timestamp">>, JsonNumber(Signed(time)))))
WithFlagd(data, flagKey, time) ==
    JsonObject(Overlaid(Only(<<"$flagd">>, Injected(flagKey, time)), Content(data)))

-----------------------------------------------------------------------------
(* What fractional hashes                                                  *)

\* CompareCborKeys.  Keys to encode are spelled in single characters.
PlaceOf(key) == CHOOSE i \in DOMAIN KeyOrder : KeyOrder[i] = key
CompareCborKeys(l, r) ==
    IF Len(l) # Len(r) THEN Len(l) < Len(r) ELSE PlaceOf(l) < PlaceOf(r)

SortedKeys(names) ==
    CHOOSE keys \in [1 .. Cardinality(names) -> names] :
        \A i, j \in DOMAIN keys : i < j => CompareCborKeys(keys[i], keys[j])

IsWhole(x) == x % Resolution = 0

\* An encoding that takes whole doubles for integers only within int64_t.
EncodeSignedRange(number) ==
    IF ~IsFloat(number) THEN << <<"integer", number.value>> >>
    ELSE IF IsWhole(number.value) /\ Truncated(number.value) \in SignedValues
    THEN << <<"integer", Truncated(number.value)>> >>
    ELSE << <<"double", number.value>> >>

\* A whole double is encoded as the integer that it is, up to 2^64.
EncodeNumber(number) ==
    IF ~IsFloat(number) THEN << <<"integer", number.value>> >>
    ELSE IF /\ IsWhole(number.value)
            /\ number.value < AsDouble(Unsigned(2 * SignBit - 1))
            /\ number.value >= AsDouble(Signed(-SignBit))
    THEN << <<"integer", Truncated(number.value)>> >>
    ELSE << <<"double", number.value>> >>

\* Maps and arrays begin with their size, and so need no end.
EncodeOnce(data) ==
    IF IsNumber(data) THEN EncodeNumber(Content(data))
    ELSE IF IsPrimitive(data) THEN <<data>>
    ELSE IF IsArray(data)
    THEN << <<"array", Size(data)>> >>
         \o FlattenSeq([i \in DOMAIN Content(data) |-> EncodeJson(Content(data)[i])])
    ELSE LET keys == SortedKeys(DOMAIN Content(data))
         IN  << <<"map", Len(keys)>> >>
             \o FlattenSeq([i \in DOMAIN keys |->
                    <<JsonString(keys[i])>> \o EncodeJson(Content(data)[keys[i]])])

\* The flag's key is "" where the data do not have it as a text.
KeyOfFlag(data) ==
    LET found == GetVariableValue(data, <<"$flagd", ".", "flagKey">>)
    IN  IF IsOk(found) /\ IsString(found.value) THEN found.value ELSE JsonString(<<>>)

\* The value to hash, where first is the first argument of fractional once it
\* is evaluated: a list is a distribution already and leaves the value to the
\* targeting key.
BucketingValue(first, data) ==
    LET key == GetVariableValue(data, <<"targetingKey">>)
    IN  IF ~IsOk(first) THEN first
        ELSE IF first.value = JsonNull THEN Invalid
        ELSE IF ~IsArray(first.value) THEN first
        ELSE IF IsOk(key) /\ IsString(key.value)
        THEN Ok(JsonArray(<<KeyOfFlag(data), key.value>>))
        ELSE Invalid

-----------------------------------------------------------------------------
\* The rule that is fractional's first argument here: the attribute x.
BucketingRule == JsonObject(Only(<<"var">>, JsonString(<<"x">>)))

\* The bytes to hash for a context and a flag; none if fractional fails.
BytesToHash(ctx, flagKey, time) ==
    LET data == WithFlagd(ContextToJson(ctx), flagKey, time)
        bucketing == BucketingValue(Apply(BucketingRule, data), data)
    IN  IF IsOk(bucketing) THEN EncodeJson(bucketing.value) ELSE <<>>

NoConversion == [context |-> NoTargetingKey, flagKey |-> <<>>, bytes |-> <<>>]
ConversionInit == conversion = NoConversion

ConvertContext(ctx, flagKey, time) ==
    conversion' = [context |-> ctx, flagKey |-> flagKey,
                   bytes |-> BytesToHash(ctx, flagKey, time)]

ConversionNext ==
    \E ctx \in EvaluationContexts, flagKey \in FlagKeys, time \in Times :
        ConvertContext(ctx, flagKey, time)

ConversionSpec == ConversionInit /\ [][ConversionNext]_conversion

-----------------------------------------------------------------------------
(* Properties                                                              *)

\* What a value says: a number is what it is, whatever type it has.
MeaningOnce(value) ==
    IF IsNumber(value)
    THEN LET number == Content(value)
         IN  <<"number", IF IsFloat(number) THEN number.value ELSE number.value * Resolution>>
    ELSE IF IsPrimitive(value) THEN value
    ELSE <<KindOf(value), [k \in DOMAIN Content(value) |-> Meaning(Content(value)[k])]>>

FitsOnce(value) ==
    IF IsNumber(value) THEN IsFloat(Content(value)) \/ FitsSigned(Content(value))
    ELSE IsPrimitive(value) \/ \A k \in DOMAIN Content(value) : FitsThroughout(Content(value)[k])

\* An openfeature::Value has no unsigned integers.
ASSUME ContextsAssumption ==
    /\ Variants \subseteq DOMAIN Nesting
    /\ \A ctx \in EvaluationContexts : \A name \in DOMAIN ctx.attributes :
          /\ ctx.attributes[name].value \in DOMAIN Nesting
          /\ ctx.attributes[name].type = "Value" => FitsThroughout(ctx.attributes[name].value)

\* The conversions are those of the code if they do this, for every value.
AreConversions ==
    \A value :
        /\ JsonToValue(value) = JsonToValueOnce(value)
        /\ ValueToJson(value) = ValueToJsonOnce(value)
        /\ EncodeJson(value) = EncodeOnce(value)
        /\ Meaning(value) = MeaningOnce(value)
        /\ FitsThroughout(value) = FitsOnce(value)

\* What tells users apart: the attribute, or the flag and the targeting key.
Identity(ctx, flagKey) ==
    LET x == ctx.attributes[<<"x">>].value
        isReplaced == /\ <<"targetingKey">> \in DOMAIN ctx.attributes
                      /\ ctx.attributes[<<"targetingKey">>].type \in ConvertedTypes
        key == IF isReplaced THEN ctx.attributes[<<"targetingKey">>].value
               ELSE JsonString(ctx.targetingKey)
    IN  IF IsArray(x) THEN JsonArray(<<JsonString(flagKey), key>>) ELSE Meaning(x)

\* Two contexts are hashed alike just if what tells them apart is the same,
\* whatever C++ types an application gives to its numbers, in which order it
\* adds members, what the flag is and what the time; and a value that a flag
\* was evaluated to counts for what the flag's definition says, if its integers
\* fit an int64_t.
BucketsFollowValues ==
    conversion.bytes # <<>> =>
        /\ \A ctx \in EvaluationContexts, flagKey \in FlagKeys, time \in Times :
              LET bytes == BytesToHash(ctx, flagKey, time)
              IN  bytes # <<>> =>
                      (bytes = conversion.bytes <=>
                          Identity(ctx, flagKey) = Identity(conversion.context, conversion.flagKey))
        /\ LET x == conversion.context.attributes[<<"x">>]
           IN  \A variant \in Variants :
                  x = [type |-> "Value", value |-> JsonToValue(variant)] /\ FitsThroughout(variant)
                      => Meaning(AttributeToJson(x)) = Meaning(variant)
=============================================================================
