------------------------------ MODULE JsonLogic ------------------------------
(***************************************************************************)
(* The JsonLogic interpreter (providers/flagd/src/evaluator/json_logic):   *)
(* Apply and the operations on logic, data, arrays and strings.            *)
(*                                                                         *)
(* Values are described in JsonValues, numbers in JsonNumbers.  The         *)
(* operations of flagd (see TargetingOps) are operations a rule here does   *)
(* not use.                                                                *)
(*                                                                         *)
(* Apply and JsonEqual call themselves on what a value contains.  Here they *)
(* are parameters, and ApplyOnce and EqualOnce say what one call does; an   *)
(* instance defines each recursively to be that.                           *)
(***************************************************************************)
EXTENDS JsonNumbers

CONSTANTS
    Apply(_, _),       \* what a rule evaluates to on some data
    JsonEqual(_, _),   \* whether two values are equal
    Rules,             \* the rules to apply,
    Substitutes,       \* what may replace one of their operands,
    Contexts,          \* and the data to apply them to
    KeyOrder,          \* all keys of objects, in the order of a std::map
    Overflowed,        \* what a signed operation of a rule yields if it overflows
    IntSignBit         \* 2^31: an int is below it

ASSUME OverflowAssumption == Overflowed \in SignedValues
ASSUME IntAssumption == IntSignBit \in 1 .. SignBit

\* Every value but null is of a kind and has a content; that of an array or of a
\* text is a sequence, that of a number one of those that there are.
IsWellFormed(value) ==
    /\ value = JsonNull \/ value = <<KindOf(value), Content(value)>>
    /\ IsArray(value) \/ IsString(value) => Content(value) \in Seq(Range(Content(value)))
    /\ IsNumber(value) => Content(value) \in Numbers

ASSUME RulesAssumption ==
    \A logic \in Rules : KindOf(logic) = "object" =>
        \A key \in DOMAIN Content(logic) :
            LET values == Content(logic)[key]
            IN  /\ IsWellFormed(values)
                /\ IsArray(values) =>
                      \A i \in DOMAIN Content(values) : IsWellFormed(Content(values)[i])

ASSUME KeyOrderAssumption ==
    /\ KeyOrder \in Seq(Range(KeyOrder))
    /\ \A name \in {"!", "and", "cat", "if", "missing", "missing_some", "or", "substr", "var",
                    "<", "<=", ">", ">="} : <<name>> \in Range(KeyOrder)

VARIABLE evaluation   \* the last rule, its data and what Apply returned

Truthy(value) ==
    CASE KindOf(value) = "null" -> FALSE
      [] KindOf(value) = "boolean" -> Content(value)
      [] KindOf(value) = "number" -> Content(value).value # 0
      [] KindOf(value) \in {"string", "array"} -> Content(value) # <<>>
      [] KindOf(value) = "object" -> TRUE

IsTruthy(status) == IsOk(status) /\ Truthy(status.value)

\* The library's ==, which unlike Number's takes an unsigned integer for a
\* signed one to compare the two.
NumbersEqual(l, r) ==
    IF ~AreIntegers(l, r) THEN AsDouble(l) = AsDouble(r)
    ELSE IF l.kind = r.kind THEN l.value = r.value
    ELSE ToSigned(l.value) = ToSigned(r.value)

EqualOnce(l, r) ==
    IF IsNumber(l) /\ IsNumber(r) THEN NumbersEqual(Content(l), Content(r))
    ELSE /\ KindOf(l) = KindOf(r)
         /\ IF IsPrimitive(l) THEN l = r
            ELSE /\ DOMAIN Content(l) = DOMAIN Content(r)
                 /\ \A k \in DOMAIN Content(l) : JsonEqual(Content(l)[k], Content(r)[k])

\* Apply on each of a sequence of values.
EachApplied(values, data) == [i \in DOMAIN values |-> Apply(values[i], data)]
Failures(statuses) == {i \in DOMAIN statuses : ~IsOk(statuses[i])}
Values(statuses) == [i \in DOMAIN statuses |-> statuses[i].value]

-----------------------------------------------------------------------------
(* logic.cpp                                                               *)

\* A single operand may stand for an array of one.
Sugared(values) == IF IsArray(values) THEN Content(values) ELSE <<values>>

\* The status at which evaluation stops, or that of the last operand.
FirstOrLast(statuses, stops) == statuses[Min(stops \cup {Len(statuses)})]

\* An And that passes over operands that fail.
AndOfWhatWorks(values, data) ==
    LET each == EachApplied(Sugared(values), data)
    IN  IF each = <<>> THEN Invalid
        ELSE FirstOrLast(each, {i \in DOMAIN each : IsOk(each[i]) /\ ~IsTruthy(each[i])})

And(values, data) ==
    LET each == EachApplied(Sugared(values), data)
    IN  IF each = <<>> THEN Invalid
        ELSE FirstOrLast(each, {i \in DOMAIN each : ~IsTruthy(each[i])})

Or(values, data) ==
    LET each == EachApplied(Sugared(values), data)
    IN  IF each = <<>> THEN Invalid
        ELSE FirstOrLast(each, {i \in DOMAIN each : ~IsOk(each[i]) \/ IsTruthy(each[i])})

\* GetBool, for ! and !!: an array of more than one operand is refused.
GetBool(values, data) ==
    IF IsArray(values) /\ Size(values) > 1 THEN Invalid
    ELSE LET operand == IF IsArray(values) /\ Size(values) = 1 THEN Content(values)[1] ELSE values
             status == Apply(operand, data)
         IN  IF IsOk(status) THEN Ok(JsonBool(Truthy(status.value))) ELSE status

Not(values, data) ==
    LET status == GetBool(values, data)
    IN  IF IsOk(status) THEN Ok(JsonBool(~Content(status.value))) ELSE status

DoubleNegation(values, data) == GetBool(values, data)

\* The places of the conditions among the operands of if.
EveryOperand(operands) == 1 .. Len(operands) - 1
Conditions(operands) == {i \in 1 .. Len(operands) - 1 : i % 2 = 1}

If(values, data) ==
    LET operands == Content(values)
        each == EachApplied(operands, data)
        stops == {i \in Conditions(operands) : ~IsOk(each[i]) \/ IsTruthy(each[i])}
    IN  IF ~IsArray(values) \/ operands = <<>> THEN Invalid
        ELSE IF stops # {}
        THEN IF IsOk(each[Min(stops)]) THEN each[Min(stops) + 1] ELSE each[Min(stops)]
        ELSE IF Len(operands) % 2 = 1 THEN Last(each) ELSE Invalid

\* Both operands of an operation that takes exactly two.
IsPair(values) == IsArray(values) /\ Size(values) = 2

StrictEquals(values, data) ==
    LET each == EachApplied(Content(values), data)
    IN  IF ~IsPair(values) \/ Failures(each) # {} THEN Invalid
        ELSE Ok(JsonBool(JsonEqual(each[1].value, each[2].value)))

StrictNotEquals(values, data) ==
    LET equals == StrictEquals(values, data)
    IN  IF IsOk(equals) THEN Ok(JsonBool(~Content(equals.value))) ELSE equals

-----------------------------------------------------------------------------
(* data.cpp                                                                *)

\* CreateJsonPointer: a key is split at its dots, and at slashes, which
\* separate the steps of a pointer.  Keys here hold no tilde.
Separators == {".", "/"}
Extended(steps, token) ==
    IF token \in Separators THEN Append(steps, <<>>)
    ELSE [steps EXCEPT ![Len(steps)] = Append(@, token)]
CreateJsonPointer(key) == FoldLeft(Extended, << <<>> >>, key)

\* The place of a step in an array; arrays here have at most three elements.
ArrayIndex(step) ==
    IF step \in {<<"0">>, <<"1">>, <<"2">>}
    THEN CHOOSE i \in 1 .. 3 : step = << <<"0", "1", "2">>[i] >>
    ELSE 0

\* What a step leads to from where the steps before it led.
Member(status, step) ==
    IF ~IsOk(status) THEN Invalid
    ELSE IF KindOf(status.value) = "object" /\ step \in DOMAIN Content(status.value)
    THEN Ok(Content(status.value)[step])
    ELSE IF IsArray(status.value) /\ ArrayIndex(step) \in 1 .. Size(status.value)
    THEN Ok(Content(status.value)[ArrayIndex(step)])
    ELSE Invalid

GetVariableValue(data, key) == FoldLeft(Member, Ok(data), CreateJsonPointer(key))

\* var: the key of an array is a rule, a key by itself is not.
KeyObject(values, data) ==
    IF ~IsArray(values) THEN Ok(values)
    ELSE IF Size(values) = 0 THEN Ok(JsonNull)
    ELSE Apply(Content(values)[1], data)

Var(values, data) ==
    LET key == KeyObject(values, data)
        found == GetVariableValue(data, Content(key.value))
    IN  IF ~IsOk(key) \/ (IsArray(values) /\ Size(values) > 2) THEN Invalid
        ELSE IF key.value \in {JsonNull, JsonString(<<>>)} THEN Ok(data)
        ELSE IF ~IsString(key.value) THEN Invalid
        ELSE IF IsOk(found) THEN found
        ELSE IF IsArray(values) /\ Size(values) = 2 THEN Apply(Content(values)[2], data)
        ELSE Ok(JsonNull)

\* What stands at some places of a sequence, collected one after the other.
Collected(seq, places) ==
    LET collected[i \in 0 .. Len(seq)] ==
            IF i = 0 THEN <<>>
            ELSE IF i \in places THEN Append(collected[i - 1], seq[i])
            ELSE collected[i - 1]
    IN  collected[Len(seq)]

\* The keys among some values that lead nowhere.
Lacking(keys, data) ==
    Collected(keys, {i \in DOMAIN keys : ~IsOk(GetVariableValue(data, Content(keys[i])))})

\* A missing that takes a null for a missing value.
MissingOrNull(values, data) ==
    LET args == Apply(values, data)
        keys == Sugared(args.value)
        Found(key) == GetVariableValue(data, Content(key)) \notin {Invalid, Ok(JsonNull)}
    IN  IF ~IsOk(args) \/ \E i \in DOMAIN keys : ~IsString(keys[i]) THEN Invalid
        ELSE Ok(JsonArray(Collected(keys, {i \in DOMAIN keys : ~Found(keys[i])})))

Missing(values, data) ==
    LET args == Apply(values, data)
        keys == Sugared(args.value)
    IN  IF ~IsOk(args) \/ \E i \in DOMAIN keys : ~IsString(keys[i]) THEN Invalid
        ELSE Ok(JsonArray(Lacking(keys, data)))

\* missing_some: the keys, evaluated already, go through Missing, which
\* evaluates them again.
MissingSome(values, data) ==
    LET each == EachApplied(Content(values), data)
        needed == each[1].value
        keys == each[2].value
        missing == Missing(keys, data)
    IN  IF ~IsPair(values) \/ Failures(each) # {} THEN Invalid
        ELSE IF ~IsNumber(needed) \/ Content(needed).kind # "unsigned" THEN Invalid
        ELSE IF ~IsArray(keys) \/ ~IsOk(missing) THEN Invalid
        ELSE IF Size(keys) - Size(missing.value) >= Content(needed).value
        THEN Ok(JsonArray(<<>>))
        ELSE missing

-----------------------------------------------------------------------------
(* array.cpp, string_ops.cpp                                               *)

\* merge flattens one level.
Merge(values, data) ==
    LET args == Apply(values, data)
    IN  IF ~IsOk(args) THEN args
        ELSE IF ~IsArray(args.value) THEN Ok(JsonArray(<<args.value>>))
        ELSE Ok(JsonArray(FlattenSeq([i \in DOMAIN Content(args.value) |->
                                          Sugared(Content(args.value)[i])])))

AreTexts(values) == \A i \in DOMAIN values : IsString(values[i])
Contents(values) == [i \in DOMAIN values |-> Content(values[i])]

Cat(values, data) ==
    LET args == Apply(values, data)
    IN  IF ~IsOk(args) \/ IsString(args.value) \/ KindOf(args.value) = "object" THEN args
        ELSE IF IsArray(args.value) /\ AreTexts(Content(args.value))
        THEN Ok(JsonString(FlattenSeq(Contents(Content(args.value)))))
        ELSE Invalid

\* Where a substring starts, an int64_t, and how long it is, an int, which keeps
\* the low bits of a number; a negative one counts from the end of the text.
IsInteger(value) == IsNumber(value) /\ ~IsFloat(Content(value))
AsInt64(value) == ToSigned(Content(value).value)
FitsInt(n) == n \in -IntSignBit .. IntSignBit - 1
ToInt32(n) == ((n + IntSignBit) % (2 * IntSignBit)) - IntSignBit
AsInt32(value) == ToInt32(AsInt64(value))
Start(text, start) == IF start < 0 THEN Max({Len(text) + start, 0}) ELSE start
Length(text, from, length) ==
    IF length < 0 THEN ToInt32(Len(text) - from + length) ELSE length

Substr(values, data) ==
    LET args == Apply(values, data)
        list == Content(args.value)
        text == Content(list[1])
        from == IF Len(list) > 1 THEN Start(text, AsInt64(list[2])) ELSE 0
        length == IF Len(list) > 2 THEN Length(text, from, AsInt32(list[3])) ELSE Len(text)
    IN  IF ~IsOk(args) \/ ~IsArray(args.value) \/ list = <<>> \/ ~IsString(list[1]) THEN Invalid
        ELSE IF Len(list) > 1 /\ ~IsInteger(list[2]) THEN Invalid
        ELSE IF from >= Len(text) THEN Ok(JsonString(<<>>))
        ELSE IF Len(list) > 2 /\ ~IsInteger(list[3]) THEN Invalid
        ELSE Ok(JsonString(SubSeq(text, from + 1, Min({from + length, Len(text)}))))

IsSubstring(part, whole) ==
    \E from \in 0 .. Len(whole) - Len(part) : SubSeq(whole, from + 1, from + Len(part)) = part

In(values, data) ==
    LET each == EachApplied(Content(values), data)
        item == each[1].value
        container == each[2].value
    IN  IF ~IsPair(values) \/ Failures(each) # {} THEN Invalid
        ELSE IF IsString(container) /\ IsString(item)
        THEN Ok(JsonBool(IsSubstring(Content(item), Content(container))))
        ELSE IF IsArray(container)
        THEN Ok(JsonBool(\E i \in DOMAIN Content(container) : JsonEqual(Content(container)[i], item)))
        ELSE Invalid

-----------------------------------------------------------------------------
(* numeric.cpp: the operands, once evaluated, go to JsonNumbers            *)

Numeric(operation, values, data) ==
    LET args == Apply(values, data)
    IN  IF ~IsOk(args) THEN args
        ELSE IF ~AreNumbers(args.value) THEN Invalid
        ELSE NumericOperation(operation, NumbersIn(args.value), Overflowed)

-----------------------------------------------------------------------------
(* json_logic.cpp                                                          *)

\* The table of operations.
ApplyOp(operation, values, data) ==
    CASE operation = <<"var">> -> Var(values, data)
      [] operation = <<"missing">> -> Missing(values, data)
      [] operation = <<"missing_some">> -> MissingSome(values, data)
      [] operation = <<"and">> -> And(values, data)
      [] operation = <<"or">> -> Or(values, data)
      [] operation = <<"!">> -> Not(values, data)
      [] operation = <<"!!">> -> DoubleNegation(values, data)
      [] operation \in {<<"if">>, <<"?:">>} -> If(values, data)
      [] operation \in {<<"==">>, <<"===">>} -> StrictEquals(values, data)
      [] operation \in {<<"!=">>, <<"!==">>} -> StrictNotEquals(values, data)
      [] operation = <<"cat">> -> Cat(values, data)
      [] operation = <<"substr">> -> Substr(values, data)
      [] operation = <<"in">> -> In(values, data)
      [] operation = <<"merge">> -> Merge(values, data)
      [] operation \in NumericOperations -> Numeric(operation, values, data)
      [] OTHER -> NotFound

\* An object's first key names the operation, whatever other keys it has.
FirstKey(members) ==
    KeyOrder[Min({i \in DOMAIN KeyOrder : KeyOrder[i] \in DOMAIN members})]

\* An object that is no operation stands for itself.
ApplyOnce(logic, data) ==
    IF IsPrimitive(logic) \/ Content(logic) = <<>> THEN Ok(logic)
    ELSE IF IsArray(logic)
    THEN LET each == EachApplied(Content(logic), data)
         IN  IF Failures(each) # {} THEN each[Min(Failures(each))]
             ELSE Ok(JsonArray(Values(each)))
    ELSE LET operation == FirstKey(Content(logic))
             status == ApplyOp(operation, Content(logic)[operation], data)
         IN  IF status = NotFound THEN Ok(logic) ELSE status

\* Apply is the interpreter if it does this, for every rule.  It answers that an
\* operation is unknown for none.
IsInterpreter ==
    \A logic, data :
        Apply(logic, data) = ApplyOnce(logic, data) /\ Apply(logic, data) # NotFound

NoEvaluation == [logic |-> JsonNull, data |-> JsonNull, status |-> Ok(JsonNull)]
LogicInit == evaluation = NoEvaluation

Evaluate(logic, data) ==
    evaluation' = [logic |-> logic, data |-> data, status |-> Apply(logic, data)]

LogicNext == \E logic \in Rules, data \in Contexts : Evaluate(logic, data)

LogicSpec == LogicInit /\ [][LogicNext]_evaluation

-----------------------------------------------------------------------------
(* Properties                                                              *)

\* The operation that was evaluated last, and how it ends on other rules.
Op(name, operands) == JsonObject([key \in {<<name>>} |-> JsonArray(operands)])
Evaluated(name) ==
    /\ KindOf(evaluation.logic) = "object"
    /\ <<name>> \in DOMAIN Content(evaluation.logic)
    /\ FirstKey(Content(evaluation.logic)) = <<name>>
    /\ IsArray(Content(evaluation.logic)[<<name>>])
OperandsOf(name) == Content(Content(evaluation.logic)[<<name>>])
Outcome(logic) == Apply(logic, evaluation.data)

\* An operand that and, or and if do not reach does not count: where they get
\* by without an operand that fails, no value of that operand changes anything.
OnlyReachedOperandsCount ==
    \A name \in {"and", "or", "if"} :
        Evaluated(name) =>
            \A i \in DOMAIN OperandsOf(name) :
                LET With(operand) == Outcome(Op(name, [OperandsOf(name) EXCEPT ![i] = operand]))
                IN  \A failing \in Substitutes :
                        ~IsOk(Outcome(failing)) /\ IsOk(With(failing)) =>
                            \A operand \in Substitutes : With(operand) = With(failing)

\* Numbers that operands evaluate to are among those that there are.
AreFinite(operands) ==
    \A i \in DOMAIN operands :
        LET status == Outcome(operands[i])
        IN  IsOk(status) /\ IsNumber(status.value) => Content(status.value) \in Numbers

\* Rules that authors take for the same: De Morgan's law, a chain of conditions
\* and the nested one, operands grouped, a text cut in two, "between" and the two
\* comparisons it stands for, a comparison and its opposite.  They agree in what
\* they answer and in whether they fail, a text that is cut while its length and
\* the place fit an int: beyond, the part before the place is cut short.
EquivalentForms ==
    /\ Evaluated("and") =>
          LET negated == [i \in DOMAIN OperandsOf("and") |-> Op("!", <<OperandsOf("and")[i]>>)]
          IN  Outcome(Op("!", <<evaluation.logic>>)) = Outcome(Op("or", negated))
    /\ Evaluated("if") /\ Len(OperandsOf("if")) > 2 =>
          LET operands == OperandsOf("if")
              rest == Op("if", SubSeq(operands, 3, Len(operands)))
          IN  evaluation.status = Outcome(Op("if", <<operands[1], operands[2], rest>>))
    /\ \A name \in {"and", "or"} :
          Evaluated(name) /\ Len(OperandsOf(name)) > 1 =>
              evaluation.status =
                  Outcome(Op(name, <<Head(OperandsOf(name)), Op(name, Tail(OperandsOf(name)))>>))
    /\ Evaluated("substr") /\ Len(OperandsOf("substr")) = 2 =>
          LET text == OperandsOf("substr")[1]
              start == OperandsOf("substr")[2]
              head == Op("substr", <<text, Literal(0), start>>)
              InInts == FitsInt(Size(text)) /\ FitsInt(AsInt64(Outcome(start).value))
          IN  IsString(text) /\ IsOk(evaluation.status) /\ InInts =>
                  Outcome(Op("cat", <<head, evaluation.logic>>)) = Ok(text)
    /\ \A name \in {"<", "<="} :
          Evaluated(name) /\ Len(OperandsOf(name)) = 3 /\ IsOk(evaluation.status) =>
              LET Pair(i) == Op(name, SubSeq(OperandsOf(name), i, i + 1))
              IN  evaluation.status = Outcome(Op("and", <<Pair(1), Pair(2)>>))
    /\ \A name \in {">", ">="} :
          Evaluated(name) /\ Len(OperandsOf(name)) # 3 /\ AreFinite(OperandsOf(name)) =>
              LET opposite == Op(IF name = ">" THEN "<=" ELSE "<", OperandsOf(name))
              IN  evaluation.status = Outcome(Op("!", <<opposite>>))

\* A key is missing just if var falls back to its default, whether its value is
\* null or reached through an array; missing_some answers with the keys that
\* are missing, or with none if enough are there.
MissingIsWhatVarLacks ==
    LET Lacks(key) ==
            \A default \in BOOLEAN :
                Outcome(Op("var", <<key, JsonBool(default)>>)) = Ok(JsonBool(default))
        Lacked(keys) == Collected(keys, {i \in DOMAIN keys : Lacks(keys[i])})
        AreNames(keys) == \A i \in DOMAIN keys : IsString(keys[i]) /\ Content(keys[i]) # <<>>
    IN  /\ Evaluated("missing") /\ AreNames(OperandsOf("missing")) =>
              evaluation.status = Ok(JsonArray(Lacked(OperandsOf("missing"))))
        /\ Evaluated("missing_some") /\ IsOk(evaluation.status) =>
              LET needed == OperandsOf("missing_some")[1]
                  keys == Content(OperandsOf("missing_some")[2])
                  found == {i \in DOMAIN keys : ~Lacks(keys[i])}
              IN  IsNumber(needed) /\ IsArray(OperandsOf("missing_some")[2]) /\ AreNames(keys) =>
                      evaluation.status =
                          Ok(JsonArray(IF Cardinality(found) >= Content(needed).value THEN <<>>
                                       ELSE Lacked(keys)))
=============================================================================
