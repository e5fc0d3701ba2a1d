------------------------------- MODULE MCRules -------------------------------
(* JsonLogic with its numbers, conversions and the operations of flagd, the   *)
(* code-readiness hook and the configuration, with small sets of arguments    *)
(* for TLC.  They share no state, so an operation or a rule is evaluated      *)
(* where there is no hook and no configuration, and its answer is used before *)
(* the next: every one is reached, and the states stay few.                   *)
EXTENDS Precedence, Conversions, Configuration

answerVars == <<opsVars, evaluation, computed, conversion>>
rulesVars == <<hookVars, configVars, answerVars>>

RulesInit == HookInit /\ ConfigInit /\ OpsInit /\ LogicInit /\ NumbersInit
             /\ ConversionInit

NothingAnswered ==
    /\ call.op = "none" /\ evaluation = NoEvaluation
    /\ computed.op = <<"none">> /\ conversion.context = NoTargetingKey
AnswerUsed ==
    /\ ~NothingAnswered
    /\ call' = NoCall /\ result' = Error
    /\ evaluation' = NoEvaluation /\ computed' = NothingComputed /\ conversion' = NoConversion

RulesNext ==
    \/ NothingAnswered /\ config = Nothing /\ UNCHANGED <<configVars, answerVars>> /\ HookNext
    \/ NothingAnswered /\ hook = NoHook /\ UNCHANGED <<hookVars, answerVars>> /\ ConfigNext
    \/ /\ NothingAnswered /\ hook = NoHook /\ config = Nothing /\ UNCHANGED <<hookVars, configVars>>
       /\ \/ OpsNext /\ UNCHANGED <<evaluation, computed, conversion>>
          \/ LogicNext /\ UNCHANGED <<opsVars, computed, conversion>>
          \/ NumbersNext /\ UNCHANGED <<opsVars, evaluation, conversion>>
          \/ ConversionNext /\ UNCHANGED <<opsVars, evaluation, computed>>
    \/ AnswerUsed /\ UNCHANGED <<hookVars, configVars>>

RulesSpec == RulesInit /\ [][RulesNext]_rulesVars

-----------------------------------------------------------------------------
(* Apply, JsonEqual and the conversions, which call themselves on what a     *)
(* value contains.                                                           *)
(* (TLC's coverage statistics unfold a constant's definition up to a LET.)    *)

RECURSIVE MCApply(_, _)
MCApply(logic, data) == LET status == ApplyOnce(logic, data) IN status

RECURSIVE MCJsonEqual(_, _)
MCJsonEqual(l, r) == LET equal == EqualOnce(l, r) IN equal

RECURSIVE MCJsonToValue(_)
MCJsonToValue(json) == LET value == JsonToValueOnce(json) IN value

RECURSIVE MCValueToJson(_)
MCValueToJson(value) == LET json == ValueToJsonOnce(value) IN json

RECURSIVE MCEncodeJson(_)
MCEncodeJson(data) == LET bytes == EncodeOnce(data) IN bytes

RECURSIVE MCMeaning(_)
MCMeaning(value) == LET meaning == MeaningOnce(value) IN meaning

RECURSIVE MCFitsThroughout(_)
MCFitsThroughout(value) == LET fits == FitsOnce(value) IN fits

\* A value with all its parts, and how deep it is nested.
RECURSIVE WithParts(_)
WithParts(value) ==
    {value} \cup IF IsPrimitive(value) THEN {}
                 ELSE UNION {WithParts(Content(value)[k]) : k \in DOMAIN Content(value)}

RECURSIVE Depth(_)
Depth(value) ==
    IF IsPrimitive(value) THEN 0
    ELSE 1 + Max({0} \cup {Depth(Content(value)[k]) : k \in DOMAIN Content(value)})

-----------------------------------------------------------------------------
(* Arguments                                                                 *)

Zero == <<48>>   One == <<49>>   Two == <<50>>   Ten == <<49, 48>>
ZeroOne == <<48, 49>>   Huge == <<49, 50>>   BigA == <<65>>   SmallA == <<97>>
OneA == <<49, 97>>   DashOne == <<45, 49>>   SpaceOne == <<32, 49>>   Bang == <<33>>

Text(core, pre, build) == [prefix |-> <<>>, core |-> core, pre |-> pre, build |-> build]
Release(core) == Text(core, <<>>, <<>>)

\* Versions that differ in one respect from one another.
Texts == {
    Release(<<One, Two, Ten>>), Release(<<One, Two>>), Release(<<One>>), Release(<<Two>>),
    Release(<<Zero, One, Two>>), Release(<<Zero, Zero, One>>), Release(<<Zero>>),
    Text(<<One, Two, Zero>>, <<Two>>, <<>>),
    Text(<<One, Two, Zero>>, <<Ten>>, <<ZeroOne>>),
    Text(<<One, Two, Zero>>, <<OneA, One>>, <<>>),
    Text(<<One, Two, Zero>>, <<OneA>>, <<>>),
    Text(<<One, Two, Zero>>, <<DashOne>>, <<>>) }

\* Texts that one parser or both refuse, and prefixes.
OddTexts == {
    Release(<<ZeroOne>>), Release(<<Huge>>), Release(<<One, BigA>>),
    Release(<<One, One, One, One>>), Release(<<SpaceOne>>),
    Text(<<One>>, <<SmallA>>, <<>>), Text(<<One>>, <<>>, <<One>>),
    Text(<<One, One, One>>, <<Bang>>, <<>>), Text(<<One, One, One>>, <<>>, <<Bang>>),
    Text(<<One, One, One>>, << <<>> >>, <<>>), Text(<<One, One, One>>, <<ZeroOne>>, <<>>),
    [Release(<<One, Two>>) EXCEPT !.prefix = <<LowerV>>],
    [Release(<< <<>> >>) EXCEPT !.prefix = <<LowerV>>],
    [Release(<<One, Two>>) EXCEPT !.prefix = <<UpperV>>] }

MCBinaryVersions == Texts \cup OddTexts \cup {EmptyText}
MCMetadataValues == Texts \cup OddTexts \cup {NoKey, NotAString, EmptyText}

MCVersionCalls ==
    {<<v, op, w>> : v \in Texts, op \in Operators, w \in Texts}
    \cup {<<v, ">=", Release(<<One>>)>> : v \in OddTexts \cup {NotAText, Failed}}
    \cup {<<Release(<<One>>), "=<", Release(<<One>>)>>, <<Release(<<One>>), "=">>, NotAnArray}

MCStringCalls == {<<s, t>> : s, t \in {<<>>, One, Ten, ZeroOne, NotAText, Failed}}
                 \cup {<<One>>, NotAnArray}

Key == [Scalar EXCEPT !.variant = "key"]
\* Weights on both sides of the limits; -15, 9 and 17 are truncated.
MCWeights == {Number("integer", n) : n \in {-15, -1, 0, 1, 2, 5, 9, 17}}
Elements(variant) == {List(variant, w) : w \in MCWeights}

MCFractionalCalls ==
    {[values |-> values, targetingKey |-> key] :
        key \in {"missing", "not a string", "present"},
        values \in {NotAnArray, <<>>, <<Null>>, <<Failed>>, <<EmptyList>>, <<Key>>,
                    <<Deep, List("a", Null)>>, <<List("a", Null), List("b", Null)>>,
                    <<Key, List("a", Null), Null>>} }
    \cup {[values |-> <<Key, a, b, c>>, targetingKey |-> "present"] :
            a \in Elements("a"), b \in Elements("b"),
            c \in {List("c", Number("integer", 0)), List("c", Number("integer", 3))}}
    \cup {[values |-> <<Key, List("a", w), List("b", Null)>>, targetingKey |-> "missing"] :
            w \in {Number("whole", 2), Number("whole", 8), Number("broken", 2),
                   Number("none", 0)}}

\* Rules: the operands of and, or and if, one of which fails and one of which
\* is no operation.
Bare(name, operand) == JsonObject(<<name>> :> operand)
Word(name) == JsonString(<<name>>)
VarOf(key) == Bare("var", JsonString(key))
True == JsonBool(TRUE)
False == JsonBool(FALSE)
Fails == Op("!", <<True, True>>)
NoOperation == Op("other", <<True>>)

UpTo(n, operands) == UNION {[1 .. k -> operands] : k \in 0 .. n}
LogicOperands == {True, False, JsonString(<<>>), VarOf(<<"x">>), Fails, NoOperation}

Keys == {<<"x">>, <<"y">>, <<"z">>, <<"y", ".", "a">>, <<"y", "/", "a">>, <<"y", ".", "z">>,
         <<"l", ".", "1">>, <<"l", ".", "2">>, <<"l", ".", "x">>, <<"x", ".", "a">>}
KeyStrings == {JsonString(key) : key \in Keys}

Letters3 == <<"p", "q", "r">>
Literals == {Literal(n) : n \in -4 .. 4}

\* Numbers beyond an int and beyond an int64_t as well.
Cuts == Literals \cup {Literal(n) : n \in {-8, -6, 5, 7, 9, 15}}

\* Numbers of each kind around the limits; doubles have three digits.
RoundedHalfEven(n, d) ==
    LET up == 2 * (n % d) > d \/ (2 * (n % d) = d /\ (n \div d) % 2 = 1)
    IN  (n \div d) + (IF up THEN 1 ELSE 0)
MCRounded(n, d) ==
    LET spacing == CHOOSE s \in {2 ^ e : e \in 0 .. 10} :
                       AbsoluteValue(n) < 8 * s * d /\ (s = 1 \/ AbsoluteValue(n) >= 4 * s * d)
    IN  RoundedHalfEven(n, d * spacing) * spacing

MCDoubles == {MCRounded(n, 1) : n \in -80 .. 80}
SomeNumbers == {Signed(n) : n \in {-8, -3, -1, 0, 2, 7}}
               \cup {Unsigned(n) : n \in {0, 1, 3, 8, 9, 15}}
               \cup {Double(x) : x \in {-6, 0, 2, 7, 32, 64}}
FewNumbers == {Signed(-3), Signed(-1), Signed(7), Unsigned(1), Unsigned(8), Unsigned(9),
               Double(32), Double(-1)}
MCOperands == UpTo(2, SomeNumbers) \cup [1 .. 3 -> FewNumbers]

MCRuleSet ==
    {Op(name, operands) : name \in {"and", "or"}, operands \in UpTo(3, LogicOperands)}
    \cup {Op("if", operands) :
            operands \in UpTo(4, {True, False, VarOf(<<"x">>), Fails})
                         \cup [1 .. 5 -> {True, False, Fails}]}
    \cup {Bare(name, operand) :
            name \in {"and", "!", "!!", "if", "in", "===", "cat", "merge", "missing_some"},
            operand \in LogicOperands}
    \cup {Op(name, operands) :
            name \in {"===", "!==", "in", "!", "!!"},
            operands \in UpTo(2, {True, VarOf(<<"x">>), VarOf(<<"l">>), Word("x"), Fails})}
    \cup {Op("missing", keys) : keys \in UpTo(2, KeyStrings)}
    \cup {Bare("missing", key) : key \in KeyStrings \cup {VarOf(<<"l">>), True, Fails}}
    \cup {Op("missing_some", <<n, JsonArray(keys)>>) :
            n \in Literals, keys \in UpTo(2, KeyStrings)}
    \cup {Op("missing_some", <<Literal(1), VarOf(<<key>>)>>) : key \in {"l", "x", "rules"}}
    \cup {Op("missing_some", <<VarOf(<<"n">>), JsonArray(<<Word("x")>>)>>)}
    \cup {JsonObject(name :> JsonArray(operands)) :
            name \in NumericOperations,
            operands \in UpTo(3, {Literal(-3), Literal(1), VarOf(<<"n">>), Fails})}
    \cup {JsonObject(name :> operand) :
            name \in NumericOperations, operand \in {VarOf(<<"n">>), VarOf(<<"z">>), True}}
    \cup {Op("var", operands) : operands \in UpTo(3, {Word("x"), Word("z"), JsonNull, Fails})}
    \cup {Op(name, values) : name \in {"cat", "merge"},
            values \in UpTo(2, {Word("p"), JsonString(Letters3), JsonArray(<<Word("p")>>),
                                JsonNull, Fails})}
    \cup {Op("substr", <<JsonString(Letters3), n>>) : n \in Cuts}
    \cup {Op("substr", <<JsonString(Letters3), n, m>>) : n \in Literals, m \in Cuts \cup {True}}
    \cup {Op("substr", values) : values \in UpTo(2, {True, JsonString(<<>>)})}
    \cup {JsonNull, JsonObject(<<>>), JsonArray(<<True, Fails>>), JsonArray(<<VarOf(<<"x">>)>>),
           JsonObject((<<"!">> :> False) @@ (<<"and">> :> True))}

MCKeyOrder == << <<"!">>, <<"!!">>, <<"!==">>, <<"%">>, <<"*">>, <<"+">>, <<"-">>, <<"/">>, <<"<">>,
    <<"<=">>, <<"===">>, <<">">>, <<">=">>, <<"a">>, <<"a", "b">>, <<"and">>, <<"b">>, <<"c">>,
    <<"cat">>, <<"flagKey">>, <<"if">>, <<"in">>, <<"max">>,
    <<"merge">>, <<"min">>, <<"missing">>, <<"missing_some">>, <<"or">>, <<"other">>, <<"substr">>,
    <<"var">> >>

MCContexts == {
    JsonObject(<<>>),
    JsonObject((<<"x">> :> Word("p")) @@ (<<"n">> :> JsonNumber(Signed(2)))
               @@ (<<"y">> :> JsonObject(<<"a">> :> JsonNull))
               @@ (<<"l">> :> JsonArray(<<Word("x"), Word("z")>>))
               @@ (<<"rules">> :> JsonArray(<<VarOf(<<"x">>)>>))) }

\* Contexts: the attribute x in every type, with numbers about the limits.
Typed(type, value) == [type |-> type, value |-> value]
TypedNumbers ==
    {Typed(type, JsonNumber(Signed(n))) : type \in {"int", "int64_t"}, n \in {-8, -1, 0, 2, 7}}
    \cup {Typed("uint64_t", JsonNumber(Unsigned(n))) : n \in {0, 2, 7, 8, 14, 15}}
    \cup {Typed(type, JsonNumber(Double(x))) :
            type \in {"double", "Value", "float"},
            x \in {-64, -40, -32, -6, -4, 0, 1, 7, 8, 28, 32, 56, 64, 80}}

MCVariants ==
    {JsonNull, True, Word("p"), JsonString(<<>>), JsonObject(<<>>)}
    \cup {Literal(n) : n \in {-8, -1, 0, 2, 8, 15}} \cup {JsonNumber(Double(8))}
    \cup {JsonArray(values) : values \in UpTo(2, {Literal(2), True})}
    \cup {JsonObject(<<name>> :> value) :
            name \in {"a", "b"},
            value \in {Literal(2), Literal(15), JsonNull, JsonArray(<<Literal(2), Literal(0)>>),
                       JsonArray(<<JsonArray(<<Literal(2)>>), Literal(0)>>),
                       JsonObject(<<"b">> :> Literal(2))}}
    \cup {JsonObject((<<"a">> :> v) @@ (<<"b">> :> w) @@ (<<"a", "b">> :> JsonNumber(x))) :
            v, w \in {JsonArray(<<>>), Word("b")}, x \in {Signed(2), Unsigned(2), Double(8)}}

SomeAttributes ==
    TypedNumbers \cup {Typed("bool", True), Typed("string", Word("p")), Typed("const char*", Word("p"))}
    \cup {Typed("Value", MCJsonToValue(variant)) : variant \in MCVariants}
    \cup {Typed("json", variant) : variant \in MCVariants}

MCEvaluationContexts ==
    {[targetingKey |-> <<"p">>, attributes |-> <<"x">> :> x] : x \in SomeAttributes}
    \cup {[targetingKey |-> key, attributes |-> (<<"x">> :> Typed("json", JsonArray(<<True>>))) @@ more] :
            key \in {NoTargetingKey, <<"p">>, <<>>},
            more \in {<<>>, <<"targetingKey">> :> Typed("string", Word("q")),
                      <<"targetingKey">> :> Typed("int", JsonNumber(Signed(2))),
                      <<"targetingKey">> :> Typed("float", JsonNumber(Double(2))),
                      <<"$flagd">> :> Typed("json", JsonObject(<<"flagKey">> :> Word("q")))}}
MCFlagKeys == {<<"f">>, <<"p">>}

MCNesting ==
    LET given == UNION {{ctx.attributes[name].value : name \in DOMAIN ctx.attributes} :
                            ctx \in MCEvaluationContexts}
    IN  [value \in UNION {WithParts(v) : v \in given \cup MCVariants} |-> Depth(value)]

\* Environments and settings: each kind of option with values about its limits,
\* texts that do not say what they seem to, and what a connection depends on.
NoVariables == [option \in Options |-> Unset]
Numeral(n, rest) == [number |-> n, word |-> rest]
SomeTexts == {Empty, Numeral(0, ""), Numeral(1, ""), Numeral(65536, ""), Numeral(70, "abc"),
              Numeral(-1, ""), Numeral(MaxInt + 1, ""), Spelled("abc")}
SomeLists == {<<>>, <<Numeral(0, ""), Spelled("INTERNAL"), Empty, Numeral(17, "")>>,
              <<Spelled("internal"), Numeral(MaxInt + 1, ""), Numeral(8, "x"), Numeral(-2, "")>>}
Connecting == {<<"target_uri", "uri">>, <<"socket_path", "socket">>, <<"cert_path", "cert">>}

MCEnvironments ==
    {NoVariables}
    \cup {[NoVariables EXCEPT !.port = text] : text \in SomeTexts}
    \cup {[NoVariables EXCEPT ![option] = text] :
            option \in Numerals, text \in {Numeral(0, ""), Numeral(70, "abc"), Spelled("abc")}}
    \cup {[NoVariables EXCEPT !.fatal_status_codes = items] : items \in SomeLists}
    \cup {[NoVariables EXCEPT !.tls = text, !.cert_path = path] :
            text \in {Spelled("True"), Numeral(1, ""), Numeral(1, "x"), Spelled("yes")},
            path \in {Unset, Empty, Spelled("cert")}}
    \cup {[NoVariables EXCEPT !.target_uri = uri, !.socket_path = path, !.host = host] :
            uri \in {Unset, Spelled("uri")}, path \in {Unset, Empty, Spelled("socket")},
            host \in {Unset, Empty}}

MCSettings ==
    {[option |-> option, argument |-> n] :
        option \in {"port", "deadline_ms", "keep_alive_time_ms"}, n \in {-1, 0, 65535, 65536}}
    \cup {[option |-> "retry_backoff_max_ms", argument |-> 1234567]}
    \cup {[option |-> pair[1], argument |-> text] :
            pair \in Connecting, text \in {Empty, Spelled("other")}}
    \cup {[option |-> pair[1], argument |-> Spelled(pair[2])] : pair \in Connecting}
    \cup {[option |-> "tls", argument |-> b] : b \in BOOLEAN}
    \cup {[option |-> "channel_credentials", argument |-> v] : v \in {Unset, Spelled("own")}}
    \cup {[option |-> "fatal_status_codes", argument |-> v] :
            v \in {[items |-> items] : items \in SomeLists}
                  \cup {[codes |-> codes] : codes \in {<<>>, <<-1, 0, 16, 17>>, <<14, 14>>}}}

MCFiles == {Spelled("cert")}

-----------------------------------------------------------------------------
(* Property                                                                  *)

\* "It accepts an optional leading `v`/`V`" (hooks/codereadiness/README.md):
\* a minimum version means the same with either letter.
AcceptsEitherPrefix ==
    hook # NoHook =>
        \A text \in Texts :
            VerdictOn([text EXCEPT !.prefix = <<LowerV>>])
                = VerdictOn([text EXCEPT !.prefix = <<UpperV>>])
=============================================================================
