----------------------------- MODULE SemVersion -----------------------------
(***************************************************************************)
(* Semantic versions: the parser of the code-readiness hook                *)
(* (hooks/codereadiness/src/semver.cpp), the parser of flagd's sem_ver     *)
(* operation (providers/flagd/src/evaluator/flagd_ops.cpp), and the order  *)
(* of precedence, which both implement.                                    *)
(*                                                                         *)
(* A character is its ASCII code and a piece of text a sequence of them.   *)
(* A version's text is split where both parsers split it: a prefix, the    *)
(* parts of the core between dots, and, if there are a '-' and a '+', the  *)
(* dot-separated identifiers behind them (<<>> when there is none).  So no *)
(* part of the core holds '.', '-' or '+', and no pre-release identifier   *)
(* '.' or '+'.                                                             *)
(***************************************************************************)
EXTENDS Integers, SequencesExt

CONSTANT MaxNumber   \* the largest number a core part may be, 2^64 - 1

ASSUME NumberAssumption == MaxNumber \in Nat

Digits == 48 .. 57
Letters == 65 .. 90 \cup 97 .. 122
Hyphen == 45
UpperV == 86
LowerV == 118
Spaces == {32} \cup 9 .. 13

VersionText == [prefix : Seq(Nat), core : Seq(Seq(Nat)),
                pre : Seq(Seq(Nat)), build : Seq(Seq(Nat))]

Chars(piece) == {piece[i] : i \in DOMAIN piece}

IsNumeric(piece) == piece # <<>> /\ Chars(piece) \subseteq Digits
HasLeadingZero(piece) == Len(piece) > 1 /\ piece[1] = 48
IsIdentifier(piece) == piece # <<>> /\ Chars(piece) \subseteq Digits \cup Letters \cup {Hyphen}

\* The number that digits write.
NumberOf(piece) == FoldLeft(LAMBDA n, digit : 10 * n + digit - 48, 0, piece)

\* absl::SimpleAtoi skips white space on both sides.
Trimmed(piece) ==
    LET kept == {i \in DOMAIN piece : piece[i] \notin Spaces} IN
    IF kept = {} THEN <<>> ELSE SubSeq(piece, Min(kept), Max(kept))

NotANumber == -1

\* ParseSemVerNum of the hook and of the operation.
HookNumber(piece) ==
    IF IsNumeric(piece) /\ ~HasLeadingZero(piece) /\ NumberOf(piece) \in 0 .. MaxNumber
    THEN NumberOf(piece) ELSE NotANumber
RuleNumber(piece) ==
    LET digits == Trimmed(piece) IN
    IF ~HasLeadingZero(piece) /\ IsNumeric(digits) /\ NumberOf(digits) \in 0 .. MaxNumber
    THEN NumberOf(digits) ELSE NotANumber

-----------------------------------------------------------------------------
\* A parsed version, and what a parser answers to a text it refuses.
Version(core, pre) == [core |-> core, pre |-> pre]
Refused == Version(<<>>, <<>>)

\* major, minor and patch; missing parts are zero.
Core(numbers) == [i \in 1 .. 3 |-> IF i <= Len(numbers) THEN numbers[i] ELSE 0]
WellFormed(core) == \A i \in 1 .. 3 : core[i] # NotANumber

\* A shorthand core takes neither a pre-release nor build metadata.
ShorthandIsBare(text) ==
    Len(text.core) < 3 => text.pre = <<>> /\ text.build = <<>>

HookParse(text) ==
    LET core == Core([i \in DOMAIN text.core |-> HookNumber(text.core[i])]) IN
    IF /\ text.prefix # <<UpperV>>   \* only 'v' is skipped, so the core begins with V
       /\ \A i \in DOMAIN text.build : IsIdentifier(text.build[i])
       /\ Len(text.core) \in 1 .. 3 /\ ShorthandIsBare(text)
       /\ WellFormed(core)
       /\ \A i \in DOMAIN text.pre :
             /\ IsIdentifier(text.pre[i])
             /\ ~(IsNumeric(text.pre[i]) /\ HasLeadingZero(text.pre[i]))
    THEN Version(core, text.pre) ELSE Refused

RuleParse(text) ==
    LET core == Core([i \in DOMAIN text.core |-> RuleNumber(text.core[i])]) IN
    IF /\ Len(text.core) \in 1 .. 3
       /\ WellFormed(core)
       /\ \A i \in DOMAIN text.pre :
             /\ text.pre[i] # <<>>
             /\ ~(IsNumeric(text.pre[i]) /\ HasLeadingZero(text.pre[i]))
    THEN Version(core, text.pre) ELSE Refused

-----------------------------------------------------------------------------
\* Precedence.  Sign is what Compare returns: -1, 0 or 1.
Sign(less) == IF less THEN -1 ELSE 1

\* The places where two sequences differ, as far as both go.
Differences(p, q) == {i \in DOMAIN p \cap DOMAIN q : p[i] # q[i]}

CompareLengths(p, q) == IF Len(p) = Len(q) THEN 0 ELSE Sign(Len(p) < Len(q))

\* Lexicographic order of characters.
CompareText(p, q) ==
    IF Differences(p, q) = {} THEN CompareLengths(p, q)
    ELSE LET i == Min(Differences(p, q)) IN Sign(p[i] < q[i])

\* Numbers of any size: the longer is the larger.
CompareNumeric(p, q) ==
    IF Len(p) # Len(q) THEN CompareLengths(p, q) ELSE CompareText(p, q)

CompareMixedAsText(p, q) ==
    IF IsNumeric(p) /\ IsNumeric(q) THEN CompareNumeric(p, q) ELSE CompareText(p, q)

\* Numeric identifiers come before all others.
CompareIdentifiers(p, q) ==
    CASE IsNumeric(p) /\ IsNumeric(q)   -> CompareNumeric(p, q)
      [] IsNumeric(p) /\ ~IsNumeric(q)  -> -1
      [] ~IsNumeric(p) /\ IsNumeric(q)  -> 1
      [] ~IsNumeric(p) /\ ~IsNumeric(q) -> CompareText(p, q)

ComparePreReleases(p, q) ==
    CASE p = <<>> /\ q # <<>> -> 1
      [] p # <<>> /\ q = <<>> -> -1
      [] p # <<>> /\ q # <<>> /\ Differences(p, q) # {} ->
            LET i == Min(Differences(p, q)) IN CompareIdentifiers(p[i], q[i])
      [] OTHER -> CompareLengths(p, q)

Compare(v, w) ==
    IF v.core # w.core THEN CompareText(v.core, w.core)
                       ELSE ComparePreReleases(v.pre, w.pre)
=============================================================================
