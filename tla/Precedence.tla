------------------------------ MODULE Precedence ------------------------------
(***************************************************************************)
(* The two users of semantic versions side by side, the code-readiness     *)
(* hook and the operation sem_ver, and what makes them right together.     *)
(***************************************************************************)
EXTENDS CodeReadiness, TargetingOps

\* Markers are no texts, and what sem_ver compares has been split as a text is.
ASSUME MarkerAssumption ==
    /\ {NotAText, Failed} \cap (VersionText \cup Operators) = {}
    /\ NotAnArray \notin Seq(VersionText \cup Operators)
    /\ \A args \in VersionCalls :
          AreStrings(args, 3) => args[1] \in VersionText /\ args[3] \in VersionText

\* A targeting rule that asks sem_ver for the binary's version ">=" the
\* minimum can read whatever the hook can, and decides as the hook does: the
\* two parsers and the two comparisons agree.
RuleAgreesWithHook ==
    verdict # "none" /\ IsReadable(minimum) =>
        SemVer(<<hook.version, ">=", minimum>>) = Answer(verdict = "passes")

IsComparison == call.op = "sem_ver" /\ result.ok

Is(v, op, w) == SemVer(<<v, op, w>>).value

\* Of two versions exactly one of <, = and > holds, the other operators follow
\* from these, and the operands may be swapped.
ComparisonsAgree ==
    IsComparison =>
        LET v == call.args[1]
            w == call.args[3]
        IN  /\ Is(v, "<", w) = Is(w, ">", v)
            /\ Is(v, "=", w) = Is(w, "=", v) /\ Is(v, "==", w) = Is(v, "=", w)
            /\ Is(v, "<", w) => ~Is(v, ">", w) /\ ~Is(v, "=", w)
            /\ Is(v, "<=", w) = (Is(v, "<", w) \/ Is(v, "=", w))
            /\ Is(v, ">=", w) = ~Is(v, "<", w) /\ Is(v, "!=", w) = ~Is(v, "=", w)

\* The versions that sem_ver is asked about.
Compared == {args[1] : args \in {a \in VersionCalls : SemVer(a).ok}}

\* Ranges have no holes: if a range from w on takes v, it takes every version
\* between them, and what is below a bound stays below it further down.
RangesHaveNoHoles ==
    IsComparison /\ call.args[2] \in {"^", "~", "=", "<"} /\ result.value =>
        LET v == call.args[1]
            op == call.args[2]
            w == call.args[3]
        IN  \A t \in Compared :
                Is(t, "<=", v) /\ (op = "<" \/ Is(t, ">=", w)) => Is(t, op, w)

\* From 1.0.0 on ~ is narrower than ^, before it ^ is narrower than ~.
RangesNest ==
    IsComparison /\ call.args[2] \in {"^", "~"} /\ result.value =>
        LET v == call.args[1]
            w == call.args[3]
            released == RuleParse(w).core[Major] > 0
        IN  IF released /\ call.args[2] = "~" THEN Is(v, "^", w)
            ELSE IF ~released /\ call.args[2] = "^" THEN Is(v, "~", w)
            ELSE TRUE

\* Ranges of sem_ver are what authors of rules take them for: intervals, the
\* one in the other.
RangesFit == RangesHaveNoHoles /\ RangesNest
=============================================================================
