---------------------------- MODULE CodeReadiness ----------------------------
(***************************************************************************)
(* The code-readiness hook (hooks/codereadiness/src/codereadiness.cpp)     *)
(* with its default comparator: Create parses the version of the binary,   *)
(* After compares it with the minimum version in a flag's metadata.        *)
(***************************************************************************)
EXTENDS SemVersion

CONSTANTS
    BinaryVersions,   \* texts that Create is called with
    MetadataValues,   \* what a flag's metadata may hold under the hook's key:
    NoKey,            \*   no metadata, or not that key,
    NotAString,       \*   a value that is no string,
    EmptyText         \*   "", or the text of a version

ASSUME TextAssumption ==
    /\ BinaryVersions \subseteq VersionText \cup {EmptyText}
    /\ MetadataValues \subseteq VersionText \cup {NoKey, NotAString, EmptyText}

VARIABLES
    hook,       \* the hook that Create made, or NoHook
    minimum,    \* the metadata value of the last After
    verdict     \* how that After ended

hookVars == <<hook, minimum, verdict>>

NoHook == [version |-> EmptyText, current |-> Refused, strict |-> FALSE]
Verdicts == {"none", "passes", "skips", "fails"}

HookInit == hook = NoHook /\ minimum = NoKey /\ verdict = "none"

\* CodeReadinessHook::Create and SemVerComparator::Initialize; keyIsEmpty is
\* whether options.min_version_metadata_key is.  A refusal makes no hook.
Create(version, strict, keyIsEmpty) ==
    /\ hook' = IF version = EmptyText \/ keyIsEmpty \/ HookParse(version) = Refused
               THEN NoHook
               ELSE [version |-> version, current |-> HookParse(version),
                     strict |-> strict]
    /\ minimum' = NoKey /\ verdict' = "none"

Exceeds(current, required) == Compare(current, HookParse(required)) > 0
MeetsEachPart(current, required) ==
    \A i \in 1 .. 3 : current.core[i] >= HookParse(required).core[i]

\* SemVerComparator::Compare.
Meets(current, required) == Compare(current, HookParse(required)) >= 0

FailOrSkip == IF hook.strict THEN "fails" ELSE "skips"

IsReadable(value) ==
    value \notin {NoKey, NotAString, EmptyText} /\ HookParse(value) # Refused

VerdictOn(value) ==
    IF ~IsReadable(value) THEN FailOrSkip
    ELSE IF Meets(hook.current, value) THEN "passes" ELSE "fails"

After(value) ==
    /\ hook # NoHook
    /\ minimum' = value
    /\ verdict' = VerdictOn(value)
    /\ UNCHANGED hook

HookNext ==
    \/ \E version \in BinaryVersions, strict, keyIsEmpty \in BOOLEAN :
          Create(version, strict, keyIsEmpty)
    \/ \E value \in MetadataValues : After(value)

HookSpec == HookInit /\ [][HookNext]_hookVars

-----------------------------------------------------------------------------
\* A binary that passes a minimum passes every lower minimum, and one that is
\* too old for a minimum is too old for every higher one.
VerdictsFollowPrecedence ==
    verdict # "none" /\ IsReadable(minimum) =>
        \A other \in {m \in MetadataValues : IsReadable(m)} :
            LET order == Compare(HookParse(other), HookParse(minimum)) IN
            /\ verdict = "passes" /\ order <= 0 => VerdictOn(other) = "passes"
            /\ verdict = "fails" /\ order >= 0 => VerdictOn(other) = "fails"
=============================================================================
