--------------------------- MODULE FlagResolution ---------------------------
(***************************************************************************)
(* What one flag evaluation computes from a snapshot of the flags and of   *)
(* the global metadata (JsonLogicEvaluator::ResolveAny), and what the      *)
(* code-readiness hook then decides (CodeReadinessHook::After).            *)
(*                                                                         *)
(* Of the metadata only the hook's key is kept, of a targeting rule only   *)
(* the kind of its outcome; a version is its rank in the order of          *)
(* versions.                                                               *)
(***************************************************************************)
EXTENDS Integers

CONSTANTS
    CurrentVersion,    \* CodeReadinessHook::current_version_, by rank
    StrictValidation   \* CodeReadinessHook::strict_validation_

ASSUME HookAssumption == CurrentVersion \in Nat /\ StrictValidation \in BOOLEAN

\* The JSON value under the hook's metadata key: missing, null or structured,
\* a number or boolean, "", text that is no version, or a version.
MetadataKinds == {"absent", "unmapped", "scalar", "empty", "unparsable", "version"}
MetadataValue == [kind : MetadataKinds, version : Nat]
NoMetadata == [kind |-> "absent", version |-> 0]

\* What nlohmann's get<T> converts to each evaluated type, and JsonToValue.
ConvertsTo == [bool   |-> {"boolean"},
               string |-> {"string"},
               int    |-> {"integer", "float"},
               double |-> {"integer", "float"},
               object |-> {"boolean", "string", "integer", "float", "object"}]

-----------------------------------------------------------------------------
\* A key that is there with a scalar value replaces what was collected before.
EnrichMetadata(metadata, json) ==
    IF json.kind \in {"absent", "unmapped"} THEN metadata ELSE json

GlobalWins(flag, global) ==
    EnrichMetadata(EnrichMetadata(NoMetadata, flag), global)
FlagWins(flag, global) ==
    EnrichMetadata(EnrichMetadata(NoMetadata, global), flag)

Details(value, reason, variant, error, metadata) ==
    [value |-> value, reason |-> reason, variant |-> variant, error |-> error,
     metadata |-> metadata]

\* The variant that targeting names, if its outcome is one that names any.
Targets(flag) == flag.targeting.outcome \in {"string", "boolean"}
TargetedVariant(flag) ==
    IF flag.targeting.outcome = "string" THEN flag.targeting.text
    ELSE IF flag.targeting.truth THEN "true" ELSE "false"

VariantOf(flag) == IF Targets(flag) THEN TargetedVariant(flag)
                                    ELSE flag.defaultVariant

NamesNone(flag) == ~Targets(flag) /\ flag.defaultVariant = "null"

\* ResolveAny for a flag that exists, in the order of its returns.
ResolveFlag(flag, metadata, type) ==
    LET variant == VariantOf(flag) IN
    CASE flag.state = "DISABLED" ->
            Details("default", "DISABLED", "", "FLAG_NOT_FOUND", metadata)
      [] flag.state # "DISABLED" /\ NamesNone(flag) ->
            Details("default", "DEFAULT", "", "none", metadata)
      [] flag.state # "DISABLED" /\ ~NamesNone(flag)
         /\ variant \notin DOMAIN flag.variants ->
            Details("default", "ERROR", variant, "GENERAL", metadata)
      [] OTHER ->
            IF flag.variants[variant].kind \notin ConvertsTo[type]
            THEN Details("default", "ERROR", variant, "TYPE_MISMATCH", metadata)
            ELSE Details(flag.variants[variant].value,
                         IF Targets(flag) THEN "TARGETING_MATCH" ELSE "STATIC",
                         variant, "none", metadata)

Resolve(flags, global, request) ==
    IF request.key \notin DOMAIN flags
    THEN Details("default", "ERROR", "", "FLAG_NOT_FOUND",
                 EnrichMetadata(NoMetadata, global))
    ELSE ResolveFlag(flags[request.key],
                     FlagWins(flags[request.key].metadata, global),
                     request.type)

-----------------------------------------------------------------------------
\* CodeReadinessHook::After does not throw.
AfterPasses(metadata) ==
    IF metadata.kind = "version"
    THEN CurrentVersion >= metadata.version
    ELSE ~StrictValidation
=============================================================================
