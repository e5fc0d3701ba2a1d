-------------------------- MODULE MCFlagEvaluation --------------------------
(* An instance of FlagEvaluation for TLC: one flag, f, in variations that  *)
(* reach every return of ResolveAny, under global metadata that asks for   *)
(* nothing, for the binary's version or for a later one.                   *)
EXTENDS FlagEvaluation, TLC

Minimum(n) == [kind |-> "version", version |-> n]
Untargeted == [outcome |-> "none", text |-> "", truth |-> FALSE]
Json(kind, value) == [kind |-> kind, value |-> value]

Plain == [state |-> "ENABLED", targeting |-> Untargeted, defaultVariant |-> "on",
          variants |-> "on" :> Json("integer", "one") @@ "true" :> Json("boolean", "yes"),
          metadata |-> NoMetadata]

Flags == {
    Plain,
    [Plain EXCEPT !.state = "DISABLED"],
    [Plain EXCEPT !.defaultVariant = "null"],
    [Plain EXCEPT !.defaultVariant = "gone"],
    [Plain EXCEPT !.targeting.outcome = "boolean", !.targeting.truth = TRUE],
    [Plain EXCEPT !.targeting.outcome = "string", !.targeting.text = "on",
                  !.metadata = Minimum(1)],
    [Plain EXCEPT !.metadata = Minimum(2)],
    [Plain EXCEPT !.metadata.kind = "scalar"],
    [Plain EXCEPT !.targeting.outcome = "error", !.metadata.kind = "unmapped"] }

MCDocuments ==
    {[valid |-> TRUE, flags |-> "f" :> f, metadata |-> m] :
        f \in Flags, m \in {NoMetadata, Minimum(1), Minimum(2)}}
    \cup {[valid |-> FALSE, flags |-> NoFlags, metadata |-> Minimum(2)]}

\* Few documents, for the question of which metadata guards a flag.
FewDocuments ==
    {[valid |-> TRUE, flags |-> "f" :> f, metadata |-> m] :
        f \in {Plain, [Plain EXCEPT !.metadata = Minimum(2)]},
        m \in {NoMetadata, Minimum(2)}}

MCRequests == {[key |-> "f", type |-> "int"], [key |-> "f", type |-> "bool"],
               [key |-> "g", type |-> "int"]}
OneRequest == {[key |-> "f", type |-> "int"]}
=============================================================================
