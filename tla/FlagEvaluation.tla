--------------------------- MODULE FlagEvaluation ---------------------------
(***************************************************************************)
(* The flag store (providers/flagd/src/sync/sync.cpp) under concurrent     *)
(* evaluations.  The background thread replaces or clears the two          *)
(* snapshots under flags_mutex_; an evaluation takes the flags and the     *)
(* metadata in two separate calls, so that an update may fall between      *)
(* them.  The snapshots are immutable and shared: an evaluation keeps what *)
(* it took.                                                                *)
(*                                                                         *)
(* log, seenAt and readAt are history: the contents the store has had and  *)
(* the place in it of what an evaluation took.                             *)
(***************************************************************************)
EXTENDS FlagResolution, Sequences

CONSTANTS
    Readers,       \* threads that evaluate flags
    Requests,      \* [key, type] pairs they ask for
    Documents,     \* flag configurations the server may send
    MaxContents    \* bound on the contents the store goes through

ASSUME BoundAssumption == MaxContents \in Nat \ {0}

NoFlags == [key \in {} |-> 0]
Cleared == [flags |-> NoFlags, metadata |-> NoMetadata]

\* What the store may hold: a document's flags and metadata, or nothing.
Published(doc) == [flags |-> doc.flags, metadata |-> doc.metadata]
Contents == {Cleared} \cup {Published(doc) : doc \in Documents}

VARIABLES
    currentFlags,    \* current_flags_
    globalMetadata,  \* global_metadata_
    log,             \* every contents the store has had
    point,           \* where each reader is in ResolveAny
    request,         \* what it evaluates
    flagsTaken,      \* ResolveAny's local flags
    seenAt,          \* index in log of flagsTaken
    details,         \* the ResolutionDetails of its last evaluation
    passed           \* whether the hook let that evaluation through

store == <<currentFlags, globalMetadata, log>>
evaluation == <<point, request, flagsTaken, seenAt, details, passed>>
vars == <<store, evaluation>>

Init ==
    /\ currentFlags = NoFlags /\ globalMetadata = NoMetadata
    /\ log = <<Cleared>>
    /\ point = [r \in Readers |-> "idle"]
    /\ request \in [Readers -> Requests]   \* whatever; nobody has asked yet
    /\ flagsTaken = [r \in Readers |-> NoFlags]
    /\ seenAt = [r \in Readers |-> 0]
    /\ details = [r \in Readers |-> Details("default", "ERROR", "", "none", NoMetadata)]
    /\ passed = [r \in Readers |-> FALSE]

-----------------------------------------------------------------------------
(* The background thread                                                   *)

KeptMetadata(doc) == IF doc.metadata.kind = "absent" THEN globalMetadata
                                                     ELSE doc.metadata
NewMetadata(doc) == doc.metadata

\* A configuration that does not validate leaves the store as it is.
UpdateFlags(doc) ==
    /\ Len(log) < MaxContents
    /\ doc.valid
    /\ currentFlags' = doc.flags
    /\ globalMetadata' = NewMetadata(doc)
    /\ log' = Append(log, Published(doc))
    /\ UNCHANGED evaluation

ForgottenFlags == currentFlags
EmptiedFlags == NoFlags

ClearFlags ==
    /\ Len(log) < MaxContents
    /\ currentFlags' = EmptiedFlags
    /\ globalMetadata' = NoMetadata
    /\ log' = Append(log, Cleared)
    /\ UNCHANGED evaluation

-----------------------------------------------------------------------------
(* An evaluation                                                           *)

GetFlags(r, q) ==
    /\ point[r] = "idle"
    /\ point' = [point EXCEPT ![r] = "flags"]
    /\ request' = [request EXCEPT ![r] = q]
    /\ flagsTaken' = [flagsTaken EXCEPT ![r] = currentFlags]
    /\ seenAt' = [seenAt EXCEPT ![r] = Len(log)]
    /\ UNCHANGED <<store, details, passed>>

\* GetMetadata and the rest of ResolveAny; then the SDK runs the hook on an
\* evaluation that found a value.
ResolveAny(r) ==
    /\ point[r] = "flags"
    /\ LET found == Resolve(flagsTaken[r], globalMetadata, request[r]) IN
       /\ details' = [details EXCEPT ![r] = found]
       /\ passed' = [passed EXCEPT ![r] =
                        found.error = "none" /\ AfterPasses(found.metadata)]
    /\ point' = [point EXCEPT ![r] = "idle"]
    /\ UNCHANGED <<store, request, flagsTaken, seenAt>>

Next ==
    \/ \E doc \in Documents : UpdateFlags(doc)
    \/ ClearFlags
    \/ \E r \in Readers, q \in Requests : GetFlags(r, q)
    \/ \E r \in Readers : ResolveAny(r)

Spec == Init /\ [][Next]_vars

-----------------------------------------------------------------------------
(* Properties                                                              *)

\* The types; a reader's flags are contents that the store has had.
TypeOK ==
    /\ log \in Seq(Contents) /\ Len(log) \in 1 .. MaxContents
    /\ point \in [Readers -> {"idle", "flags"}]
    /\ request \in [Readers -> Requests]
    /\ seenAt \in [Readers -> 0 .. Len(log)]
    /\ passed \in [Readers -> BOOLEAN]
    /\ DOMAIN details = Readers /\ DOMAIN flagsTaken = Readers
    /\ \A r \in Readers : seenAt[r] > 0 => flagsTaken[r] = log[seenAt[r]].flags

Finished(r) == point[r] = "idle" /\ seenAt[r] > 0

\* An evaluation's value, reason, variant and error come from one document;
\* its metadata is that document's, over global metadata that is as new or
\* newer (the order of the two calls in ResolveAny), never older, and never that
\* of a document which a later one without metadata has replaced.
ResultExplained ==
    \A r \in Readers : Finished(r) =>
        \E newer \in seenAt[r] .. Len(log) :
            details[r] = Resolve(log[seenAt[r]].flags, log[newer].metadata, request[r])

\* The hook guards a flag by the metadata in the flag's own definition: an
\* evaluation that passes never used a definition that asks for more.
OwnMinimumGuards ==
    \A r \in Readers : Finished(r) /\ passed[r] =>
        LET own == log[seenAt[r]].flags[request[r].key].metadata IN
        own.kind = "version" => CurrentVersion >= own.version

\* "fails a flag evaluation when the binary's version is lower than the
\* minimum version stored in the flag's metadata" (codereadiness.h), for the
\* metadata that the flag's document gives it, global metadata included.
DocumentMinimumGuards ==
    \A r \in Readers : Finished(r) /\ passed[r] =>
        LET contents == log[seenAt[r]]
            minimum == Resolve(contents.flags, contents.metadata, request[r]).metadata
        IN  minimum.kind = "version" => CurrentVersion >= minimum.version
=============================================================================
