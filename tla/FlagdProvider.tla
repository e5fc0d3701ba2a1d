--------------------------- MODULE FlagdProvider ---------------------------
(***************************************************************************)
(* The OpenFeature provider (providers/flagd/src/provider.cpp) around the  *)
(* flag synchroniser: is_ready_, an atomic that Init and Shutdown check,   *)
(* act on and then set, without a lock, and that every evaluation checks   *)
(* before it reads the flag store.                                         *)
(*                                                                         *)
(* fresh is history: an evaluation's check has not been overtaken by the   *)
(* end of a Shutdown.                                                      *)
(***************************************************************************)
EXTENDS GrpcSync

CONSTANT Evaluators   \* threads that evaluate flags

\* A thread makes one kind of call.
ASSUME CallerAssumption == Initers \cap Stoppers = {}

VARIABLES
    isReady,  \* is_ready_
    call,     \* where each caller is in the provider's Init or Shutdown
    answer,   \* what each caller's last call of the provider returned
    reading,  \* evaluators past the check of is_ready_
    served,   \* what each evaluator's last evaluation was answered from
    fresh     \* history, see above

provider == <<isReady, call, answer>>
evaluations == <<reading, served, fresh>>
allVars == <<vars, provider, evaluations>>

ProviderInit ==
    /\ Init
    /\ isReady = FALSE
    /\ call = [t \in Callers |-> "outside"]
    /\ answer = [t \in Callers |-> "none"]
    /\ reading = {} /\ fresh = {}
    /\ served = [e \in Evaluators |-> "none"]

-----------------------------------------------------------------------------
(* Init and Shutdown                                                       *)

Answered(t, result) == /\ call' = [call EXCEPT ![t] = "outside"]
                       /\ answer' = [answer EXCEPT ![t] = result]
Moved(t, to) == call' = [call EXCEPT ![t] = to] /\ UNCHANGED answer

\* The look at is_ready_, which may end the call.
Checks(t, done) ==
    /\ call[t] = "outside"
    /\ IF done THEN Answered(t, "Ok") ELSE Moved(t, "checked")
    /\ UNCHANGED <<isReady, vars, evaluations>>

InitChecks(t) == Checks(t, isReady)

NeverIdle == FALSE
NothingToShutDown == ~isReady
ShutdownChecks(t) == Checks(t, NothingToShutDown)

\* sync_->Init or sync_->Shutdown, from its first step on.
CallsSync(t) ==
    /\ call[t] = "checked"
    /\ \/ t \in Initers /\ InitCalled(t)
       \/ t \in Stoppers /\ ShutdownCalled(t)
    /\ Moved(t, "syncing")
    /\ UNCHANGED <<isReady, evaluations>>

AsyncReturn(t) == call[t] = "syncing"
SyncReturned(t) == call[t] = "syncing" /\ pc[t] = "idle"

ReadyEvenOnError(t) == TRUE
ReadyOnSuccess(t) == isReady \/ ret[t] = "Ok"

InitEnds(t) ==
    /\ t \in Initers /\ SyncReturned(t)
    /\ isReady' = ReadyOnSuccess(t)
    /\ Answered(t, ret[t])
    /\ UNCHANGED <<vars, evaluations>>

\* An exception passes by the reset of is_ready_.
StillReady == isReady
NotReady == FALSE

ShutdownEnds(t) ==
    /\ t \in Stoppers /\ SyncReturned(t)
    /\ isReady' = IF ret[t] = "threw" THEN isReady ELSE NotReady
    /\ Answered(t, ret[t])
    /\ fresh' = {}
    /\ UNCHANGED <<vars, reading, served>>

-----------------------------------------------------------------------------
(* Get*Evaluation                                                          *)

EvaluationChecks(e) ==
    /\ e \notin reading
    /\ IF isReady
       THEN /\ reading' = reading \cup {e} /\ fresh' = fresh \cup {e}
            /\ UNCHANGED served
       ELSE /\ served' = [served EXCEPT ![e] = "NotReady"]
            /\ UNCHANGED <<reading, fresh>>
    /\ UNCHANGED <<vars, provider>>

\* ResolveAny takes the store's flags.
EvaluationReads(e) ==
    /\ e \in reading
    /\ served' = [served EXCEPT ![e] = flags]
    /\ reading' = reading \ {e}
    /\ UNCHANGED <<vars, provider, fresh>>

-----------------------------------------------------------------------------
\* Inside sync_'s functions, and in its thread, nothing of the provider moves.
SyncProceeds ==
    /\ \/ \E t \in Callers : InitProceeds(t) \/ ShutdownProceeds(t)
       \/ BgProceeds \/ ServerActs \/ SecondPasses
       \/ \E t \in Callers \cup {Bg} : SpuriousWakeup(t) \/ FallsAsleep(t)
    /\ UNCHANGED <<provider, evaluations>>

ProviderProceeds(t) == CallsSync(t) \/ InitEnds(t) \/ ShutdownEnds(t)

ProviderNext ==
    /\ Running
    /\ \/ \E t \in Initers : InitChecks(t)
       \/ \E t \in Stoppers : ShutdownChecks(t)
       \/ \E t \in Callers : ProviderProceeds(t)
       \/ \E e \in Evaluators : EvaluationChecks(e) \/ EvaluationReads(e)
       \/ SyncProceeds

ProviderSpec == ProviderInit /\ [][ProviderNext]_allVars

\* As for the synchroniser: threads inside a call are scheduled.
ProviderFairSpec ==
    /\ ProviderSpec
    /\ \A t \in Callers :
          /\ WF_allVars(Running /\ ProviderProceeds(t))
          /\ WF_allVars(Running /\ (InitProceeds(t) \/ ShutdownProceeds(t))
                        /\ UNCHANGED <<provider, evaluations>>)
    /\ WF_allVars(Running /\ BgProceeds /\ UNCHANGED <<provider, evaluations>>)

-----------------------------------------------------------------------------
(* Properties                                                              *)

\* The types; a thread is inside sync_ only while its provider call is.
ProviderTypeOK ==
    /\ TypeOK
    /\ isReady \in BOOLEAN
    /\ call \in [Callers -> {"outside", "checked", "syncing"}]
    /\ \A t \in Callers : call[t] # "syncing" => pc[t] = "idle"
    /\ answer \in [Callers -> Results \cup {"none", "Failed", "threw"}]
    /\ reading \subseteq Evaluators /\ fresh \subseteq Evaluators
    /\ served \in [Evaluators -> {"none", "NotReady", "empty", "current", "previous"}]

ShuttingDown == \E t \in Stoppers : call[t] # "outside"

\* A provider that says it is ready, and that nobody is shutting down, has a
\* session: evaluations are not answered from the remains of one.
ReadyHasSession == isReady /\ ~ShuttingDown => state # "Uninitialized"

\* With one thread that initialises and one that shuts down, is_ready_ alone
\* keeps sync_'s Init and Shutdown from ever overlapping.
CallsApart ==
    \A i \in Initers, s \in Stoppers : call[i] # "outside" => call[s] = "outside"

\* An evaluation answered from a former session's flags was overtaken by the
\* end of a Shutdown.
ServedFromSession ==
    \A e \in Evaluators : e \in reading \cap fresh => flags # "previous"

\* "ShutdownMakesProviderNotReady" (provider_test.cpp): when every call has
\* returned and the session is shut down, evaluations are refused.
ShutdownMakesNotReady ==
    state = "Uninitialized" /\ (\A t \in Callers : call[t] = "outside") => ~isReady

\* Every call of the provider's Init and Shutdown returns.
ProviderCallsReturn == \A t \in Callers : call[t] # "outside" ~> call[t] = "outside"
=============================================================================
