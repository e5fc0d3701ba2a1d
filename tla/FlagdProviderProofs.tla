------------------------ MODULE FlagdProviderProofs ------------------------
(***************************************************************************)
(* Proofs about FlagdProvider when one thread initialises and one shuts    *)
(* down: is_ready_ then keeps them apart, and stands for a session.        *)
(***************************************************************************)
EXTENDS FlagdProvider, GrpcSyncProofs

OneOfEach == /\ \A i, j \in Initers : i = j
             /\ \A s, t \in Stoppers : s = t

-----------------------------------------------------------------------------
(* The provider uses the synchroniser as its specification says.           *)

LEMMA ProviderStepIsStep == [ProviderNext]_allVars => [Next]_vars
  <1> SUFFICES ASSUME [ProviderNext]_allVars PROVE [Next]_vars
    OBVIOUS
  <1>1. CASE UNCHANGED allVars
    BY <1>1 DEF allVars
  <1>2. CASE Running /\ SyncProceeds
    BY <1>2 DEF SyncProceeds, Next
  <1>3. CASE Running /\ \E t \in Callers : CallsSync(t)
    BY <1>3 DEF CallsSync, Next
  <1>4. CASE UNCHANGED vars
    BY <1>4
  <1> QED
    BY <1>1, <1>2, <1>3, <1>4
       DEF ProviderNext, ProviderProceeds, InitChecks, ShutdownChecks, Checks,
           InitEnds, ShutdownEnds, EvaluationChecks, EvaluationReads

\* Whatever holds of the synchroniser holds of it inside the provider.
THEOREM SyncInside == ProviderSpec => Spec
  <1>1. ProviderInit => Init
    BY DEF ProviderInit
  <1> QED
    BY <1>1, ProviderStepIsStep, PTL DEF ProviderSpec, Spec

LEMMA OneOfEachIsSafe == OneOfEach => SafeConfig
  BY DEF OneOfEach, SafeConfig

-----------------------------------------------------------------------------
(* Types, for any number of threads of each kind.                          *)

\* A thread that goes on inside sync_ is inside it, and moves no other one.
LEMMA ProceedsInside ==
  ASSUME TypeOK, NEW t \in Callers, InitProceeds(t) \/ ShutdownProceeds(t)
  PROVE  pc[t] # "idle" /\ \A u \in Callers \ {t} : pc'[u] = pc[u]
  <1> USE DEF Goto, Return
  <1>1. pc \in [Callers -> CallerPcs]
    BY DEF TypeOK
  <1>2. CASE InitResumes(t) \/ InitWakes(t)
    BY <1>1, <1>2 DEF InitResumes, InitWakes, StartSession, StateUndone
  <1>3. CASE InitTimesOut(t) \/ InitReadsResult(t)
    BY <1>1, <1>3 DEF InitTimesOut, InitReadsResult
  <1>4. CASE ShutdownProceeds(t)
    BY <1>1, <1>4 DEF ShutdownProceeds, ShutdownWakes, JoinChecks, JoinCalled,
                      JoinReturns, ShutdownFinishes
  <1> QED
    BY <1>2, <1>3, <1>4 DEF InitProceeds

\* Calling sync_ moves the thread that calls, and no other one.
LEMMA CallMovesCaller ==
  ASSUME TypeOK, NEW t \in Callers, InitCalled(t) \/ ShutdownCalled(t)
  PROVE  \A u \in Callers \ {t} : pc'[u] = pc[u]
  <1> USE DEF TypeOK, Goto, Return, calls, session
  <1>1. CASE InitCalled(t)
    BY <1>1 DEF InitCalled, InitReturns, InitStarts, InitJoins, StartSession, StateUndone
  <1>2. CASE ShutdownCalled(t)
    BY <1>2 DEF ShutdownCalled, ShutdownReturns, ShutdownWaits, ShutdownStarts
  <1> QED
    BY <1>1, <1>2

\* The thread of sync_, and sleeping and waking, move no caller.
LEMMA ThreadMovesNobody ==
  ASSUME BgProceeds \/ ServerActs \/ SecondPasses
         \/ \E t \in Callers \cup {Bg} : SpuriousWakeup(t) \/ FallsAsleep(t)
  PROVE  UNCHANGED pc
  BY DEF BgProceeds, LoopChecks, StreamOpens, SyncFlagsCalled, StreamLosesObject,
         StreamConnects, StreamCancelled, FinishStream, StreamJudged, FatalDeclared,
         GraceChecked, BackoffStops, StreamRetried, ServerActs, MessageIgnored,
         MessageStored, StreamBreaks, SecondPasses, SpuriousWakeup, FallsAsleep, calls

LEMMA ProviderTypeStep ==
  ProviderTypeOK /\ TypeOK' /\ [ProviderNext]_allVars => ProviderTypeOK'
  <1> SUFFICES ASSUME ProviderTypeOK, TypeOK', [ProviderNext]_allVars
               PROVE  ProviderTypeOK'
    OBVIOUS
  <1> USE DEF ProviderTypeOK, provider, evaluations
  <1>1. CASE UNCHANGED allVars
    BY <1>1 DEF allVars, vars, calls
  <1>2. CASE SyncProceeds
    <2>1. \A t \in Callers : call[t] # "syncing" => pc'[t] = "idle"
      <3>1. ASSUME NEW u \in Callers, InitProceeds(u) \/ ShutdownProceeds(u)
            PROVE  \A t \in Callers : call[t] # "syncing" => pc'[t] = "idle"
        BY <3>1, ProceedsInside
      <3> QED
        BY <1>2, <3>1, ThreadMovesNobody DEF SyncProceeds
    <2> QED
      BY <1>2, <2>1 DEF SyncProceeds
  <1>3. ASSUME NEW u \in Callers, CallsSync(u) PROVE ProviderTypeOK'
    <2>1. call' = [call EXCEPT ![u] = "syncing"] /\ UNCHANGED <<isReady, answer, evaluations>>
      BY <1>3 DEF CallsSync, Moved
    <2>2. \A t \in Callers \ {u} : pc'[t] = pc[t]
      BY <1>3, CallMovesCaller DEF CallsSync
    <2> QED
      BY <2>1, <2>2
  <1>4. ASSUME UNCHANGED vars,
               \/ \E i \in Initers : InitChecks(i)
               \/ \E s \in Stoppers : ShutdownChecks(s)
               \/ \E t \in Callers : InitEnds(t) \/ ShutdownEnds(t)
               \/ \E e \in Evaluators : EvaluationChecks(e) \/ EvaluationReads(e)
        PROVE  ProviderTypeOK'
    <2> USE DEF Answered, Moved, Checks, SyncReturned
    <2>1. UNCHANGED pc
      BY <1>4 DEF vars, calls
    <2>2. /\ ret \in [Callers -> Results \cup {"none", "Failed", "threw"}]
          /\ flags \in {"empty", "current", "previous"} /\ "Ok" \in Results
      BY DEF TypeOK, Results
    <2>3. ASSUME NEW t \in Callers, InitChecks(t) \/ ShutdownChecks(t)
          PROVE  ProviderTypeOK'
      BY <1>4, <2>1, <2>2, <2>3 DEF InitChecks, ShutdownChecks, NothingToShutDown
    <2>4. ASSUME NEW t \in Callers, InitEnds(t) \/ ShutdownEnds(t)
          PROVE  ProviderTypeOK'
      BY <1>4, <2>1, <2>2, <2>4 DEF InitEnds, ShutdownEnds, NotReady, ReadyOnSuccess
    <2>5. ASSUME NEW e \in Evaluators, EvaluationChecks(e) \/ EvaluationReads(e)
          PROVE  ProviderTypeOK'
      BY <1>4, <2>1, <2>2, <2>5 DEF EvaluationChecks, EvaluationReads
    <2> QED
      BY <1>4, <2>3, <2>4, <2>5 DEF Callers
  <1>5. CASE ProviderNext /\ ~SyncProceeds /\ ~\E t \in Callers : CallsSync(t)
    <2>1. UNCHANGED vars
      BY <1>5 DEF ProviderNext, ProviderProceeds, InitChecks, ShutdownChecks, Checks,
                  InitEnds, ShutdownEnds, EvaluationChecks, EvaluationReads
    <2> QED
      BY <1>4, <1>5, <2>1 DEF ProviderNext, ProviderProceeds
  <1> QED
    BY <1>1, <1>2, <1>3, <1>5

\* However many threads initialise, shut down and evaluate: every variable has
\* its type, and a thread is inside sync_ only while its call of the provider is.
THEOREM ProviderTypeCorrect == ProviderSpec => []ProviderTypeOK
  <1>1. ProviderInit => ProviderTypeOK
    <2> SUFFICES ASSUME ProviderInit PROVE ProviderTypeOK
      OBVIOUS
    <2>1. TypeOK /\ \A t \in Callers : pc[t] = "idle"
      BY TypeInit DEF ProviderInit, Init
    <2> QED
      BY <2>1 DEF ProviderInit, ProviderTypeOK
  <1>2. ProviderSpec => []TypeOK
    BY SyncInside, TypeCorrect, PTL
  <1> QED
    BY <1>1, <1>2, ProviderTypeStep, PTL DEF ProviderSpec

-----------------------------------------------------------------------------
\* The session that a successful Init leaves, until a shutdown.
HasSession == state \in {"Ready", "Reconnecting", "Fatal"} /\ flags # "previous"

\* While one call is inside, is_ready_ turns the other kind away; a session
\* is only shut down by a Shutdown that is inside.
ProviderInv ==
    /\ OneOfEach
    /\ isReady \in BOOLEAN
    /\ call \in [Callers -> {"outside", "checked", "syncing"}]
    /\ \A t \in Callers : call[t] # "syncing" => pc[t] = "idle"
    /\ \A i \in Initers : call[i] # "outside" => ~isReady
    /\ \A s \in Stoppers : call[s] # "outside" => isReady
    /\ state = "ShuttingDown" => \E s \in Stoppers : pc[s] \in Joining
    /\ \A i \in Initers :
          /\ pc[i] \in InitPcs => state \in {"Initializing", "Ready", "Reconnecting", "Fatal"}
          /\ SyncReturned(i) /\ ret[i] = "Ok" => HasSession
    /\ isReady => flags # "previous"
    /\ isReady /\ ~ShuttingDown => HasSession
    /\ fresh # {} => isReady

LEMMA ProviderInvInit == OneOfEach /\ ProviderInit => ProviderInv
  <1> SUFFICES ASSUME OneOfEach, ProviderInit PROVE ProviderInv
    OBVIOUS
  <1>1. /\ isReady = FALSE /\ fresh = {} /\ state = "Uninitialized"
        /\ call \in [Callers -> {"outside", "checked", "syncing"}]
        /\ \A t \in Callers : call[t] = "outside" /\ pc[t] = "idle"
    BY DEF ProviderInit, Init
  <1> QED
    BY <1>1 DEF ProviderInv, InitPcs, SyncReturned, Callers

\* What the proofs about the synchroniser give a step of the provider.
Known == SafeInv /\ SafeInv' /\ ServedData /\ ResultMatchesState /\ ProviderInv

\* The background thread, and sleeping and waking, leave the calls alone;
\* they never end a session.
LEMMA ThreadKeepsProvider ==
  ASSUME Known, UNCHANGED <<provider, evaluations>>, Running,
         BgProceeds \/ ServerActs \/ SecondPasses
         \/ \E t \in Callers \cup {Bg} : SpuriousWakeup(t) \/ FallsAsleep(t)
  PROVE  ProviderInv'
  <1> DEFINE Up == {"Initializing", "Ready", "Reconnecting", "Fatal"}
  <1> USE DEF session, channel, worker, stream, calls
  <1>1. UNCHANGED calls
    BY DEF BgProceeds, LoopChecks, StreamOpens, SyncFlagsCalled, StreamLosesObject,
           StreamConnects, StreamCancelled, FinishStream, StreamJudged,
           FatalDeclared, GraceChecked, BackoffStops, StreamRetried, ServerActs,
           MessageIgnored, MessageStored, StreamBreaks, SecondPasses,
           SpuriousWakeup, FallsAsleep
  <1>2. /\ state \in Up => state' \in Up
        /\ HasSession => HasSession'
        /\ state' = "ShuttingDown" => state = "ShuttingDown"
        /\ flags # "previous" => flags' # "previous"
    <2> USE DEF HasSession
    <2>1. CASE UNCHANGED <<state, flags>>
      BY <2>1
    <2>2. CASE MessageStored
      BY <2>2 DEF MessageStored
    <2>3. CASE StreamConnects
      BY <2>3 DEF StreamConnects, AwaitsData, BecomeReady
    <2>4. CASE StreamJudged
      BY <2>4 DEF StreamJudged, HandleNonFatalError, Demoted
    <2>5. CASE FatalDeclared
      BY <2>5 DEF FatalDeclared
    <2>6. CASE GraceChecked
      BY <2>6 DEF GraceChecked
    <2> QED
      BY <2>1, <2>2, <2>3, <2>4, <2>5, <2>6
         DEF BgProceeds, LoopChecks, StreamOpens, SyncFlagsCalled, StreamLosesObject,
             StreamCancelled, FinishStream, BackoffStops, StreamRetried, ServerActs,
             MessageIgnored, StreamBreaks, SecondPasses, SpuriousWakeup, FallsAsleep
  <1> QED
    BY <1>1, <1>2 DEF Known, ProviderInv, provider, evaluations, SyncReturned, ShuttingDown

\* Nobody shuts down while an Init of the provider is inside.
LEMMA InitIsAlone ==
  ASSUME Known, NEW i \in Initers, call[i] # "outside"
  PROVE  /\ isReady = FALSE /\ fresh = {} /\ state # "ShuttingDown"
         /\ \A s \in Stoppers : call[s] = "outside" /\ pc[s] = "idle"
  BY DEF Known, ProviderInv, Joining, Callers

\* An Init of the synchroniser, by the provider's only caller of it.
LEMMA InitCallKeepsProvider ==
  ASSUME Known, NEW i \in Initers, call[i] = "checked", InitCalled(i),
         Moved(i, "syncing"), UNCHANGED <<isReady, evaluations>>
  PROVE  ProviderInv'
  <1>1. /\ isReady = FALSE /\ fresh = {} /\ state # "ShuttingDown"
        /\ \A s \in Stoppers : call[s] = "outside" /\ pc[s] = "idle"
    BY InitIsAlone
  <1>2. /\ call \in [Callers -> {"outside", "checked", "syncing"}]
        /\ \A t \in Callers : call[t] # "syncing" => pc[t] = "idle"
        /\ pc \in [Callers -> CallerPcs] /\ i \in Callers
        /\ ret \in [Callers -> Results \cup {"none", "Failed", "threw"}]
        /\ OneOfEach /\ \A j \in Initers : j = i
        /\ Initers \subseteq Callers /\ Stoppers \subseteq Callers
    BY DEF Known, ProviderInv, SafeInv, TypeOK, OneOfEach, Callers
  <1>3. /\ call' = [call EXCEPT ![i] = "syncing"] /\ isReady' = FALSE /\ fresh' = {}
    BY <1>1 DEF Moved, evaluations
  <1>4. /\ state' # "ShuttingDown"
        /\ \A t \in Callers : t # i => pc'[t] = pc[t]
        /\ pc'[i] \in InitPcs => state' \in {"Initializing", "Ready", "Reconnecting", "Fatal"}
        /\ pc'[i] = "idle" /\ ret'[i] = "Ok" => HasSession'
    <2> USE <1>1, <1>2 DEF Return, Goto, session, HasSession, InitPcs
    <2>1. CASE InitReturns(i)
      BY <2>1 DEF InitReturns, Known, ServedData, ResultMatchesState
    <2>2. CASE InitJoins(i)
      BY <2>2 DEF InitJoins
    <2>3. CASE StartSession(i)
      BY <2>3 DEF StartSession, StateUndone
    <2> QED
      BY <2>1, <2>2, <2>3 DEF InitCalled, InitStarts
  <1> QED
    BY <1>1, <1>2, <1>3, <1>4, CallerAssumption
       DEF ProviderInv, SyncReturned, ShuttingDown

\* The rest of that Init.
LEMMA InitProceedKeepsProvider ==
  ASSUME Known, UNCHANGED <<provider, evaluations>>, NEW i \in Callers, InitProceeds(i)
  PROVE  ProviderInv'
  <1>1. /\ call \in [Callers -> {"outside", "checked", "syncing"}]
        /\ \A t \in Callers : call[t] # "syncing" => pc[t] = "idle"
        /\ pc \in [Callers -> CallerPcs]
        /\ ret \in [Callers -> Results \cup {"none", "Failed", "threw"}]
        /\ Initers \subseteq Callers /\ Stoppers \subseteq Callers
        /\ pc[i] \in InitPcs => i \in Initers
    BY DEF Known, ProviderInv, SafeInv, TypeOK, Callers
  <1>2. pc[i] \in InitPcs /\ i \in Initers
    BY <1>1 DEF InitProceeds, InitResumes, InitWakes, InitTimesOut, InitReadsResult,
                InitPcs
  <1>3. call[i] = "syncing"
    BY <1>1, <1>2 DEF InitPcs
  <1>4. /\ isReady = FALSE /\ fresh = {} /\ state # "ShuttingDown"
        /\ \A s \in Stoppers : call[s] = "outside" /\ pc[s] = "idle"
        /\ \A j \in Initers : j = i
    BY <1>2, <1>3, InitIsAlone DEF Known, ProviderInv, OneOfEach
  <1>5. state \in {"Initializing", "Ready", "Reconnecting", "Fatal"}
    BY <1>2 DEF Known, ProviderInv
  <1>6. /\ UNCHANGED <<state, flags>>
        /\ \A t \in Callers : t # i => pc'[t] = pc[t]
        /\ pc'[i] = "idle" /\ ret'[i] = "Ok" => HasSession
    <2> USE <1>1, <1>5 DEF Return, Goto, session, HasSession, Known, ServedData,
                           ResultMatchesState
    <2>1. CASE InitResumes(i)
      BY <2>1 DEF InitResumes
    <2>2. CASE InitWakes(i)
      BY <2>2 DEF InitWakes
    <2>3. CASE InitTimesOut(i)
      BY <2>3 DEF InitTimesOut
    <2>4. CASE InitReadsResult(i)
      BY <2>4 DEF InitReadsResult
    <2> QED
      BY <2>1, <2>2, <2>3, <2>4 DEF InitProceeds
  <1> QED
    BY <1>1, <1>2, <1>3, <1>4, <1>5, <1>6
       DEF Known, ProviderInv, SyncReturned, ShuttingDown, provider, evaluations,
           HasSession

\* A Shutdown of the synchroniser, by the provider's only caller of it, begins
\* or goes on.
LEMMA ShutdownKeepsProvider ==
  ASSUME Known, NEW s \in Stoppers, UNCHANGED <<isReady, evaluations>>,
         \/ /\ call[s] = "checked" /\ ShutdownCalled(s) /\ Moved(s, "syncing")
         \/ ShutdownProceeds(s) /\ UNCHANGED call
  PROVE  ProviderInv'
  <1>1. /\ call \in [Callers -> {"outside", "checked", "syncing"}]
        /\ \A t \in Callers : call[t] # "syncing" => pc[t] = "idle"
        /\ pc \in [Callers -> CallerPcs] /\ s \in Callers
        /\ Initers \subseteq Callers /\ Stoppers \subseteq Callers
        /\ OneOfEach /\ \A t \in Stoppers : t = s
    BY DEF Known, ProviderInv, SafeInv, TypeOK, OneOfEach, Callers
  <1>2. call[s] # "outside" /\ call' = [call EXCEPT ![s] = "syncing"]
    BY <1>1 DEF Moved, ShutdownProceeds, ShutdownWakes, JoinChecks, JoinCalled,
                JoinReturns, ShutdownFinishes
  <1>3. /\ isReady = TRUE /\ ShuttingDown' /\ flags # "previous"
        /\ \A i \in Initers : call[i] = "outside" /\ pc[i] = "idle" /\ i # s
    BY <1>1, <1>2, CallerAssumption DEF Known, ProviderInv, ShuttingDown
  <1>4. /\ flags' = flags
        /\ \A t \in Callers : t # s => pc'[t] = pc[t]
        /\ state' = "ShuttingDown" => pc'[s] \in Joining
    <2> USE <1>1 DEF Return, Goto, session, channel, worker, Joining
    <2>1. CASE ShutdownCalled(s)
      <3>1. state # "ShuttingDown"
        BY <1>2, <2>1 DEF Known, ProviderInv, ShutdownCalled, ShutdownReturns,
                          ShutdownWaits, ShutdownStarts
      <3> QED
        BY <2>1, <3>1 DEF ShutdownCalled, ShutdownReturns, ShutdownWaits,
                          ShutdownInProgress, ShutdownStarts
    <2>2. CASE ShutdownProceeds(s)
      <3>1. state = "ShuttingDown" => pc[s] \in Joining
        BY DEF Known, ProviderInv
      <3>2. ret'[s] # "threw"
        BY DEF Known, SafeInv, OneTeardown, JoinsSafely
      <3>3. ret \in [Callers -> Results \cup {"none", "Failed", "threw"}]
        BY DEF Known, SafeInv, TypeOK
      <3> QED
        BY <2>2, <3>1, <3>2, <3>3
           DEF ShutdownProceeds, ShutdownWakes, JoinChecks, JoinCalled,
               JoinReturns, ShutdownFinishes, TargetState
    <2> QED
      BY <2>1, <2>2
  <1> QED
    BY <1>1, <1>2, <1>3, <1>4
       DEF ProviderInv, SyncReturned, InitPcs, evaluations

\* The provider's own steps: the checks of is_ready_ and its assignments.
LEMMA ProviderOwnSteps ==
  ASSUME Known, UNCHANGED vars,
         \/ \E i \in Initers : InitChecks(i)
         \/ \E s \in Stoppers : ShutdownChecks(s)
         \/ \E t \in Callers : InitEnds(t) \/ ShutdownEnds(t)
         \/ \E e \in Evaluators : EvaluationChecks(e) \/ EvaluationReads(e)
  PROVE  ProviderInv'
  <1>1. /\ isReady \in BOOLEAN
        /\ call \in [Callers -> {"outside", "checked", "syncing"}]
        /\ \A t \in Callers : call[t] # "syncing" => pc[t] = "idle"
        /\ Initers \subseteq Callers /\ Stoppers \subseteq Callers
    BY DEF Known, ProviderInv, Callers
  <1>2. UNCHANGED <<state, flags, pc, ret>> /\ UNCHANGED HasSession
    BY DEF vars, session, calls, HasSession
  <1> USE DEF Answered, Moved, Checks, provider, evaluations, SyncReturned, ShuttingDown
  <1>3. ASSUME NEW i \in Initers, InitChecks(i) PROVE ProviderInv'
    <2>1. /\ UNCHANGED <<isReady, fresh>>
          /\ call' = [call EXCEPT ![i] = IF isReady THEN "outside" ELSE "checked"]
          /\ call[i] = "outside"
      BY <1>1, <1>3 DEF InitChecks
    <2>2. \A s \in Stoppers : s # i /\ call'[s] = call[s]
      BY <1>1, <2>1, CallerAssumption
    <2> QED
      BY <1>1, <1>2, <2>1, <2>2 DEF Known, ProviderInv
  <1>4. ASSUME NEW s \in Stoppers, ShutdownChecks(s) PROVE ProviderInv'
    <2>1. /\ UNCHANGED <<isReady, fresh>>
          /\ call' = [call EXCEPT ![s] = IF isReady THEN "checked" ELSE "outside"]
          /\ call[s] = "outside"
      BY <1>1, <1>4 DEF ShutdownChecks, NothingToShutDown
    <2>2. \A i \in Initers : s # i /\ call'[i] = call[i]
      BY <1>1, <2>1, CallerAssumption
    <2> QED
      BY <1>1, <1>2, <2>1, <2>2 DEF Known, ProviderInv
  <1>5. ASSUME NEW i \in Callers, InitEnds(i) PROVE ProviderInv'
    <2>1. /\ i \in Initers /\ SyncReturned(i) /\ UNCHANGED fresh
          /\ call' = [call EXCEPT ![i] = "outside"]
          /\ isReady' = ReadyOnSuccess(i)
      BY <1>5 DEF InitEnds
    <2>2. /\ isReady = FALSE /\ fresh = {}
          /\ \A j \in Initers : j = i
          /\ \A s \in Stoppers : call[s] = "outside" /\ s # i
      BY <2>1, InitIsAlone, CallerAssumption DEF Known, ProviderInv, OneOfEach
    <2>3. isReady' \in BOOLEAN /\ (isReady' => HasSession)
      BY <2>1, <2>2 DEF ReadyOnSuccess, Known, ProviderInv
    <2> QED
      BY <1>1, <1>2, <2>1, <2>2, <2>3 DEF Known, ProviderInv, HasSession
  <1>6. ASSUME NEW s \in Callers, ShutdownEnds(s) PROVE ProviderInv'
    <2>1. /\ s \in Stoppers /\ SyncReturned(s) /\ fresh' = {}
          /\ call' = [call EXCEPT ![s] = "outside"]
          /\ ret[s] # "threw" /\ isReady' = FALSE
      BY <1>6 DEF ShutdownEnds, NotReady, Known, SafeInv, OneTeardown, JoinsSafely
    <2>2. /\ \A t \in Stoppers : t = s
          /\ \A i \in Initers : i # s /\ call[i] = "outside"
      BY <2>1, <1>1, CallerAssumption DEF Known, OneOfEach, ProviderInv
    <2> QED
      BY <1>1, <1>2, <2>1, <2>2 DEF Known, ProviderInv
  <1>7. ASSUME NEW e \in Evaluators, EvaluationChecks(e) \/ EvaluationReads(e)
        PROVE  ProviderInv'
    <2>1. UNCHANGED <<isReady, call>> /\ (fresh' # {} => isReady)
      BY <1>1, <1>7 DEF EvaluationChecks, EvaluationReads, Known, ProviderInv
    <2> QED
      BY <1>1, <1>2, <2>1 DEF Known, ProviderInv
  <1> QED
    BY <1>3, <1>4, <1>5, <1>6, <1>7

LEMMA ProviderInvStep == Known /\ [ProviderNext]_allVars => ProviderInv'
  <1> SUFFICES ASSUME Known, [ProviderNext]_allVars PROVE ProviderInv'
    OBVIOUS
  <1>1. CASE UNCHANGED allVars
    BY <1>1 DEF allVars, vars, session, calls, provider, evaluations, Known,
                ProviderInv, SyncReturned, ShuttingDown, HasSession
  <1>2. CASE Running /\ SyncProceeds
    <2>1. CASE \E t \in Callers : InitProceeds(t)
      BY <1>2, <2>1, InitProceedKeepsProvider DEF SyncProceeds
    <2>2. CASE \E t \in Callers : ShutdownProceeds(t)
      <3> PICK s \in Callers : ShutdownProceeds(s)
        BY <2>2
      <3>1. pc[s] \in Joining \cup {"shut_wait"}
        BY DEF ShutdownProceeds, ShutdownWakes, JoinChecks, JoinCalled,
               JoinReturns, ShutdownFinishes, Joining
      <3>2. s \in Stoppers
        BY <3>1 DEF Known, SafeInv, TypeOK
      <3> QED
        BY <1>2, <3>2, ShutdownKeepsProvider DEF SyncProceeds, provider
    <2> QED
      BY <1>2, <2>1, <2>2, ThreadKeepsProvider DEF SyncProceeds
  <1>3. ASSUME NEW t \in Callers, CallsSync(t) PROVE ProviderInv'
    BY <1>3, InitCallKeepsProvider, ShutdownKeepsProvider DEF CallsSync
  <1>4. CASE Running /\ ~SyncProceeds /\ ~\E t \in Callers : CallsSync(t)
    <2>1. ProviderNext => UNCHANGED vars
      BY <1>4 DEF ProviderNext, ProviderProceeds, InitChecks, ShutdownChecks,
                  Checks, InitEnds, ShutdownEnds, EvaluationChecks, EvaluationReads
    <2> QED
      BY <1>1, <1>4, <2>1, ProviderOwnSteps DEF ProviderNext, ProviderProceeds
  <1> QED
    BY <1>1, <1>2, <1>3, <1>4 DEF ProviderNext

LEMMA ProviderInvAlways == OneOfEach /\ ProviderSpec => []ProviderInv
  <1>1. OneOfEach /\ ProviderSpec => []SafeInv /\ []ServedData /\ []ResultMatchesState
    BY OneOfEachIsSafe, SyncInside, SafeAlways, ServedDataAlways, ResultsMatch, PTL
  <1>2. SafeInv /\ SafeInv' /\ ServedData /\ ResultMatchesState /\ ProviderInv
        /\ [ProviderNext]_allVars => ProviderInv'
    BY ProviderInvStep DEF Known
  <1> QED
    BY <1>1, <1>2, ProviderInvInit, PTL DEF ProviderSpec

\* With one thread of each kind, is_ready_ keeps the synchroniser's Init and
\* Shutdown apart.
THEOREM CallsAreApart == OneOfEach /\ ProviderSpec => []CallsApart
  <1>1. ProviderInv => CallsApart
    BY CallerAssumption DEF ProviderInv, CallsApart, Callers
  <1> QED
    BY <1>1, ProviderInvAlways, PTL

\* With one thread of each kind, a ready provider has a session.
THEOREM ReadyMeansSession == OneOfEach /\ ProviderSpec => []ReadyHasSession
  <1>1. ProviderInv => ReadyHasSession
    BY DEF ProviderInv, ReadyHasSession, HasSession
  <1> QED
    BY <1>1, ProviderInvAlways, PTL

\* With one thread of each kind, evaluations that no Shutdown overtook are
\* never answered from a former session.
THEOREM EvaluationsAreOfSession == OneOfEach /\ ProviderSpec => []ServedFromSession
  <1>1. ProviderInv => ServedFromSession
    BY DEF ProviderInv, ServedFromSession
  <1> QED
    BY <1>1, ProviderInvAlways, PTL
=============================================================================
