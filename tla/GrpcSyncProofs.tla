--------------------------- MODULE GrpcSyncProofs ---------------------------
(***************************************************************************)
(* Proofs about GrpcSync for any sets of callers, any status codes and any *)
(* grace period, and that it implements FlagSyncContract.                  *)
(***************************************************************************)
EXTENDS GrpcSyncRefinement, TLAPS

-----------------------------------------------------------------------------
(* Type correctness and the condition variable, in every configuration     *)

\* The initial state has the right types.
LEMMA TypeInit == Init => TypeOK
  <1> SUFFICES ASSUME Init PROVE TypeOK
    OBVIOUS
  <1>1. 0 \in 0 .. GracePeriod + 1
    BY ConfigAssumption
  <1> QED
    BY <1>1 DEF Init, TypeOK, States, Results, Points, InStream, CallerPcs,
       InitPcs, Joining, Callers, Waiting

\* Every step of the program keeps the types.
LEMMA TypeStep == TypeOK /\ [Next]_vars => TypeOK'
  <1> SUFFICES ASSUME TypeOK, [Next]_vars PROVE TypeOK'
    OBVIOUS
  <1> USE ThreadAssumption, ConfigAssumption
      DEF TypeOK, States, Results, Points, InStream, CallerPcs, InitPcs,
          Joining, Callers, Waiting, session, channel, stream, worker, calls,
          Return, Goto, NotifyAll, TargetState
  <1>1. CASE \E t \in Initers : InitReturns(t)
    BY <1>1 DEF InitReturns
  <1>2. CASE \E t \in Initers : InitJoins(t)
    BY <1>2 DEF InitJoins
  <1>3. ASSUME NEW t \in Initers, pc[t] \in {"idle", "init_shut"},
               t \notin asleep, StartSession(t)
        PROVE  TypeOK'
    <2>1. CASE /\ state' = "Uninitialized"
               /\ Return(t, "Failed")
               /\ UNCHANGED <<context, flags, worker, asleep, fault>>
               /\ stub' \in BOOLEAN
      BY <1>3, <2>1 DEF StartSession, StateUndone, FreshResult
    <2>2. CASE /\ stub' = TRUE
               /\ state' = "Initializing"
               /\ flags' = IF flags = "current" THEN "previous" ELSE flags
               /\ Goto(t, "init_wait")
               /\ asleep' = asleep \cup {t}
               /\ IF thread = "off"
                  THEN thread' = "loop" /\ sinceHealthy' = 0 /\ UNCHANGED fault
                  ELSE fault' = "terminate" /\ UNCHANGED <<thread, sinceHealthy>>
               /\ UNCHANGED <<context, stream>>
      BY <1>3, <2>2 DEF StartSession, StateUndone, FreshResult
    <2> QED
      BY <1>3, <2>1, <2>2 DEF StartSession, StateUndone
  <1>4. CASE \E t \in Initers : InitStarts(t)
    BY <1>3, <1>4 DEF InitStarts
  <1>5. CASE \E t \in Callers : InitResumes(t)
    BY <1>3, <1>5 DEF InitResumes
  <1>6. CASE \E t \in Callers : InitWakes(t)
    BY <1>6 DEF InitWakes
  <1>7. CASE \E t \in Callers : InitTimesOut(t)
    BY <1>7 DEF InitTimesOut
  <1>8. CASE \E t \in Callers : InitReadsResult(t)
    BY <1>8 DEF InitReadsResult
  <1>9. CASE \E t \in Stoppers : ShutdownReturns(t)
    BY <1>9 DEF ShutdownReturns
  <1>10. CASE \E t \in Stoppers : ShutdownWaits(t)
    BY <1>10 DEF ShutdownWaits
  <1>11. CASE \E t \in Stoppers : ShutdownStarts(t)
    BY <1>11 DEF ShutdownStarts
  <1>12. CASE \E t \in Callers : ShutdownWakes(t)
    BY <1>12 DEF ShutdownWakes
  <1>13. CASE \E t \in Callers : JoinChecks(t)
    BY <1>13 DEF JoinChecks
  <1>14. CASE \E t \in Callers : JoinCalled(t)
    BY <1>14 DEF JoinCalled
  <1>15. CASE \E t \in Callers : JoinReturns(t)
    BY <1>15 DEF JoinReturns
  <1>16. CASE \E t \in Callers : ShutdownFinishes(t)
    <2> PICK t \in Callers : ShutdownFinishes(t)
      BY <1>16
    <2>1. /\ pc' \in [Callers -> CallerPcs]
          /\ ret' \in [Callers -> Results \cup {"none", "Failed", "threw"}]
      BY DEF ShutdownFinishes
    <2>2. \A u \in Callers :
             /\ pc'[u] \in InitPcs => u \in Initers
             /\ pc'[u] \in Joining \cup {"shut_wait"} => u \in Stoppers
      BY DEF ShutdownFinishes
    <2>3. asleep' = {}
      BY DEF ShutdownFinishes
    <2>4. state' \in States /\ initResult' \in Results /\ initTimedOut' \in BOOLEAN
      BY DEF ShutdownFinishes
    <2> QED
      BY <2>1, <2>2, <2>3, <2>4 DEF ShutdownFinishes
  <1>17. CASE LoopChecks
    <2>1. /\ thread = "loop" /\ thread' \in {"exited", "open"}
          /\ connected' = FALSE /\ data' = FALSE /\ status' = "none"
          /\ UNCHANGED <<session, channel, flags, sinceHealthy, calls, asleep, fault>>
      BY <1>17 DEF LoopChecks
    <2>2. /\ state' = state /\ context' = context /\ flags' = flags /\ pc' = pc /\ ret' = ret
          /\ asleep' = asleep /\ fault' = fault /\ sinceHealthy' = sinceHealthy
          /\ initResult' = initResult /\ initTimedOut' = initTimedOut /\ stub' = stub
      BY <2>1
    <2>3. thread' \in Points
      BY <2>1
    <2>4. asleep' \subseteq {u \in Callers \cup {Bg} : Waiting(u)}'
      BY <2>1, <2>2
    <2> HIDE DEF Points, States, Results, CallerPcs, InitPcs, Joining, Callers, Waiting
    <2> QED BY <2>1, <2>2, <2>3, <2>4
  <1>18. CASE StreamOpens
    BY <1>18 DEF StreamOpens
  <1>19. CASE SyncFlagsCalled
    BY <1>19 DEF SyncFlagsCalled
  <1>20. CASE StreamLosesObject
    BY <1>20 DEF StreamLosesObject
  <1>21. CASE MessageIgnored
    BY <1>21 DEF MessageIgnored
  <1>22. CASE MessageStored
    BY <1>22 DEF MessageStored
  <1>23. CASE StreamConnects
    <2>1. CASE AwaitsData
      BY <1>23, <2>1 DEF StreamConnects, BecomeReady
    <2>2. CASE ~AwaitsData
      BY <1>23, <2>2 DEF StreamConnects
    <2> QED
      BY <2>1, <2>2
  <1>24. CASE StreamBreaks \/ StreamCancelled
    BY <1>24 DEF StreamBreaks, StreamCancelled, FinishStream
  <1>25. CASE StreamJudged
    BY <1>25 DEF StreamJudged, HandleNonFatalError
  <1>26. CASE FatalDeclared
    BY <1>26 DEF FatalDeclared
  <1>27. CASE GraceChecked
    BY <1>27 DEF GraceChecked
  <1>28. CASE BackoffStops \/ StreamRetried
    BY <1>28 DEF BackoffStops, StreamRetried
  <1>29. CASE SecondPasses
    BY <1>29 DEF SecondPasses, SecondsMatter
  <1>30. CASE \E t \in Callers \cup {Bg} : SpuriousWakeup(t) \/ FallsAsleep(t)
    BY <1>30 DEF SpuriousWakeup, FallsAsleep
  <1>31. CASE UNCHANGED vars
    BY <1>31 DEF vars
  <1> QED
    BY <1>1, <1>2, <1>4, <1>5, <1>6, <1>7, <1>8, <1>9, <1>10, <1>11, <1>12,
       <1>13, <1>14, <1>15, <1>16, <1>17, <1>18, <1>19, <1>20, <1>21, <1>22,
       <1>23, <1>24, <1>25, <1>26, <1>27, <1>28, <1>29, <1>30, <1>31
       DEF Next, InitCalled, ShutdownCalled, InitProceeds, ShutdownProceeds,
           BgProceeds, ServerActs

\* Type correctness of the whole synchroniser, in every configuration.
THEOREM TypeCorrect == Spec => []TypeOK
  BY TypeInit, TypeStep, PTL DEF Spec

\* A sleeping caller is inside one of the four waits.
LEMMA SleeperWaits ==
  ASSUME TypeOK, NEW t \in asleep, t # Bg
  PROVE  t \in Callers /\ pc[t] \in {"init_join", "init_wait", "init_shut", "shut_wait"}
  BY DEF TypeOK, Waiting

\* Every step leaves only threads asleep whose predicate is false: a step
\* that makes one true wakes everybody.
LEMMA WakeupStep == TypeOK /\ NoLostWakeup /\ [Next]_vars => NoLostWakeup'
  <1> SUFFICES ASSUME TypeOK, NoLostWakeup, [Next]_vars,
                      NEW t \in asleep'
               PROVE  ~MayProceed(t)'
    BY DEF NoLostWakeup
  <1>1. ASSUME t \in asleep, t # Bg
        PROVE  t \in Callers /\ pc[t] \in {"init_join", "init_wait", "init_shut", "shut_wait"}
    BY <1>1, SleeperWaits, Zenon
  <1> USE ThreadAssumption
      DEF NoLostWakeup, MayProceed, StopRequested, Callers, session, channel,
          stream, worker, calls, Return, Goto, NotifyAll, TargetState
  <1>2. \A u \in asleep : ~MayProceed(u)
    OBVIOUS
  <1>3. pc \in [Callers -> CallerPcs]
    BY DEF TypeOK
  <1>4. CASE \E u \in Initers : InitReturns(u) \/ InitJoins(u)
    BY <1>2, <1>3, <1>1, <1>4 DEF InitReturns, InitJoins
  <1>5. ASSUME NEW u \in Initers, pc[u] \in {"idle", "init_shut"},
               u \notin asleep, state = "Uninitialized", StartSession(u)
        PROVE  ~MayProceed(t)'
    BY <1>2, <1>3, <1>1, <1>5 DEF StartSession, StateUndone
  <1>6. CASE \E u \in Initers : InitStarts(u)
    BY <1>1, <1>5, <1>6 DEF InitStarts, Startable, TypeOK, Waiting
  <1>7. CASE \E u \in Callers : InitResumes(u)
    BY <1>5, <1>7 DEF InitResumes, TypeOK, InitPcs
  <1>8. CASE \E u \in Callers : InitWakes(u) \/ InitTimesOut(u) \/ InitReadsResult(u)
    BY <1>2, <1>3, <1>1, <1>8 DEF InitWakes, InitTimesOut, InitReadsResult
  <1>9. CASE \E u \in Stoppers : ShutdownReturns(u) \/ ShutdownWaits(u)
    BY <1>2, <1>3, <1>1, <1>9
       DEF ShutdownReturns, ShutdownWaits, ShutdownInProgress
  <1>10. CASE \E u \in Stoppers : ShutdownStarts(u)
    BY <1>2, <1>3, <1>1, <1>10 DEF ShutdownStarts
  <1>11. CASE \E u \in Callers : ShutdownWakes(u) \/ JoinChecks(u) \/ JoinCalled(u)
                                 \/ JoinReturns(u) \/ ShutdownFinishes(u)
    BY <1>2, <1>3, <1>1, <1>11
       DEF ShutdownWakes, JoinChecks, JoinCalled, JoinReturns, ShutdownFinishes
  <1>12. CASE LoopChecks \/ StreamOpens \/ SyncFlagsCalled \/ StreamLosesObject
    BY <1>2, <1>12
       DEF LoopChecks, StreamOpens, SyncFlagsCalled, StreamLosesObject
  <1>13. CASE ServerActs \/ StreamCancelled
    BY <1>2, <1>13 DEF ServerActs, MessageIgnored, MessageStored, StreamBreaks,
                       StreamCancelled, FinishStream
  <1>14. CASE StreamConnects
    BY <1>2, <1>14 DEF StreamConnects, BecomeReady
  <1>15. CASE StreamJudged
    BY <1>2, <1>1, <1>15 DEF StreamJudged, HandleNonFatalError, Demoted
  <1>16. CASE FatalDeclared \/ GraceChecked \/ BackoffStops \/ StreamRetried
    BY <1>2, <1>16 DEF FatalDeclared, GraceChecked, BackoffStops, StreamRetried
  <1>17. CASE SecondPasses \/ UNCHANGED vars
    BY <1>2, <1>17 DEF SecondPasses, vars
  <1>18. CASE \E u \in Callers \cup {Bg} : SpuriousWakeup(u) \/ FallsAsleep(u)
    BY <1>2, <1>18 DEF SpuriousWakeup, FallsAsleep
  <1> QED
    BY <1>4, <1>6, <1>7, <1>8, <1>9, <1>10, <1>11, <1>12, <1>13, <1>14, <1>15,
       <1>16, <1>17, <1>18
       DEF Next, InitCalled, ShutdownCalled, InitProceeds, ShutdownProceeds,
           BgProceeds, ServerActs

\* No wakeup is lost, in every configuration and for any callers.
THEOREM WakeupsArrive == Spec => []NoLostWakeup
  <1>1. Init => NoLostWakeup
    BY DEF Init, NoLostWakeup
  <1> QED
    BY <1>1, TypeCorrect, WakeupStep, PTL DEF Spec

-----------------------------------------------------------------------------
(* What Ready and a successful Init promise, in every configuration        *)

\* init_result_ agrees with state_, whichever thread wrote it last.
THEOREM ResultsMatch == Spec => []ResultMatchesState
  <1>1. Init => ResultMatchesState
    BY DEF Init, ResultMatchesState
  <1>2. ResultMatchesState /\ [Next]_vars => ResultMatchesState'
    <2> SUFFICES ASSUME ResultMatchesState, [Next]_vars
                 PROVE  ResultMatchesState'
      OBVIOUS
    <2> USE DEF ResultMatchesState, session
    <2>1. CASE UNCHANGED session
      BY <2>1
    <2>2. CASE \E t \in Callers : StartSession(t)
      BY <2>2 DEF StartSession, StateUndone, FreshResult
    <2>3. CASE \E t \in Callers : InitTimesOut(t) \/ ShutdownFinishes(t)
      BY <2>3 DEF InitTimesOut, ShutdownFinishes, TargetState
    <2>4. CASE \E t \in Stoppers : ShutdownStarts(t)
      BY <2>4 DEF ShutdownStarts
    <2>5. CASE StreamConnects
      BY <2>5 DEF StreamConnects, BecomeReady
    <2>6. CASE StreamJudged
      BY <2>6 DEF StreamJudged, HandleNonFatalError, Demoted
    <2>7. CASE FatalDeclared
      BY <2>7 DEF FatalDeclared
    <2> QED
      BY <2>1, <2>2, <2>3, <2>4, <2>5, <2>6, <2>7
         DEF Next, vars, InitCalled, InitReturns, InitJoins, InitStarts,
             ShutdownCalled, ShutdownReturns, ShutdownWaits, InitProceeds,
             InitResumes, InitWakes, InitReadsResult, ShutdownProceeds,
             ShutdownWakes, JoinChecks, JoinCalled, JoinReturns, BgProceeds,
             LoopChecks, StreamOpens, SyncFlagsCalled, StreamLosesObject,
             StreamCancelled, FinishStream, GraceChecked, BackoffStops,
             StreamRetried, ServerActs, MessageIgnored, MessageStored,
             StreamBreaks, SecondPasses, SpuriousWakeup, FallsAsleep, Callers
  <1> QED
    BY <1>1, <1>2, PTL DEF Spec

\* What makes ReadyServesCurrent inductive: Ready is only seen by a thread
\* that has stored data and not yet given up its stream.
ServedData ==
    /\ state = "Ready" => /\ thread \in {"read", "ended", "fatal"}
                          /\ flags = "current" \/ (thread = "fatal" /\ flags = "empty")
                          /\ thread = "read" => connected
    /\ thread = "connect" => connected
    /\ thread = "connect" /\ Running => flags = "current"
    /\ initResult = "Ok" => flags # "previous"

LEMMA ServedDataStep == ServedData /\ [Next]_vars => ServedData'
  <1> SUFFICES ASSUME ServedData, [Next]_vars PROVE ServedData'
    OBVIOUS
  <1> USE DEF ServedData, Running, session, channel, stream, worker
  <1>1. CASE UNCHANGED <<session, flags, thread, connected, fault>>
    BY <1>1
  <1>2. CASE \E t \in Callers : StartSession(t)
    BY <1>2 DEF StartSession, StateUndone, FreshResult
  <1>3. CASE \E t \in Callers : InitTimesOut(t) \/ ShutdownFinishes(t) \/ JoinReturns(t)
    BY <1>3 DEF InitTimesOut, ShutdownFinishes, JoinReturns, TargetState
  <1>4. CASE \E t \in Stoppers : ShutdownStarts(t)
    BY <1>4 DEF ShutdownStarts
  <1>5. CASE LoopChecks \/ StreamOpens \/ SyncFlagsCalled \/ StreamLosesObject
    BY <1>5 DEF LoopChecks, StreamOpens, SyncFlagsCalled, StreamLosesObject
  <1>6. CASE MessageStored \/ StreamBreaks \/ StreamCancelled
    BY <1>6 DEF MessageStored, StreamBreaks, StreamCancelled, FinishStream
  <1>7. CASE Running /\ StreamConnects
    BY <1>7 DEF StreamConnects, AwaitsData, BecomeReady
  <1>8. CASE StreamJudged
    BY <1>8 DEF StreamJudged, HandleNonFatalError, Demoted
  <1>9. CASE FatalDeclared \/ GraceChecked \/ BackoffStops \/ StreamRetried
    BY <1>9 DEF FatalDeclared, GraceChecked, BackoffStops, StreamRetried
  <1> QED
    BY <1>1, <1>2, <1>3, <1>4, <1>5, <1>6, <1>7, <1>8, <1>9
       DEF Next, vars, InitCalled, InitReturns, InitJoins, InitStarts,
           ShutdownCalled, ShutdownReturns, ShutdownWaits, InitProceeds,
           InitResumes, InitWakes, InitReadsResult, ShutdownProceeds,
           ShutdownWakes, JoinChecks, JoinCalled, BgProceeds, ServerActs,
           MessageIgnored, SecondPasses, SpuriousWakeup, FallsAsleep, Callers

LEMMA ServedDataAlways == Spec => []ServedData
  <1>1. Init => ServedData
    BY DEF Init, ServedData
  <1> QED
    BY <1>1, ServedDataStep, PTL DEF Spec

\* Ready means that the store holds this session's flags.
THEOREM ReadyIsCurrent == Spec => []ReadyServesCurrent
  <1>1. ServedData => ReadyServesCurrent
    BY DEF ServedData, ReadyServesCurrent
  <1> QED
    BY <1>1, ServedDataAlways, PTL

\* A successful Init is never the success of an earlier session.
THEOREM SuccessIsCurrent == Spec => SuccessIsOfThisSession
  <1>1. TypeOK /\ ServedData /\ [Next]_vars =>
           [\A t \in Initers :
               pc[t] \in InitPcs /\ pc'[t] = "idle" /\ ret'[t] = "Ok"
                   => flags # "previous"]_vars
    <2> SUFFICES ASSUME TypeOK, ServedData, Next, NEW t \in Initers,
                        pc[t] \in InitPcs, pc'[t] = "idle", ret'[t] = "Ok",
                        flags = "previous"
                 PROVE  FALSE
      BY DEF vars
    <2>1. /\ pc \in [Callers -> CallerPcs] /\ t \in Callers
          /\ ret \in [Callers -> Results \cup {"none", "Failed", "threw"}]
          /\ initResult # "Ok" /\ state # "Ready"
      BY DEF TypeOK, ServedData, Callers
    <2> USE <2>1 DEF InitPcs, Joining, Return, Goto, calls
    <2>2. ASSUME NEW u \in Callers, InitCalled(u) \/ ShutdownCalled(u) PROVE FALSE
      <3>1. pc[u] = "idle" /\ u # t
        BY <2>2 DEF InitCalled, InitReturns, InitJoins, InitStarts,
                    ShutdownCalled, ShutdownReturns, ShutdownWaits, ShutdownStarts
      <3>2. CASE StartSession(u)
        BY <3>1, <3>2 DEF StartSession, StateUndone
      <3>3. CASE InitReturns(u) \/ InitJoins(u)
        BY <3>1, <3>3 DEF InitReturns, InitJoins
      <3>4. CASE ShutdownCalled(u)
        BY <3>1, <3>4 DEF ShutdownCalled, ShutdownReturns, ShutdownWaits, ShutdownStarts
      <3> QED
        BY <2>2, <3>2, <3>3, <3>4 DEF InitCalled, InitStarts
    <2>3. ASSUME NEW u \in Callers, InitProceeds(u) PROVE FALSE
      BY <2>3 DEF InitProceeds, InitResumes, StartSession, InitWakes,
                  InitTimesOut, InitReadsResult
    <2>4. ASSUME NEW u \in Callers, ShutdownProceeds(u) PROVE FALSE
      BY <2>4 DEF ShutdownProceeds, ShutdownWakes, JoinChecks, JoinCalled,
                  JoinReturns, ShutdownFinishes
    <2>5. calls' = calls => FALSE
      OBVIOUS
    <2> QED
      BY <2>2, <2>3, <2>4, <2>5
         DEF Next, BgProceeds, LoopChecks, StreamOpens, SyncFlagsCalled,
             StreamLosesObject, StreamConnects, StreamCancelled, FinishStream,
             StreamJudged, FatalDeclared, GraceChecked, BackoffStops,
             StreamRetried, ServerActs, MessageIgnored, MessageStored,
             StreamBreaks, SecondPasses, SpuriousWakeup, FallsAsleep, Callers
  <1> QED
    BY <1>1, TypeCorrect, ServedDataAlways, PTL DEF Spec, SuccessIsOfThisSession

-----------------------------------------------------------------------------
(* Tearing down a session.  Two Shutdowns that both find kFatal join the   *)
(* same thread, so what follows is for configurations in which they        *)
(* cannot: no status code is fatal, or only one thread shuts down.         *)

SafeConfig == FatalCodes = {} \/ \A s, t \in Stoppers : s = t

\* One caller tears down, and the thread is there until that caller joined it.
OneTeardown ==
    /\ ExclusiveJoin
    /\ JoinsSafely
    /\ \A t \in Callers :
          /\ pc[t] \in Joining => state \in {"ShuttingDown", "Fatal"}
          /\ pc[t] \in {"shut_join", "shut_call", "shut_joining"} => thread # "off"
          /\ pc[t] = "shut_lock" => thread = "off"

\* The thread lives exactly as long as its session, and has what it uses.
ThreadLife ==
    /\ state \in Live => thread \notin {"off", "exited"}
    /\ state = "Uninitialized" => thread = "off" /\ context = "none"
    /\ state \in {"ShuttingDown", "Fatal"} /\ thread = "off" =>
          \E t \in Callers : pc[t] = "shut_lock"
    /\ state = "Fatal" => thread \in {"exited", "off"}
    /\ thread = "fatal" \/ state = "Fatal" => FatalCodes # {}
    /\ thread # "off" => stub
    /\ thread \in InStream => context # "none"
    /\ CancelReachesStream
    /\ NoFault

SafeInv == SafeConfig /\ TypeOK /\ OneTeardown /\ ThreadLife

LEMMA SafeInit == SafeConfig /\ Init => SafeInv
  <1> SUFFICES ASSUME SafeConfig, Init PROVE SafeInv
    OBVIOUS
  <1>1. TypeOK
    BY TypeInit
  <1>2. OneTeardown
    BY DEF Init, OneTeardown, ExclusiveJoin, JoinsSafely, Joining, Callers
  <1>3. ThreadLife
    BY DEF Init, ThreadLife, CancelReachesStream, NoFault, Live, InStream
  <1> QED
    BY <1>1, <1>2, <1>3 DEF SafeInv

\* Every step of a safe configuration keeps the invariant.
LEMMA SafeStep == SafeInv /\ [Next]_vars => SafeInv'
  <1> SUFFICES ASSUME SafeConfig, TypeOK, OneTeardown, ThreadLife, [Next]_vars
               PROVE  OneTeardown' /\ ThreadLife'
    BY TypeStep DEF SafeInv, SafeConfig
  <1> USE DEF OneTeardown, ExclusiveJoin, JoinsSafely, ThreadLife, CancelReachesStream,
              NoFault, Live, InStream, Joining, session, channel, stream,
              worker, calls, Return, Goto
  <1>1. /\ pc \in [Callers -> CallerPcs]
        /\ ret \in [Callers -> Results \cup {"none", "Failed", "threw"}]
        /\ Initers \subseteq Callers /\ Stoppers \subseteq Callers
        /\ \A t \in Callers : pc[t] \in Joining => t \in Stoppers
        /\ state \in States /\ thread \in Points /\ "threw" \notin Results
        /\ initResult \in Results
    BY DEF TypeOK, Callers, Results
  <1>2. CASE \E t \in Initers : InitReturns(t) \/ InitJoins(t)
    BY <1>1, <1>2 DEF InitReturns, InitJoins
  <1>3. ASSUME NEW t \in Initers, pc[t] \in {"idle", "init_shut"},
               state = "Uninitialized", StartSession(t)
        PROVE  OneTeardown' /\ ThreadLife'
    BY <1>1, <1>3 DEF StartSession, StateUndone
  <1>4. CASE \E t \in Initers : InitStarts(t)
    BY <1>3, <1>4 DEF InitStarts, Startable
  <1>5. CASE \E t \in Callers : InitResumes(t)
    BY <1>3, <1>5 DEF InitResumes, TypeOK, InitPcs
  <1>6. CASE \E t \in Callers : InitWakes(t) \/ InitTimesOut(t) \/ InitReadsResult(t)
    BY <1>1, <1>6 DEF InitWakes, InitTimesOut, InitReadsResult
  <1>7. CASE \E t \in Stoppers : ShutdownReturns(t) \/ ShutdownWaits(t)
    BY <1>1, <1>7 DEF ShutdownReturns, ShutdownWaits
  <1>8. CASE \E t \in Stoppers : ShutdownStarts(t)
    BY <1>1, <1>8 DEF ShutdownStarts, ShutdownInProgress, SafeConfig, States, TypeOK
  <1>9. CASE \E t \in Callers : ShutdownWakes(t)
    BY <1>1, <1>9 DEF ShutdownWakes
  <1>10. CASE \E t \in Callers : JoinChecks(t)
    BY <1>1, <1>10 DEF JoinChecks, Joinable
  <1>11. CASE \E t \in Callers : JoinCalled(t)
    BY <1>1, <1>11 DEF JoinCalled
  <1>12. CASE \E t \in Callers : JoinReturns(t)
    BY <1>1, <1>12 DEF JoinReturns
  <1>13. CASE \E t \in Callers : ShutdownFinishes(t)
    BY <1>1, <1>13 DEF ShutdownFinishes, TargetState
  <1>14. CASE LoopChecks
    BY <1>1, <1>14 DEF LoopChecks, StopRequested
  <1>15. CASE StreamOpens
    BY <1>1, <1>15 DEF StreamOpens, StreamRefused
  <1>16. CASE SyncFlagsCalled \/ StreamLosesObject
    BY <1>1, <1>16 DEF SyncFlagsCalled, StreamLosesObject
  <1>17. CASE ServerActs \/ StreamCancelled
    BY <1>1, <1>17 DEF ServerActs, MessageIgnored, MessageStored, StreamBreaks,
                       StreamCancelled, FinishStream
  <1>18. CASE StreamConnects
    BY <1>1, <1>18 DEF StreamConnects, AwaitsData, BecomeReady
  <1>19. CASE StreamJudged
    BY <1>1, <1>19 DEF StreamJudged, HandleNonFatalError, Demoted
  <1>20. CASE FatalDeclared
    BY <1>1, <1>20 DEF FatalDeclared
  <1>21. CASE GraceChecked \/ BackoffStops \/ StreamRetried
    BY <1>1, <1>21 DEF GraceChecked, BackoffStops, StreamRetried, StopRequested
  <1>22. CASE SecondPasses \/ UNCHANGED vars
    BY <1>1, <1>22 DEF SecondPasses, vars
  <1>23. CASE \E t \in Callers \cup {Bg} : SpuriousWakeup(t) \/ FallsAsleep(t)
    BY <1>1, <1>23 DEF SpuriousWakeup, FallsAsleep
  <1> QED
    BY <1>2, <1>4, <1>5, <1>6, <1>7, <1>8, <1>9, <1>10, <1>11, <1>12, <1>13,
       <1>14, <1>15, <1>16, <1>17, <1>18, <1>19, <1>20, <1>21, <1>22, <1>23
       DEF Next, InitCalled, ShutdownCalled, InitProceeds, ShutdownProceeds,
           BgProceeds, ServerActs

LEMMA SafeAlways == SafeConfig /\ Spec => []SafeInv
  BY SafeInit, SafeStep, PTL DEF Spec

\* In a safe configuration only one caller at a time tears the session down.
THEOREM OneCallerTearsDown == SafeConfig /\ Spec => []ExclusiveJoin
  <1>1. SafeInv => ExclusiveJoin
    BY DEF SafeInv, OneTeardown
  <1> QED
    BY <1>1, SafeAlways, PTL

\* In a safe configuration no join throws, the process does not terminate on a
\* joinable thread, and no stream loses its stub or context.
THEOREM TeardownIsSafe == SafeConfig /\ Spec => [](NoFault /\ JoinsSafely)
  <1>1. SafeInv => NoFault /\ JoinsSafely
    BY DEF SafeInv, OneTeardown, ThreadLife
  <1> QED
    BY <1>1, SafeAlways, PTL

\* In a safe configuration Uninitialized leaves nothing of a session behind.
THEOREM DownIsQuiet == SafeConfig /\ Spec => []DownMeansNoThread
  <1>1. SafeInv => DownMeansNoThread
    BY DEF SafeInv, OneTeardown, ThreadLife, DownMeansNoThread
  <1> QED
    BY <1>1, SafeAlways, PTL

\* In a safe configuration a session that goes on has its thread and its stub.
THEOREM LiveSessionsRun == SafeConfig /\ Spec => []LiveSessionRuns
  <1>1. SafeInv => LiveSessionRuns
    BY DEF SafeInv, ThreadLife, LiveSessionRuns
  <1> QED
    BY <1>1, SafeAlways, PTL

\* In a safe configuration the cancellation of a Shutdown reaches every stream.
THEOREM CancellationArrives == SafeConfig /\ Spec => []CancelReachesStream
  <1>1. SafeInv => CancelReachesStream
    BY DEF SafeInv, ThreadLife
  <1> QED
    BY <1>1, SafeAlways, PTL
\* No late message, reconnection or time-out revives a session that is being
\* shut down, in every configuration: only the end of Shutdown and a fatal
\* status leave kShuttingDown.
THEOREM ShutdownIsFinal == Spec => ShutdownSticks
  <1>1. [Next]_vars => [state = "ShuttingDown" =>
                           state' \in {"ShuttingDown", "Uninitialized", "Fatal"}]_vars
    <2> SUFFICES ASSUME Next, state = "ShuttingDown"
                 PROVE  state' \in {"ShuttingDown", "Uninitialized", "Fatal"}
      OBVIOUS
    <2> USE DEF session, channel, stream, worker, calls
    <2>1. CASE \E t \in Initers : InitCalled(t)
      BY <2>1 DEF InitCalled, InitReturns, InitJoins, InitStarts, Startable
    <2>2. CASE \E t \in Stoppers : ShutdownCalled(t)
      BY <2>2 DEF ShutdownCalled, ShutdownReturns, ShutdownWaits, ShutdownStarts,
                  ShutdownInProgress
    <2>3. CASE \E t \in Callers : InitProceeds(t)
      BY <2>3 DEF InitProceeds, InitResumes, InitWakes, InitTimesOut, InitReadsResult
    <2>4. CASE \E t \in Callers : ShutdownProceeds(t)
      BY <2>4 DEF ShutdownProceeds, ShutdownWakes, JoinChecks, JoinCalled, JoinReturns,
                  ShutdownFinishes, TargetState
    <2>5. CASE BgProceeds
      BY <2>5 DEF BgProceeds, LoopChecks, StreamOpens, SyncFlagsCalled, StreamLosesObject,
                  StreamConnects, AwaitsData, StreamCancelled, FinishStream, StreamJudged,
                  HandleNonFatalError, Demoted, FatalDeclared, GraceChecked, BackoffStops,
                  StreamRetried
    <2>6. CASE ServerActs \/ SecondPasses
      BY <2>6 DEF ServerActs, MessageIgnored, MessageStored, StreamBreaks, FinishStream,
                  SecondPasses
    <2>7. CASE \E t \in Callers \cup {Bg} : SpuriousWakeup(t) \/ FallsAsleep(t)
      BY <2>7 DEF SpuriousWakeup, FallsAsleep
    <2> QED
      BY <2>1, <2>2, <2>3, <2>4, <2>5, <2>6, <2>7 DEF Next
  <1> QED
    BY <1>1, PTL DEF Spec, ShutdownSticks

-----------------------------------------------------------------------------
(* The contract                                                            *)

\* Where the background thread may look at the grace period, the state shows
\* that the stream was lost.
LossShows == thread \in {"grace", "backoff"} => state \in {"Reconnecting", "ShuttingDown"}

\* What the refinement rests on: the invariant of the lifecycle, what the flags
\* are in each state, and that a loss shows.
ContractInv == SafeInv /\ ServedData /\ LossShows

LEMMA LossStep == SafeInv /\ LossShows /\ [Next]_vars => LossShows'
  <1> SUFFICES ASSUME SafeInv, LossShows, [Next]_vars PROVE LossShows'
    OBVIOUS
  <1> USE DEF LossShows, session, worker, stream
  <1>1. /\ state \in States
        /\ state = "Uninitialized" => thread = "off"
        /\ state = "Fatal" => thread \in {"exited", "off"}
    BY DEF SafeInv, TypeOK, ThreadLife
  <1>2. \A t \in Callers : pc[t] = "shut_lock" => thread = "off"
    BY DEF SafeInv, OneTeardown
  <1>3. CASE UNCHANGED <<state, thread>>
    BY <1>3
  <1>4. CASE \E t \in Callers : StartSession(t) /\ state = "Uninitialized"
    BY <1>1, <1>4 DEF StartSession, StateUndone
  <1>5. CASE \E t \in Callers : JoinReturns(t)
    BY <1>5 DEF JoinReturns
  <1>6. CASE \E t \in Callers : ShutdownFinishes(t)
    BY <1>2, <1>6 DEF ShutdownFinishes
  <1>7. CASE \E t \in Stoppers : ShutdownStarts(t)
    BY <1>7 DEF ShutdownStarts
  <1>8. CASE LoopChecks \/ StreamOpens \/ SyncFlagsCalled \/ MessageStored
             \/ StreamConnects \/ StreamBreaks \/ StreamCancelled \/ FatalDeclared
    BY <1>8 DEF LoopChecks, StreamOpens, SyncFlagsCalled, MessageStored,
                StreamConnects, StreamBreaks, StreamCancelled, FinishStream,
                FatalDeclared
  <1>9. CASE StreamJudged
    BY <1>1, <1>9 DEF StreamJudged, HandleNonFatalError, Demoted, States
  <1>10. CASE GraceChecked \/ BackoffStops \/ StreamRetried
    BY <1>10 DEF GraceChecked, BackoffStops, StreamRetried
  <1> QED
    BY <1>3, <1>4, <1>5, <1>6, <1>7, <1>8, <1>9, <1>10
       DEF Next, vars, InitCalled, InitReturns, InitJoins, InitStarts, Startable,
           ShutdownCalled, ShutdownReturns, ShutdownWaits, InitProceeds,
           InitResumes, InitWakes, InitTimesOut, InitReadsResult,
           ShutdownProceeds, ShutdownWakes, JoinChecks, JoinCalled, BgProceeds,
           StreamLosesObject, ServerActs, MessageIgnored, SecondPasses,
           SpuriousWakeup, FallsAsleep, Callers

-----------------------------------------------------------------------------
\* The initial state is one of the contract's.
LEMMA ContractInit == Init => Contract!Init
  BY DEF Init, Contract!Init, Phase

\* Every step of the synchroniser is a step of the contract or leaves what
\* the contract speaks of as it is.
LEMMA ContractStep ==
  ContractInv /\ [Next]_vars => [Contract!Next]_(Contract!vars)
  <1> SUFFICES ASSUME SafeInv, ServedData, LossShows, [Next]_vars
               PROVE  [Contract!Next]_(Contract!vars)
    BY DEF ContractInv
  <1> DEFINE Same == UNCHANGED <<state, flags, thread>>
  <1> USE DEF session, channel, worker, stream, Contract!vars
  <1>1. /\ state \in States /\ thread \in Points
        /\ state = "Uninitialized" => thread = "off"
        /\ state = "Fatal" => thread \in {"exited", "off"}
    BY DEF SafeInv, TypeOK, ThreadLife
  <1>2. thread \notin {"off", "exited"} =>
           state \in {"Initializing", "Ready", "Reconnecting", "ShuttingDown"}
    BY <1>1 DEF States
  <1>3. CASE Same
    BY <1>3
  <1>4. CASE \E t \in Callers : StartSession(t) /\ state = "Uninitialized"
    BY <1>1, <1>4 DEF StartSession, StateUndone, Contract!Next, Contract!Start, Phase
  <1>5. CASE \E t \in Stoppers : ShutdownStarts(t)
    BY <1>1, <1>5 DEF ShutdownStarts, ShutdownInProgress, States, Contract!Next,
                      Contract!Close, Contract!Alive, Phase
  <1>6. CASE \E t \in Callers : ShutdownFinishes(t)
    <2>1. thread = "off" /\ state \in {"ShuttingDown", "Fatal"}
      BY <1>6 DEF ShutdownFinishes, SafeInv, OneTeardown, Joining
    <2> QED
      BY <1>6, <2>1 DEF ShutdownFinishes, TargetState, Contract!Next,
                        Contract!Closed, Contract!Dismiss, Phase
  <1>7. CASE MessageStored
    BY <1>2, <1>7 DEF MessageStored, Contract!Next, Contract!Receive,
                      Contract!Alive, Phase
  <1>8. CASE Running /\ StreamConnects
    BY <1>8 DEF StreamConnects, AwaitsData, BecomeReady, ServedData,
                Contract!Next, Contract!BecomeReady, Phase
  <1>9. CASE StreamJudged
    BY <1>2, <1>9 DEF StreamJudged, HandleNonFatalError, Demoted, Contract!Next,
                      Contract!Lose, Contract!Doom, Contract!Alive, Phase
  <1>10. CASE FatalDeclared
    BY <1>2, <1>10 DEF FatalDeclared, Contract!Next, Contract!GiveUp,
                       Contract!Alive, Phase
  <1>11. CASE GraceChecked
    BY <1>11 DEF GraceChecked, LossShows, Contract!Next, Contract!Expire, Phase
  <1>12. CASE /\ UNCHANGED <<state, flags>>
              /\ thread # "fatal" /\ thread' # "fatal"
    BY <1>12
  <1>13. CASE \E t \in Callers : JoinReturns(t)
    BY <1>12, <1>13 DEF JoinReturns
  <1>14. CASE LoopChecks \/ StreamOpens \/ SyncFlagsCalled \/ StreamBreaks
              \/ StreamCancelled \/ BackoffStops \/ StreamRetried
    BY <1>12, <1>14 DEF LoopChecks, StreamOpens, SyncFlagsCalled, StreamBreaks,
                        StreamCancelled, FinishStream, BackoffStops, StreamRetried
  <1> QED
    BY <1>3, <1>4, <1>5, <1>6, <1>7, <1>8, <1>9, <1>10, <1>11, <1>13, <1>14
       DEF Next, vars, InitCalled, InitReturns, InitJoins, InitStarts, Startable,
           ShutdownCalled, ShutdownReturns, ShutdownWaits, InitProceeds,
           InitResumes, InitWakes, InitTimesOut, InitReadsResult,
           ShutdownProceeds, ShutdownWakes, JoinChecks, JoinCalled, BgProceeds,
           StreamLosesObject, ServerActs, MessageIgnored, SecondPasses,
           SpuriousWakeup, FallsAsleep, Callers

\* In a safe configuration the loss of a stream shows before the flags expire.
LEMMA LossAlways == SafeConfig /\ Spec => []LossShows
  <1>1. Init => LossShows
    BY DEF Init, LossShows
  <1> QED
    BY <1>1, LossStep, SafeAlways, PTL DEF Spec

\* In a safe configuration, whatever the callers, codes and grace period, the
\* synchroniser implements the contract.
THEOREM ContractImplemented == SafeConfig /\ Spec => ImplementsContract
  <1>1. SafeInv /\ ServedData /\ LossShows => ContractInv
    BY DEF ContractInv
  <1> QED
    BY <1>1, ContractInit, ContractStep, SafeAlways, ServedDataAlways, LossAlways,
       PTL DEF Spec, ImplementsContract, Contract!Spec

\* The contract's phases are truthful about the flags.
LEMMA ContractKeepsTruth == Contract!Spec => []Contract!Truthful
  <1>1. Contract!Init => Contract!Truthful
    BY DEF Contract!Init, Contract!Truthful, Contract!Phases
  <1>2. Contract!Truthful /\ [Contract!Next]_(Contract!vars) => Contract!Truthful'
    BY DEF Contract!Truthful, Contract!Phases, Contract!Alive, Contract!vars,
           Contract!Next, Contract!Start, Contract!Receive, Contract!BecomeReady,
           Contract!Lose, Contract!Expire, Contract!Doom, Contract!GiveUp,
           Contract!Close, Contract!Closed, Contract!Dismiss
  <1> QED
    BY <1>1, <1>2, PTL DEF Contract!Spec

\* In a safe configuration a session that gave up serves no flags and a ready
\* one its own, by the contract alone.
THEOREM PhasesAreTruthful == SafeConfig /\ Spec => []ContractTruthful
  BY ContractImplemented, ContractKeepsTruth, PTL
     DEF ImplementsContract, ContractTruthful
=============================================================================
