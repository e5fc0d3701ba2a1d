------------------------------ MODULE GrpcSync ------------------------------
(***************************************************************************)
(* The life cycle of flagd's gRPC flag synchroniser                        *)
(* (providers/flagd/src/sync/grpc/grpc_sync.cpp): Init and Shutdown called *)
(* concurrently by application threads, and the background thread that     *)
(* keeps one SyncFlags stream open, feeds the flag store, reconnects,      *)
(* clears stale flags and gives up on fatal status codes.                  *)
(*                                                                         *)
(* Grain.  A section of code executed under lifecycle_mutex_ is one step;  *)
(* a step ends where the code unlocks, waits on lifecycle_cv_, joins, or   *)
(* touches state that other threads see without the mutex.  A call to      *)
(* Init or Shutdown starts with the step that first takes the mutex.       *)
(* The flag store is reduced to where its contents come from: nothing,     *)
(* the present session, or the one before it.                              *)
(*                                                                         *)
(* A definition that no other uses and that stands right before the one it *)
(* differs from (NotifyNobody before NotifyAll) is that one with a bug a   *)
(* change to the code could bring in; the properties are tested with it.   *)
(***************************************************************************)
EXTENDS Integers

CONSTANTS
    Initers,      \* application threads that call Init
    Stoppers,     \* application threads that call Shutdown (or the destructor)
    Bg,           \* the background thread
    StatusCodes,  \* gRPC status codes a stream may finish with
    FatalCodes,   \* FlagdProviderConfig::GetFatalStatusCodes()
    GracePeriod   \* FlagdProviderConfig::GetRetryGracePeriod(), in seconds

ASSUME ThreadAssumption == Bg \notin Initers \cup Stoppers

ASSUME ConfigAssumption ==
    /\ "INTERNAL" \in StatusCodes      \* the code InitStream's failures get
    /\ FatalCodes \subseteq StatusCodes
    /\ GracePeriod \in Nat

Callers == Initers \cup Stoppers

VARIABLES
    state,         \* state_
    initResult,    \* init_result_, reduced to what tells its values apart
    initTimedOut,  \* init_timed_out_
    stub,          \* stub_ # nullptr
    context,       \* context_: null, live, or with TryCancel() called on it
    flags,         \* whose data the flag store holds
    thread,        \* background_thread_ and where its function is
    connected,     \* ProcessStream's local of the same name
    data,          \* StreamResult::data_received
    status,        \* StreamResult::status
    sinceHealthy,  \* whole seconds since last_healthy_time, saturated
    pc,            \* where each caller is inside Init or Shutdown
    ret,           \* what each caller's last call returned
    asleep,        \* threads blocked in lifecycle_cv_ that nothing has woken
    fault          \* how the process died, if it did

session == <<state, initResult, initTimedOut>>
channel == <<stub, context>>
stream  == <<connected, data, status>>
worker  == <<thread, stream, sinceHealthy>>
calls   == <<pc, ret>>
vars    == <<session, channel, flags, worker, calls, asleep, fault>>

-----------------------------------------------------------------------------
States == {"Uninitialized", "Initializing", "Ready", "Reconnecting",
           "ShuttingDown", "Fatal"}
Results == {"Ok", "Unknown", "Cancelled", "Internal", "Deadline"}

\* States of a session whose thread runs and which nobody has shut down.
Live == {"Initializing", "Ready", "Reconnecting"}

\* "off" is a std::thread that is not joinable, "exited" one whose function
\* has returned and that nobody has joined yet.
InStream == {"call", "read", "connect"}
Points == {"off", "loop", "open", "ended", "fatal", "grace", "backoff",
           "exited"} \cup InStream

InitPcs == {"init_join", "init_wait", "init_shut", "init_read"}
Joining == {"shut_join", "shut_call", "shut_joining", "shut_lock"}
CallerPcs == {"idle", "shut_wait"} \cup InitPcs \cup Joining

Init ==
    /\ state = "Uninitialized" /\ initResult = "Ok" /\ initTimedOut = FALSE
    /\ stub = FALSE /\ context = "none" /\ flags = "empty"
    /\ thread = "off" /\ sinceHealthy = 0
    /\ connected = FALSE /\ data = FALSE /\ status = "none"
    /\ pc = [t \in Callers |-> "idle"]
    /\ ret = [t \in Callers |-> "none"]
    /\ asleep = {}
    /\ fault = "none"

-----------------------------------------------------------------------------
(* Conditions and effects the functions share.                             *)

\* A return of Init or Shutdown, and a move inside one of them.
Return(t, r) == /\ pc' = [pc EXCEPT ![t] = "idle"]
                /\ ret' = [ret EXCEPT ![t] = r]
Goto(t, p) == /\ pc' = [pc EXCEPT ![t] = p]
              /\ ret' = [ret EXCEPT ![t] = "none"]

NotifyNobody == UNCHANGED asleep
NotifyAll == asleep' = {}

\* Whether a call to Init may begin a session, once no shutdown is under way.
Startable == state = "Uninitialized"

OneShutdownIgnored == FALSE
ShutdownInProgress == state = "ShuttingDown"

StopRequested == state \in {"ShuttingDown", "Fatal"}

-----------------------------------------------------------------------------
(* Init                                                                    *)

\* The switch's cases that return without waiting.
InitReturns(t) ==
    /\ pc[t] = "idle"
    /\ \/ state = "Ready" /\ Return(t, "Ok")
       \/ /\ state \in {"Initializing", "Reconnecting"} /\ initTimedOut
          /\ Return(t, "Deadline")
       \/ /\ state = "Reconnecting" /\ ~initTimedOut
          /\ Return(t, initResult)
       \/ state = "Fatal" /\ Return(t, initResult)
    /\ UNCHANGED <<session, channel, flags, worker, asleep, fault>>

\* The cases that wait: for another thread's Init, or for a Shutdown.
InitJoins(t) ==
    /\ pc[t] = "idle"
    /\ \/ state = "Initializing" /\ ~initTimedOut /\ Goto(t, "init_join")
       \/ state = "ShuttingDown" /\ Goto(t, "init_shut")
    /\ asleep' = asleep \cup {t}
    /\ UNCHANGED <<session, channel, flags, worker, fault>>

\* The rest of Init, down to the wait in WaitForInitialization.  Assigning a
\* std::thread to one that is still joinable terminates the process.
KeptResult == initResult
FreshResult == "Unknown"

\* What becomes of the state, kInitializing by then, when the start fails.
StateLeft == "Initializing"
StateUndone == "Uninitialized"

StartSession(t) ==
    /\ initResult' = FreshResult
    /\ \/ /\ state' = StateUndone                     \* CreateStub failed
          /\ Return(t, "Failed")
          /\ UNCHANGED <<channel, flags, worker, asleep, fault>>
       \/ /\ stub' = TRUE                             \* no thread to be had
          /\ state' = StateUndone
          /\ Return(t, "Failed")
          /\ UNCHANGED <<context, flags, worker, asleep, fault>>
       \/ /\ stub' = TRUE
          /\ state' = "Initializing"
          /\ flags' = IF flags = "current" THEN "previous" ELSE flags
          /\ Goto(t, "init_wait")
          /\ asleep' = asleep \cup {t}
          /\ IF thread = "off"
             THEN thread' = "loop" /\ sinceHealthy' = 0 /\ UNCHANGED fault
             ELSE fault' = "terminate" /\ UNCHANGED <<thread, sinceHealthy>>
          /\ UNCHANGED <<context, stream>>
    /\ UNCHANGED initTimedOut

InitStarts(t) == /\ pc[t] = "idle" /\ Startable
                 /\ StartSession(t)

\* The wait for kUninitialized is over; Init goes on as if called afresh.
InitResumes(t) == /\ pc[t] = "init_shut" /\ t \notin asleep
                  /\ state = "Uninitialized"
                  /\ StartSession(t)

\* Either wait_for (Init's own, or WaitForInitialization's) sees the state
\* changed.  Its deadline also ends it, so being asleep does not matter.
InitWakes(t) ==
    /\ pc[t] \in {"init_join", "init_wait"}
    /\ state # "Initializing"
    /\ Return(t, IF state = "Ready" THEN "Ok" ELSE initResult)
    /\ asleep' = asleep \ {t}
    /\ UNCHANGED <<session, channel, flags, worker, fault>>

\* The deadline passes while the state is still kInitializing.  A caller that
\* joined another's Init reads init_result_ only after unlocking.
InitTimesOut(t) ==
    /\ pc[t] \in {"init_join", "init_wait"}
    /\ state = "Initializing"
    /\ initTimedOut' = TRUE
    /\ initResult' = "Deadline"
    /\ \/ pc[t] = "init_wait" /\ Return(t, "Deadline")
       \/ pc[t] = "init_join" /\ Goto(t, "init_read")
    /\ asleep' = asleep \ {t}
    /\ UNCHANGED <<state, channel, flags, worker, fault>>

InitReadsResult(t) ==
    /\ pc[t] = "init_read"
    /\ Return(t, initResult)
    /\ UNCHANGED <<session, channel, flags, worker, asleep, fault>>

-----------------------------------------------------------------------------
(* ShutdownInternal(kUninitialized)                                        *)

ShutdownReturns(t) ==
    /\ pc[t] = "idle" /\ state = "Uninitialized"
    /\ Return(t, "Ok")
    /\ UNCHANGED <<session, channel, flags, worker, asleep, fault>>

ShutdownWaits(t) ==
    /\ pc[t] = "idle" /\ ShutdownInProgress
    /\ Goto(t, "shut_wait")
    /\ asleep' = asleep \cup {t}
    /\ UNCHANGED <<session, channel, flags, worker, fault>>

ShutdownWakes(t) ==
    /\ pc[t] = "shut_wait" /\ t \notin asleep
    /\ state = "Uninitialized"
    /\ Return(t, "Ok")
    /\ UNCHANGED <<session, channel, flags, worker, asleep, fault>>

\* kFatal is kept while its thread is joined: only the other states become
\* kShuttingDown, cancel the stream and wake the waiters.
ShutdownStarts(t) ==
    /\ pc[t] = "idle" /\ state # "Uninitialized" /\ ~ShutdownInProgress
    /\ IF state = "Fatal"
       THEN UNCHANGED <<session, context, asleep>>
       ELSE /\ state' = "ShuttingDown"
            /\ initResult' = IF state = "Initializing" THEN "Cancelled"
                                                       ELSE initResult
            /\ context' = IF context = "live" THEN "cancelled" ELSE context
            /\ NotifyAll
            /\ UNCHANGED initTimedOut
    /\ Goto(t, "shut_join")
    /\ UNCHANGED <<stub, flags, worker, fault>>

\* joinable(), then join(): both run without the mutex.
NeverJoinable == FALSE
Joinable == thread # "off"

JoinChecks(t) ==
    /\ pc[t] = "shut_join"
    /\ Goto(t, IF Joinable THEN "shut_call" ELSE "shut_lock")
    /\ UNCHANGED <<session, channel, flags, worker, asleep, fault>>

\* join() refuses a thread that is gone or that another caller is joining:
\* std::system_error leaves Shutdown.
JoinCalled(t) ==
    /\ pc[t] = "shut_call"
    /\ IF thread = "off" \/ \E u \in Callers : pc[u] = "shut_joining"
       THEN Return(t, "threw")
       ELSE Goto(t, "shut_joining")
    /\ UNCHANGED <<session, channel, flags, worker, asleep, fault>>

JoinReturns(t) ==
    /\ pc[t] = "shut_joining" /\ thread = "exited"
    /\ thread' = "off"
    /\ Goto(t, "shut_lock")
    /\ UNCHANGED <<session, channel, flags, stream, sinceHealthy, asleep, fault>>

\* What every Shutdown drives the state to.
TargetState == "Uninitialized"

ShutdownFinishes(t) ==
    /\ pc[t] = "shut_lock"
    /\ context' = "none" /\ stub' = FALSE
    /\ state' = TargetState
    /\ NotifyAll
    /\ Return(t, "Ok")
    /\ UNCHANGED <<initResult, initTimedOut, flags, worker, fault>>

-----------------------------------------------------------------------------
(* The background thread: WaitForUpdates and what it calls                 *)

\* ShouldStop, at the top of the loop; ExecuteStream starts with a fresh
\* StreamResult.
LoopChecks ==
    /\ thread = "loop"
    /\ thread' = IF StopRequested THEN "exited" ELSE "open"
    /\ connected' = FALSE /\ data' = FALSE /\ status' = "none"
    /\ UNCHANGED <<session, channel, flags, sinceHealthy, calls, asleep, fault>>

\* InitStream's section under the mutex.
NeverRefused == FALSE
StreamRefused == state = "ShuttingDown"

StreamOpens ==
    /\ thread = "open"
    /\ IF StreamRefused
       THEN /\ thread' = "ended" /\ status' = "INTERNAL"
            /\ UNCHANGED context
       ELSE /\ thread' = "call" /\ context' = "live"
            /\ UNCHANGED status
    /\ UNCHANGED <<session, stub, flags, connected, data, sinceHealthy, calls,
                   asleep, fault>>

\* stub_->SyncFlags(), without the mutex.
SyncFlagsCalled ==
    /\ thread = "call" /\ stub
    /\ \/ thread' = "read" /\ UNCHANGED status
       \/ thread' = "ended" /\ status' = "INTERNAL"      \* a null reader
    /\ UNCHANGED <<session, channel, flags, connected, data, sinceHealthy,
                   calls, asleep, fault>>

\* The stub or the context was taken from under the running stream.
StreamLosesObject ==
    /\ \/ thread = "call" /\ ~stub
       \/ thread = "read" /\ context = "none"
    /\ fault' = "crash"
    /\ UNCHANGED <<session, channel, flags, worker, calls, asleep>>

\* ProcessStream reads one message: not JSON or not a flag configuration, or
\* one that UpdateFlags stores.
MessageIgnored ==
    /\ thread = "read" /\ context # "none"
    /\ data' = TRUE
    /\ UNCHANGED <<session, channel, flags, thread, connected, status,
                   sinceHealthy, calls, asleep, fault>>

MessageStored ==
    /\ thread = "read" /\ context # "none"
    /\ data' = TRUE
    /\ flags' = "current"
    /\ connected' = TRUE
    /\ thread' = IF connected THEN "read" ELSE "connect"
    /\ UNCHANGED <<session, channel, status, sinceHealthy, calls, asleep, fault>>

\* The first stored message of a stream makes the session ready, unless the
\* state has moved on.
AwaitsDataWheneverNotReady == state # "Ready"
AwaitsData == state \in {"Initializing", "Reconnecting"}

BecomeReadyStillTimedOut ==
    /\ state' = "Ready" /\ initResult' = "Ok"
    /\ NotifyAll
    /\ UNCHANGED initTimedOut
BecomeReady ==
    /\ state' = "Ready" /\ initResult' = "Ok" /\ initTimedOut' = FALSE
    /\ NotifyAll

StreamConnects ==
    /\ thread = "connect"
    /\ IF AwaitsData THEN BecomeReady ELSE UNCHANGED <<session, asleep>>
    /\ thread' = "read"
    /\ UNCHANGED <<channel, flags, stream, sinceHealthy, calls, fault>>

\* Read fails and Finish gives the status: the server's, or cancellation's.
FinishStream(code) ==
    /\ thread = "read" /\ context # "none"
    /\ thread' = "ended" /\ status' = code
    /\ UNCHANGED <<session, channel, flags, connected, data, sinceHealthy,
                   calls, asleep, fault>>

StreamBreaks == context = "live" /\ \E code \in StatusCodes : FinishStream(code)

StreamCancelled ==
    context = "cancelled" /\ \E code \in StatusCodes : FinishStream(code)

\* WaitForUpdates after ExecuteStream: last_healthy_time, then the verdict on
\* the status.  HandleFatalError clears the flags before it takes the mutex;
\* HandleNonFatalError is one section under it.
DemotedWhenInitializing == state = "Initializing"
Demoted == state \in {"Initializing", "Ready"}

HandleNonFatalError ==
    IF Demoted
    THEN /\ state' = "Reconnecting"
         /\ IF state = "Initializing" THEN initResult' = "Internal" /\ NotifyAll
                                      ELSE UNCHANGED <<initResult, asleep>>
         /\ UNCHANGED initTimedOut
    ELSE UNCHANGED <<session, asleep>>

StreamJudged ==
    /\ thread = "ended"
    /\ sinceHealthy' = IF data THEN 0 ELSE sinceHealthy
    /\ IF status \in FatalCodes
       THEN thread' = "fatal" /\ flags' = "empty" /\ UNCHANGED <<session, asleep>>
       ELSE thread' = "grace" /\ HandleNonFatalError /\ UNCHANGED flags
    /\ UNCHANGED <<channel, stream, calls, fault>>

FatalDeclared ==
    /\ thread = "fatal"
    /\ state' = "Fatal" /\ initResult' = "Internal"
    /\ NotifyAll
    /\ thread' = "exited"
    /\ UNCHANGED <<initTimedOut, channel, flags, stream, sinceHealthy, calls,
                   fault>>

\* CheckGracePeriod
GraceChecked ==
    /\ thread = "grace"
    /\ flags' = IF sinceHealthy > GracePeriod THEN "empty" ELSE flags
    /\ thread' = "backoff"
    /\ UNCHANGED <<session, channel, stream, sinceHealthy, calls, asleep, fault>>

\* WaitForBackoff's wait_for: true ends the thread, a timeout retries.
BackoffStops ==
    /\ thread = "backoff" /\ StopRequested
    /\ thread' = "exited"
    /\ asleep' = asleep \ {Bg}
    /\ UNCHANGED <<session, channel, flags, stream, sinceHealthy, calls, fault>>

BackoffNeverExpires == FALSE
BackoffExpires == ~StopRequested

StreamRetried ==
    /\ thread = "backoff" /\ BackoffExpires
    /\ thread' = "loop"
    /\ asleep' = asleep \ {Bg}
    /\ UNCHANGED <<session, channel, flags, stream, sinceHealthy, calls, fault>>

\* A second passes; only whether the grace period is over matters.
SecondsCounted == TRUE
SecondsMatter == sinceHealthy <= GracePeriod

SecondPasses ==
    /\ thread \notin {"off", "exited"} /\ SecondsMatter
    /\ sinceHealthy' = sinceHealthy + 1
    /\ UNCHANGED <<session, channel, flags, thread, stream, calls, asleep, fault>>

-----------------------------------------------------------------------------
(* The condition variable                                                  *)

\* What the predicate of each wait lets through.
MayProceed(t) ==
    IF t = Bg THEN StopRequested
    ELSE IF pc[t] \in {"init_shut", "shut_wait"} THEN state = "Uninitialized"
    ELSE state # "Initializing"

Waiting(t) == IF t = Bg THEN thread = "backoff"
              ELSE pc[t] \in {"init_join", "init_wait", "init_shut", "shut_wait"}

SpuriousWakeup(t) ==
    /\ t \in asleep
    /\ asleep' = asleep \ {t}
    /\ UNCHANGED <<session, channel, flags, worker, calls, fault>>

\* A wait whose predicate is false blocks (again).
FallsAsleep(t) ==
    /\ Waiting(t) /\ t \notin asleep /\ ~MayProceed(t)
    /\ asleep' = asleep \cup {t}
    /\ UNCHANGED <<session, channel, flags, worker, calls, fault>>

-----------------------------------------------------------------------------
Running == fault = "none"

\* What an application thread may do, and what it does once inside a call.
InitProceeds(t) == InitResumes(t) \/ InitWakes(t) \/ InitTimesOut(t)
                   \/ InitReadsResult(t)
ShutdownProceeds(t) == ShutdownWakes(t) \/ JoinChecks(t) \/ JoinCalled(t)
                       \/ JoinReturns(t) \/ ShutdownFinishes(t)

InitCalled(t) == InitReturns(t) \/ InitJoins(t) \/ InitStarts(t)
ShutdownCalled(t) == ShutdownReturns(t) \/ ShutdownWaits(t) \/ ShutdownStarts(t)

\* Steps of the background thread that need nobody outside the process, and
\* those that the server decides.
BgProceeds == LoopChecks \/ StreamOpens \/ SyncFlagsCalled \/ StreamLosesObject
              \/ StreamConnects \/ StreamCancelled \/ StreamJudged
              \/ FatalDeclared \/ GraceChecked \/ BackoffStops \/ StreamRetried
ServerActs == MessageIgnored \/ MessageStored \/ StreamBreaks

Next ==
    /\ Running
    /\ \/ \E t \in Initers : InitCalled(t)
       \/ \E t \in Stoppers : ShutdownCalled(t)
       \/ \E t \in Callers : InitProceeds(t) \/ ShutdownProceeds(t)
       \/ BgProceeds
       \/ ServerActs
       \/ SecondPasses
       \/ \E t \in Callers \cup {Bg} : SpuriousWakeup(t) \/ FallsAsleep(t)

\* A thread inside a call keeps being scheduled, a deadline or back-off it
\* waits for passes, and a cancelled stream ends.  Nothing makes the server
\* answer, the application call, or a wakeup be spurious.
Fairness ==
    /\ \A t \in Callers : WF_vars(Running /\ (InitProceeds(t) \/ ShutdownProceeds(t)))
    /\ WF_vars(Running /\ BgProceeds)

Spec == Init /\ [][Next]_vars
FairSpec == Spec /\ Fairness

-----------------------------------------------------------------------------
(* Properties                                                              *)

\* Every variable keeps its type; only a caller of the right kind is inside
\* Init or Shutdown, and only a thread inside a wait sleeps.
TypeOK ==
    /\ state \in States /\ initResult \in Results /\ initTimedOut \in BOOLEAN
    /\ stub \in BOOLEAN /\ context \in {"none", "live", "cancelled"}
    /\ flags \in {"empty", "current", "previous"}
    /\ thread \in Points /\ connected \in BOOLEAN /\ data \in BOOLEAN
    /\ status \in StatusCodes \cup {"none"}
    /\ sinceHealthy \in 0 .. GracePeriod + 1
    /\ pc \in [Callers -> CallerPcs]
    /\ ret \in [Callers -> Results \cup {"none", "Failed", "threw"}]
    /\ \A t \in Callers : /\ pc[t] \in InitPcs => t \in Initers
                          /\ pc[t] \in Joining \cup {"shut_wait"} => t \in Stoppers
    /\ asleep \subseteq {t \in Callers \cup {Bg} : Waiting(t)}
    /\ fault \in {"none", "terminate", "crash"}

\* No wakeup is lost: whatever thread makes a wait's predicate true also
\* notifies, so a thread still asleep has a false predicate (the notify_all
\* calls in ShutdownInternal, ProcessStream, HandleFatalError,
\* HandleNonFatalError, and their absence everywhere else).
NoLostWakeup == \A t \in asleep : ~MayProceed(t)

\* init_result_ and init_timed_out_, which three threads write, agree with
\* state_ in every state in which Init reads them.
ResultMatchesState ==
    /\ state = "Initializing" => initResult \in {"Unknown", "Deadline"}
    /\ state = "Ready" => initResult = "Ok" /\ ~initTimedOut
    /\ state = "Reconnecting" => initResult \in {"Ok", "Internal"}
    /\ state = "Fatal" => initResult = "Internal"

\* kReady means that the store holds this session's flags, but for the moment
\* between HandleFatalError's ClearFlags and its change to kFatal.
ReadyServesCurrent ==
    state = "Ready" => flags = "current" \/ (thread = "fatal" /\ flags = "empty")

\* At most one caller is past ShutdownInternal's checks, so only one joins
\* the thread and tears the session down.
ExclusiveJoin ==
    \A s, t \in Callers : pc[s] \in Joining /\ pc[t] \in Joining => s = t

\* The process neither terminates on a joinable thread nor uses a stub or a
\* context that a Shutdown released.
NoFault == fault = "none"

\* Uninitialized means that no thread is left of the session before, nothing
\* can change the flags and no caller is still tearing down.
DownMeansNoThread ==
    state = "Uninitialized" =>
        thread = "off" /\ context = "none" /\ \A t \in Callers : pc[t] \notin Joining

\* A session that is waited for, ready or reconnecting has a thread to serve it
\* and the stub that the thread uses: a start that fails leaves no session behind,
\* and nobody takes the thread or the stub from one that goes on.
LiveSessionRuns == state \in Live => thread \notin {"off", "exited"} /\ stub

\* Once a Shutdown is under way, a stream that is or is being opened has been
\* cancelled: either Shutdown saw its context or InitStream saw the state.
CancelReachesStream ==
    state = "ShuttingDown" /\ thread \in InStream => context = "cancelled"

\* Only the end of Shutdown, or a fatal status found meanwhile, leaves
\* kShuttingDown: no late message or reconnection revives the session.
ShutdownSticks ==
    [][state = "ShuttingDown" =>
           state' \in {"ShuttingDown", "Uninitialized", "Fatal"}]_vars

\* Init never reports success on the strength of an earlier session: when it
\* returns OK the flags it leaves are not just that session's.
SuccessIsOfThisSession ==
    [][\A t \in Initers :
           pc[t] \in InitPcs /\ pc'[t] = "idle" /\ ret'[t] = "Ok"
               => flags # "previous"]_vars

\* Every call of Init and Shutdown returns, however the stream behaves.
AllCallsReturn == \A t \in Callers : pc[t] # "idle" ~> pc[t] = "idle"

\* A stream that ended is retried, or the thread is stopped.
RetriesOrStops == thread = "ended" ~> thread \in {"open", "exited", "off"}

-----------------------------------------------------------------------------
(* Statements of grpc_sync.h that the code does not keep                   *)

\* ShutdownInternal "Safely cancels the gRPC context and joins the background
\* thread": no call to Shutdown ends in std::thread::join's exception.
JoinsSafely == \A t \in Stoppers : ret[t] # "threw"

\* WaitForInitialization "Blocks the calling thread until the sync state
\* becomes kReady, or the initialization timeout is reached", while the session
\* goes on, that is unless a Shutdown or a fatal status ends it.
BlocksUntilReadyOrTimeout ==
    [][\A t \in Initers :
           pc[t] = "init_wait" /\ pc'[t] = "idle" /\ state \in Live
               => ret'[t] \in {"Ok", "Deadline"}]_vars
=============================================================================
