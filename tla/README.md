# Specifications of the flagd provider and the code-readiness hook

TLA+ models, TLC instances and TLAPS proofs for `cpp-sdk-contrib`: the flagd
provider (`providers/flagd`), which keeps feature flags in sync with a flagd
server over gRPC and evaluates them in the process, and the code-readiness hook
(`hooks/codereadiness`), which fails evaluations of flags that need a newer
binary. Paths below are relative to `src/providers/flagd/src` unless they begin
with `hooks/`.

1. [The system](#the-system)
2. [Modules](#modules)
3. [How the models correspond to the code](#how-the-models-correspond-to-the-code)
4. [Runs](#runs)
5. [Fairness](#fairness)
6. [What is proved](#what-is-proved)
7. [What the code does otherwise than it says](#what-the-code-does-otherwise-than-it-says)
8. [What is not modelled, and why](#what-is-not-modelled-and-why)
9. [Plan](#plan)

## The system

| Part | Source | State | Operations |
| --- | --- | --- | --- |
| `GrpcSync` | `sync/grpc/grpc_sync.*` | `state_`, `init_result_`, `init_timed_out_`, `stub_`, `context_`, `background_thread_`; one mutex, one condition variable | `Init`, `Shutdown` (application threads), `WaitForUpdates` (background thread) |
| `FlagSync` | `sync/sync.*` | `current_flags_`, `global_metadata_` under a shared mutex | `UpdateFlags`, `ClearFlags` (background thread), `GetFlags`, `GetMetadata` (any thread) |
| `FlagdProvider` | `provider.*` | `is_ready_`, an atomic | `Init`, `Shutdown`, five `Get*Evaluation` |
| `JsonLogicEvaluator` | `evaluator/evaluator.*` | none of its own, a pointer to the store | `ResolveAny` behind the five `Resolve*` |
| flagd operations | `evaluator/flagd_ops.cpp` | none | `starts_with`, `ends_with`, `sem_ver`, `fractional` |
| JsonLogic | `evaluator/json_logic/*` | table of operations | `Apply` and the operations |
| `FlagdProviderConfig` | `configuration.*` | options, environment, defaults | getters and setters |
| `CodeReadinessHook` | `hooks/codereadiness/src/*` | constant after `Create` | `After`; parsing and comparison of versions |

**Interactions.** The application calls the provider; `FlagdProvider::Init` and
`Shutdown` call `GrpcSync` and set `is_ready_` around those calls. `GrpcSync::Init`
starts the background thread and waits, with a deadline, for it to leave
`kInitializing`. The thread opens one `SyncFlags` stream, hands each message to
`FlagSync::UpdateFlags`, reports the first one as readiness, and after the stream
ended judges its status: fatal (clear the flags, give up), or not (clear the flags
once the grace period is over, back off, retry). An evaluation checks `is_ready_`,
takes two snapshots from `FlagSync` (flags, then global metadata), applies the
flag's targeting rule with JsonLogic, and answers with a variant; the SDK then runs
the hook's `After` on the answer and its metadata.

**What is hard here, and what makes each part correct.**

- `GrpcSync`. Four kinds of wait share one condition variable; `Shutdown` unlocks
  to join; the stream's context is cancelled by one thread while another stores
  it; the fatal path clears the flags before it takes the mutex; session results
  outlive their session. Correct: no wakeup is lost; one caller at a time tears a
  session down; no join throws and nothing is used after release; a shutdown's
  cancellation reaches every stream; nothing revives a session that is being shut
  down; `kReady` means this session's flags; `Init` does not succeed on a former
  session's strength; every call returns.
- `FlagdProvider`. A flag without a lock decides who may call what. Correct: Init
  and Shutdown never overlap inside the synchroniser, a ready provider has a
  session, evaluations are not answered from a session before it.
- `FlagSync` with `JsonLogicEvaluator` and the hook's `After`. Snapshots are
  replaced while they are read. Correct: flags and metadata of one document at a
  time; every answer explained by documents the store had; a minimum version
  enforced.
- Versions. The hook and `sem_ver` have a parser and a comparison each. Correct:
  precedence is an order, the two agree, ranges have no holes.
- `fractional`. Fixed-width arithmetic. Correct: every hash gets a variant, shares
  follow the weights, a change of weights moves only the users it must.
- JsonLogic. Lazy operations whose operands may fail. Correct: what evaluation does
  not reach does not count, forms that mean the same agree also in failing, `missing`
  and `var` have one notion of absence.
- Numbers of JsonLogic. Signed and unsigned integers and doubles meet in one
  operation. Correct: they are in one order; what is computed of them follows it, and
  integers are exact or right modulo their width.
- Conversions. A value takes several C++ types on its way from an application through
  a rule to the bytes that `fractional` hashes. Correct: the bytes follow what the value
  means, not its type.
- `FlagdProviderConfig`. Three sources of options, any of which may be unusable.
  Correct: the last valid value counts, and a connection is as secure as was asked for.

`PROJECT.json` lists every hazard with the line where it bites and the properties
that would catch it.

## Modules

| Module | What it is |
| --- | --- |
| `GrpcSync` | the life cycle of a session: `Init`, `Shutdown`, the background thread, the condition variable |
| `MCGrpcSync` | its symmetry for TLC |
| `GrpcSyncProofs` | type correctness, wakeups, results, readiness; safe teardown and the refinement under `SafeConfig` |
| `FlagSyncContract` | abstract: what the states of a synchroniser mean for its flags, with no threads, streams or waits |
| `GrpcSyncRefinement` | the mapping from `GrpcSync` to the contract |
| `FlagdProvider` | extends `GrpcSync` by `is_ready_`, the provider's calls and evaluations |
| `MCFlagdProvider`, `FlagdProviderProofs` | its symmetry; that it uses `GrpcSync` as specified, its types and its invariants |
| `FlagResolution` | pure: `ResolveAny` on one pair of snapshots, and the hook's verdict |
| `FlagEvaluation` | the store under updates and concurrent evaluations, with `FlagResolution` |
| `MCFlagEvaluation`, `FlagEvaluationProofs` | flags, documents and requests for TLC; proofs for any readers and documents |
| `SemVersion` | pure: both parsers and the comparison of versions |
| `CodeReadiness` | `CodeReadinessHook::Create` and `After` on parsed versions |
| `TargetingOps` | the four operations of flagd on evaluated arguments |
| `JsonValues` | JSON as tagged values, and `absl::StatusOr` |
| `JsonNumbers` | class `Number` and the operations of `numeric.cpp` |
| `JsonLogic` | the interpreter: what one call of `Apply` does, the table of operations, logic, data, arrays, strings; uses `JsonNumbers` |
| `Conversions` | contexts and `openfeature::Value` to JSON and back, `$flagd`, and the bytes that `fractional` hashes |
| `Configuration` | `FlagdProviderConfig`, and the channel that `GrpcSync::CreateStub` makes of it |
| `Precedence` | `CodeReadiness` and `TargetingOps` together: what their comparisons, ranges and parsers owe each other |
| `TargetingProofs` | precedence is an order for all versions, the hook's verdicts and `sem_ver` follow it and agree; every hash gets a variant, shares are due, users stay when weight moves, for any weights |
| `JsonLogicProofs` | numbers of any width are ordered, with differences, extremes, sums and products of any length; for all rules, operands not reached do not count, equivalent forms agree, `missing` agrees with `var` |
| `ConversionsProofs` | for values of any nesting: what is hashed says what the value says, and conversions there and back keep it |
| `ConfigurationProofs` | options hold the last valid value, fatal codes are codes, the connection follows the priority |
| `Induction` | lemmas the others rest on: induction by steps, recursive functions, folds, extremes of sets of numbers |
| `MCRules` | `Precedence`, `Conversions` and `Configuration` side by side, with arguments for TLC, and the properties that relate them |

## How the models correspond to the code

**Grain.** In `GrpcSync` a section of code under `lifecycle_mutex_` is one step.
A step ends where the code unlocks, waits, joins or touches something other
threads see without the mutex: the cancelled context, the flag store, the thread's
handle. So `ShutdownInternal` is five steps (`ShutdownStarts`, `JoinChecks`,
`JoinCalled`, `JoinReturns`, `ShutdownFinishes`), `HandleFatalError` two
(`StreamJudged` clears the flags, `FatalDeclared` takes the mutex), and
`InitStream` three. `FlagdProvider` puts the look at `is_ready_`, the call and the
setting of `is_ready_` in steps of their own, because nothing holds a lock across
them. `FlagEvaluation` has an evaluation's `GetFlags` and `GetMetadata` as two
steps, each atomic under `flags_mutex_`.

**Waits.** A thread in a `wait` is in `asleep` until a `notify_all` (`NotifyAll`), a
spurious wakeup or its time-out; it then looks at its predicate (`MayProceed`)
and goes on or falls asleep again. Nothing but the code's `notify_all` calls
wakes a thread, so a forgotten one would show.

**Data.** Reduced to what the properties tell apart:

- flags in `GrpcSync`: none, the present session's, or the one's before;
- `absl::Status`: by what the code or a caller distinguishes (`Results`);
- `sinceHealthy`: whole seconds up to one past the grace period, where
  `CheckGracePeriod` stops telling them apart;
- the join of a thread that another caller has joined: the caller gets an exception;
  a `std::thread` assigned over while joinable: `fault = "terminate"`;
  a released stub or context in use: `fault = "crash"`;
- the copy of `init_result_` that a joining `Init` makes without the mutex: a read
  at any later time (the race on the object itself is below this grain);
- the destructor: a `Shutdown`;
- `FlagResolution`: of metadata the hook's key, of a targeting rule the kind of its
  outcome, of a version its rank. `SemVersion` has versions in full, as texts split
  into prefix, core, pre-release and build;
- `TargetingOps`: the hash of `fractional` is any number of its width. Widths of
  integers are parameters. A weight is truncated as `get<int32_t>` truncates it
  (-4294967295 counts as 1, not as 0; the shares are those of the weights after that), and one converted from a floating-point
  number out of range is any number, since that conversion is undefined;
- `JsonLogic`: values are tagged, objects are functions from texts; a text is a
  sequence of tokens. Keys are split at dots *and* slashes, as the JSON pointer made
  from them is. `missing_some` evaluates its keys twice, as the code does. `Apply` and
  `JsonEqual` are parameters: `ApplyOnce` and `EqualOnce` say what one call of them does,
  with the calls it makes itself, and `MCRules` closes the recursion (`MCApply`,
  `MCJsonEqual`), so that the module can be proved about. The start of `substr` is an
  `int64_t` and its length an `int`, which keeps the low bits of a number (`ToInt32`,
  with `IntSignBit` for 2^31);
- `JsonNumbers`: a number is a kind and a value. `SignBit` is 2^63 in the code; doubles
  are the multiples of 1/`Resolution` in `DoubleValues`, and `Rounded` takes any fraction
  to one of them. Signed arithmetic that overflows is undefined: its result is a
  parameter of every operation, chosen by the action that calls it (`MCRules` lets
  rules have one such value, `Overflowed`). Doubles are finite, with one zero. A
  literal without a sign is unsigned, an `int` or `int64_t` of the context signed, as
  the parser and the conversions make them;
- `Conversions`: an attribute is its C++ type and its value as JSON. `openfeature::Value`
  is the SDK's and modelled from its use: its integers are an `int64_t`, `AsInt` truncates
  a double and has nothing to give for one out of range. Types that `ContextToJson`
  does not know leave the attribute out, as the code does without a word. An encoding
  is its sequence of CBOR data items, without their bytes. The bucketing value is the
  attribute, or the pair of flag key and targeting key, and the clock is in `$flagd`.
  The functions that call themselves on the parts of a value (`JsonToValue`, `ValueToJson`,
  `EncodeJson`) are parameters, as `Apply` is: `JsonToValueOnce`, `ValueToJsonOnce` and
  `EncodeOnce` say what one call does, and `MCRules` defines the recursive operators by
  them. `Nesting` says how deep each value is nested, so that a proof can go from parts to
  the whole;
- `Configuration`: a text is `[number, word]`, what `std::stoi` takes off its front and
  what follows, since that is all the code tells apart in one; `8015abc` is thus the
  port 8015. Certificate files can be opened at one connection and not at the next.

**Operators that stand right before the one they resemble** (`NotifyNobody` before
`NotifyAll`, `KeptMetadata` before `NewMetadata`) are that definition with a bug a
change to the code could bring in. Each property is tested by putting one in the
place of the right one; all others in the modules model the code.

## Runs

All numbers are distinct states. Runs that pass check deadlock unless noted.

| Run | Instance | What it shows | States |
| --- | --- | --- | --- |
| `grpc_default` | 2 `Init`, 2 `Shutdown`, no fatal code (the default) | One caller tears down (`ExclusiveJoin`) and nothing faults (`NoFault`), `kUninitialized` leaves nothing behind (`DownMeansNoThread`), cancellation arrives (`CancelReachesStream`), a shutdown is not undone (`ShutdownSticks`), a start that fails is, and every session that goes on has its thread and its stub (`LiveSessionRuns`) | 503k |
| `grpc_fatal` | 2 + 1, one fatal code | The contract is implemented step by step (`ImplementsContract`): `kFatal` is final and serves nothing, `kReady` serves this session's flags. Results match states (`ResultMatchesState`) | 283k |
| `grpc_races` | 2 + 2, one fatal code | What holds even where the process may throw or die: no lost wakeup (`NoLostWakeup`), `kReady` serves this session (`ReadyServesCurrent`), no success on a former one (`SuccessIsOfThisSession`). The process may stop here, so deadlock is not checked | 922k |
| `grpc_live` | 1 + 1, fairness | Every call returns however the stream behaves (`AllCallsReturn`); the contract with its own fairness (`KeepsContract`); an ended stream is retried or its thread stops (`RetriesOrStops`) | 15k |
| `provider` | 1 `Init`, 1 `Shutdown`, 1 evaluator, fairness | The calls stay apart (`CallsApart`), a ready provider has a session (`ReadyHasSession`), evaluations are of it (`ServedFromSession`), calls return (`ProviderCallsReturn`) | 56k |
| `flag_evaluation` | 1 reader, 28 documents, 3 contents | Every result is explained by the flags of one document and the metadata of it or a later one (`ResultExplained`), never by metadata of a document that has been replaced; a flag's own minimum is enforced | 44k |
| `rules` | `MCRules` | Hook, operations of flagd, JsonLogic with its numbers, conversions and configuration on small argument sets (below) | 146k |
| `grpc_join`, `grpc_wait`, `provider_late`, `flag_torn`, `rules_prefix` | | Each violates one statement of the repository; see [below](#what-the-code-does-otherwise-than-it-says) | |

**Bounds, and why they are enough.** Two callers of each kind are what the races of
`GrpcSync` need: two that tear down, or one that tears down, one that waits for it
and one that starts the next session. The store's three origins tell every stale
read; a third session behaves as the second. The grace period is 0 or 1 second,
so that both sides of it are reached soon; the proofs cover any. One reader is enough for
`FlagEvaluation`, readers do not affect each other (the proof is for any number);
three contents allow a document before, one between and one after its two reads.
Callers of one kind are interchangeable (symmetry) in safety runs; runs with
liveness use no symmetry.

In `rules` numbers go up to 11 (`MaxNumber` is where `SimpleAtoi` overflows), hashes
have 5 bits and weights 4, so that sums, truncation and the edges of buckets are
all met. The versions differ from one another in one respect each: a part, the
length and kind of a pre-release, a build, a missing part; other texts are refused
by one parser or both. JsonLogic rules are all `and`/`or` of up to three and all `if`
of up to five operands that include one that fails, all lookups of one or two keys
in objects, arrays, nulls and scalars, and all cuts of a text. Its properties
relate rules: they evaluate further rules on the data of the state.

Integers of JsonLogic have four bits and doubles three significant digits and
quarters, an `int` three bits (`substr` is given lengths beyond them): integers that round to the same double, sums and products that wrap,
differences that overflow in each of the three ways of `Sub`, and doubles beyond
every integer are all there, and lists of up to three numbers of all kinds, which is
what an order takes. Contexts have the same numbers in every C++ type and the
same members in different orders, at two times. Configurations are made in
environments with usable, unusable and half-usable texts and changed by up to two
setters (one to override, one to override or be refused after it); files come and go
between connections. Operation, hook and configuration share no state in the code,
so `MCRules` does not interleave them: an answer is used before the next is made.

**Properties of `rules`.** `VerdictsFollowPrecedence`: what passes the hook against a
minimum passes it against any lower one. `RuleAgreesWithHook`: `sem_ver` ">=" decides
as the hook. `ComparisonsAgree`: the operators are those of one order. `RangesFit`:
a range has no holes, `~`
lies within `^` from 1.0.0 on, and `^` within `~` below. `SharesFollowWeights`: every hash gets a variant and the shares are right to
within one hash. `RampKeepsUsers`: moving weight from one variant to its neighbour
moves users only that way. `OnlyReachedOperandsCount`: if a rule succeeds with a
failing operand, that operand's value does not matter. `EquivalentForms`: De Morgan,
chained and nested `if`, grouping, a text cut in two (a literal one, while its length and
the place fit an `int`), "between" as two comparisons, a comparison and its opposite. `MissingIsWhatVarLacks`:
a key is missing just if `var` falls back to its default, and `missing_some` counts
by the same notion. `NumbersAreOrdered`, `ExtremesBound`: signed, unsigned and double
are in one order, and `min` and `max` are bounds in it although equality is not handed
on. `IntegersAreModular`: sums and products of integers are right modulo 2^64 in
whatever order signedness mixes. `DifferencesFollowOrder`: a difference has the sign
that the order of its operands asks for. `BucketsFollowValues`: two contexts are hashed
alike just if what identifies the user is the same, whatever types, orders and
times. `LastValidWins`: every option holds the last valid value of setter,
environment and default. `FatalCodesAreCodes`: names, texts and numbers mean the
same codes. `ConnectionFollowsPriority`: target and credentials follow the
priority that `configuration.h` states, and a certificate that cannot be read fails
the connection.

Which properties the runs leave to the proofs: `ContractInv`, `ProviderInv` and
`ContractTruthful` are what the theorems rest on or give for every instance, and TLC
would only repeat what `ImplementsContract` and the provider's properties check.

## Fairness

`GrpcSync!Fairness` is weak fairness of what a thread does inside a call or in the
background function. The code justifies it: mutex sections are short and do not
block, the waits have a deadline or a back-off that passes, and gRPC ends a stream
whose context is cancelled. Nothing is assumed of the server (messages, broken
streams), the application (calls), the clock beyond those time-outs, or spurious
wakeups.

`AllCallsReturn` holds for one caller of each kind, the way the SDK uses a provider.
With three threads it does not: a thread that waits for `kUninitialized` is woken,
but another thread's `Init` may leave `kUninitialized` before it runs, and it sleeps
on for as long as the next session lives. Weak fairness does not rule that out, nor
does the code; no document claims otherwise, so it is recorded as a hazard that no property covers.

## What is proved

TLAPS checks every proof, for all sets of callers, readers, documents, versions,
status codes and grace periods.

**`GrpcSyncProofs`, in every configuration**: `TypeCorrect`; `WakeupsArrive`
(`NoLostWakeup` is inductive given types); `ShutdownIsFinal` (step by step, with no
invariant); `ResultsMatch`; `ReadyIsCurrent` and
`SuccessIsCurrent`. The last two rest on `ServedData`: in `kReady` the store holds
this session's flags unless the thread stands between the clearing of the flags and
`kFatal`, and only a thread whose stream has delivered can be about to set `kReady`.

**Under `SafeConfig`** (no status code is fatal, or at most one thread shuts
down): `OneCallerTearsDown`, `TeardownIsSafe`, `DownIsQuiet`, `LiveSessionsRun`,
`CancellationArrives`.
The properties are not inductive: that a join is safe needs that nobody else is
joining, which needs that `kShuttingDown` (or `kFatal` with its only stopper) has
one owner, which needs that no thread is left in `kUninitialized`. `SafeInv` conjoins the configuration,
`TypeOK`, `OneTeardown` (who may be where in `ShutdownInternal`, and what state and
thread are then) and `ThreadLife` (which states each point of the background thread
allows, and which context it has). The assumption is needed: `grpc_join` is the
counterexample without it.

**The refinement, also in `GrpcSyncProofs`**: `ContractImplemented`: every step of `GrpcSync` is a step of
`FlagSyncContract` or a stutter under the mapping of `state` to `phase`, `flags` to
`held`, and `thread = "fatal"` to `doomed`. It needs `ContractInv`, that is `SafeInv`,
`ServedData` and `LossShows` (the grace period is looked at only when the state
shows the loss). `PhasesAreTruthful` then follows from the contract alone.

**`FlagdProviderProofs`**: `ProviderTypeCorrect`, for any callers. `SyncInside`: a
provider's behaviour is one of `GrpcSync`, so its theorems hold inside. Under `OneOfEach` (one thread initialises, one shuts
down): `CallsAreApart`, `ReadyMeansSession`, `EvaluationsAreOfSession`, from
`ProviderInv`, which ties each caller's place to `is_ready_` and to the session.
`provider_late` is the counterexample with two threads that initialise.

**`FlagEvaluationProofs`**: `TypeCorrect`, `ResultsExplained`,
`OwnMinimumHolds`. The invariant adds a log of the contents the store has had and the
place in it of each snapshot taken, so that "explained" has a witness that later
updates do not move.

**`TargetingProofs`, versions**, begins with the order itself: `ComparisonTurns` (the comparison changes sign with its
operands, and is zero only for equal versions) and `PrecedenceIsTransitive`, for
numbers of any size and pre-releases of any length. The argument goes by the first
place where two sequences differ, which exists since the natural numbers are
well founded. The rest assumes of version texts only that they have the four parts a
parser splits them into (`TextAssumption`, `MarkerAssumption`). `VerdictsAreOrdered` and
`ComparisonsAreConsistent` come from the order. `RangesAreIntervals`: what lies between
the bound of a range and a version in it shares the numbers that the range keeps
(`RangeIsConvex`), because the order begins with the numbers. `RuleDecidesAsHook`: a
text that the hook's parser reads has only digits in its numbers, so the trimming of
the other changes nothing (`DigitsAreTrimmed`) and the two read the same version
(`ParsersAgree`).

**`JsonLogicProofs`, numbers**: `NumbersOrdered` and `DifferencesOrdered`, for integers of any
width and any doubles, assuming of rounding that it keeps the order of integers and
the sign of a difference (`RoundingAssumption`). Integers are compared by value and
anything else as doubles, so a number that comes before another never has the
greater double (`LessOfDoubles`); transitivity follows by which of the three numbers
are doubles. The invariant `ComputedInv` says what `computed` may hold.

`ExtremesAreExtreme` and `IntegersStayModular` are about argument lists of any length.
The code accumulates over a list with one `FoldLeft`; the proofs first unfold it into a
function that goes from place to place (`FoldExists`), then step along it. For `min` the
invariant is that no place passed holds a number before the one kept, for sums and products
that the partial result is signed and exact while all operands are signed, and unsigned
and exact modulo the width from the first unsigned operand on (`RemaindersCombine`).

**`JsonLogicProofs`, rules**: `UnreachedDoNotCount`, `FormsAgree` and `MissingAgreesWithVar`, for
rules of any size and depth, with any number of operands, and any data. The theorems have
one hypothesis, `IsInterpreter`: on every rule `Apply` answers what `ApplyOnce` says, and it
answers that an operation is unknown for none. Nothing else is known of `Apply`; in
particular the proofs use no induction over rules, since each of the properties relates
rules that share their operands. The hypothesis is what the code does: the body of
`JsonLogic::Apply` is `ApplyOnce`, it returns the status "not found" for no rule because it
answers with the rule itself where `ApplyOp` does not know the operation, and no other
operation makes that status. Such an `Apply` exists: every operation fails or stops at the
first operand that does, so that `InvalidArgument` for the evaluations that never return
(`missing_some` can begin one with what it evaluates again) satisfies the equations. In the
instance of `MCRules` it holds by definition.

The inductive invariant, `LogicInv`, says that what was evaluated is one of the rules and its
status is `Apply`'s answer. The rest is about the operations. `ChainIs` names the operand at
which `and` or `or` ends (the last, or the first that does not let the next be reached),
`IfIs` the condition that decides, `ArrayIs` the first operand that fails where all are
evaluated. De Morgan's law, grouping and nesting then follow because the two rules end
at the same operand (`DeMorgan`, `Grouping`, `ChainedIf`), and an operand that fails
without failing the rule lies behind that end, so that replacing it leaves the end where
it is (`ChainIsStable`, `IfIsStable`). `Opposites` and `Between` come from the order of the
numbers and from what `NumericOperation` does to two and three of them (`CompareTwo`,
`CompareThree`), `CutText` from the bounds that `Start` and `Length` put on a part of a text, where an `int`
keeps all of a number that fits it (`ToInt32Keeps`, `SubstrFrom`, `SubstrFromFor`, `PartsOfText`). A name is lacked by `var` just if
`GetVariableValue` finds nothing (`LacksIs`); `missing` collects the names of which that is
so (`MissingAnswers`), and `missing_some` counts them, since a sequence collected is as
long as its places are many (`CollectedIs`).

Three premises in the properties are what the code asks for: the text that
`EquivalentForms` cuts is a literal, which is what the parts are to make up, and its length
and the place to cut fit an `int` (`FitsInt`; beyond, the first part loses the high bits of
its length and the law fails, as TLC shows without the premise); numbers that operands of `>`
and `>=` evaluate to are among `Numbers` (`AreFinite`: no NaN);
names in `MissingIsWhatVarLacks` are not empty, for the empty one is the whole data to `var`.
Of the rules they assume that arrays and texts are sequences and numbers are those that
there are (`RulesAssumption`, `IsWellFormed`), of the order of keys that it has the names of
the operations (`KeyOrderAssumption`).

**`TargetingProofs`, shares**, for any width of hashes and weights (`WidthAssumption`), assuming of
arguments that an array is a sequence (`ArrayAssumption`): `SharesAreDue` and
`RampsKeepUsers`. The sums of the weights are ordered (`SumsAreOrdered`), and the bucket of a
hash reaches a sum just from one hash on, the sum's `Edge` (`BucketIs`, from what integer
division is). So the users of a variant are the hashes between two edges
(`TakersAreBetweenEdges`), their number is a difference of edges, and an edge is less than
one hash from the exact place (`ShareIsDue`). A unit of weight that moves to a neighbour
changes one of the sums by one (`MovedSums`) and leaves the total and hence every bucket as
they are, so only users at that one edge can change sides (`MovingMovesOnlyLosers`).

**`ConfigurationProofs`**: for any environment and any number of setters, assuming the types
of what setters and environment hold (`SettingAssumption`). `OptionsHoldLastValid`:
`ConfigInv` says how each option follows from the history; a call of a
setter appends to it, so that the last valid value is the new one or stays.
`FatalCodesAreKept`: the loop over a list of codes of any length keeps codes that gRPC has
and no others. `PriorityIsFollowed`: what
`GetEffectiveTargetUri` and `GetEffectiveCredentials` read in the options is what was last
said of each, by `ConfigInv`, so their choice is the one `configuration.h` states.

**`ConversionsProofs`**, for attributes and variants of any nesting, any contexts and numbers of
any width: `BucketsAreOfValues`, with `EncodingIsCanonical` (two values have the same encoding
just if they say the same) and `ValuesComeBack` (what goes through `JsonToValue` and
`ValueToJson` says the same if its integers fit). Facts about all values go by induction on
`Nesting`: what a value has whenever its parts have it, all values have (`PartByPart`), and two
values together whenever their parts have it together (`PartsByParts`).

That different values differ in their encoding rests on two facts proved at once, since each
needs the other for the parts (`CodesTell`): values encoded alike say the same, and no encoding
is a proper beginning of another. An encoding begins with one item that tells the kind of a
value and how many parts it has (`HeadTells`); of two equal lists of encodings joined, where
none begins another, the first are equal, then the second, and so on (`FlattenCancels`). The
members of an object are encoded in one order, since names can be sorted, and in one way only
(`KeysCanBeSorted`, `SortedKeysAre`). Numbers have one code for each number there is, signed,
unsigned or double, because a whole double counts as an integer just where the bounds that
`EncodeJson` compares it with say so (`NumbersAreCoded`), also at 2^64, which no integer is but
which 2^64 - 1 is rounded to. The rest follows a context on its way: what it has after
`ContextToJson` and under `$flagd` (`ContextHas`, `DataHave`), what the JSON pointers made of
`x`, `targetingKey` and `$flagd.flagKey` find there, made by a fold over the path
(`PointerOfOne`, `PointerOfTwo`), and hence what is hashed (`BytesAre`, `BytesTell`). The
invariant `ConversionInv` says that the bytes kept are those of the context kept.

Besides `IsInterpreter` the theorems have the hypothesis `AreConversions`: each function does
what one call of it does, with itself for its calls on the parts. The code is written so, and
such functions exist because a value is made of finitely many parts; in `MCRules` they are
defined so. Of the constants they assume that the values are JSON, each nested deeper than its parts, and
their members' names listed in `KeyOrder` (`NestingAssumption`), that those names are texts
(`KeysAssumption`), that rounding leaves a number alone that is a double, that cutting off the
fraction of a double makes a double and that 2^64 - 1 is rounded up (`WholeDoublesAssumption`),
and that an `openfeature::Value` holds no integer beyond `int64_t` (`ContextsAssumption`).

**`Induction`** is what takes the place of the library's induction theorems, whose
operator parameters the provers cannot instantiate. `LeastNumber` (a set of natural numbers
that is not empty has a least) follows from well-foundedness; `StepByStep` is induction
over the numbers up to a bound, for a *set* of numbers instead of a predicate;
`RecursionExists` says that a function defined from place to place exists, and `FoldExists`
the same of the fold of the community modules: without them nothing is known of a function
that is defined by recursion.

**Assumptions.** The theorems under `SafeConfig` and `OneOfEach` are about a restricted use of
the system, and there are counterexamples without it. All other assumptions say what
a constant is: a width or a bound is positive, rounding keeps order, an array is a sequence,
the threads of the application and of the synchroniser have different names. TLC evaluates
each of them in the runs. `IsInterpreter` speaks of all rules and `AreConversions` of all values,
which TLC cannot go through; they are the definitions of `MCApply` and of `MCEncodeJson` and the
others next to it.

**Only model-checked**: `AllCallsReturn`, `KeepsContract`, `RetriesOrStops` and
`ProviderCallsReturn`, which are liveness under fairness and need ENABLED (the safety part of
`KeepsContract` is `ImplementsContract`, proved). Every other property of a run that passes is
the statement of a theorem. No induction says what the recursive operators of `MCRules` compute:
the theorems are about any operators that satisfy the equations.

## What the code does otherwise than it says

| Run | Statement | What the code does |
| --- | --- | --- |
| `grpc_join` | `grpc_sync.h:42` "Safely cancels the gRPC context and joins the background thread" | In `kFatal` a second `Shutdown` is not turned away: both join one thread, one of them throws |
| `grpc_wait` | `grpc_sync.h:62` "Blocks the calling thread until the sync state becomes kReady, or the initialization timeout is reached" | When the first stream cannot be opened or breaks before its first message, `Init` returns its error, before either, while the session goes on and may become ready. Nobody calls `Shutdown` in this run, and the property speaks of sessions that go on |
| `provider_late` | `tests/provider_test.cpp:129` "ShutdownMakesProviderNotReady" | With two threads in `Init`, the slower one sets `is_ready_` after a `Shutdown` has returned |
| `flag_torn` | `hooks/codereadiness/README.md:4, 59`: minimum version "specified in the flag's metadata" | An update between the two reads pairs a flag with another document's global metadata; the hook judges by that |
| `rules_prefix` | `hooks/codereadiness/README.md:131` "optional leading `v`/`V`" | The hook's parser takes `v` only |

Also seen in the models, where but for the first no document says otherwise:
`get<int32_t>` truncates a weight before it is clamped, so that -4294967295 counts as 1 and
takes users, and 4294967297 counts as 1 and is not refused (a comment of the tests,
`flagd_fractional_op_test.cpp:493`, says "Negative bucket weight is clamped to zero", which
holds for those that fit); a failed `Init` of the
provider leaves the synchroniser's thread running, and `Shutdown` then returns OK
without stopping it; a session that ends in `kFatal` leaves `is_ready_` set;
`init_timed_out_` outlives its session; `get<int>` truncates
the length of `substr`, so that 4294967297 takes one letter; a sum of -3 and 1 written as literals wraps to 2^64-2,
because a literal without a sign is unsigned; `get<int64_t>` turns variants from 2^63
on negative; `==` takes -1 and 2^64-1 for equal, as the JSON library does, where `<`
orders them; attributes of types other than those `ContextToJson` lists (`float`,
`const char*`) are dropped; `missing_some` runs keys that come from the context and
look like rules, though its comment calls the outcome a subset of the keys.

## What is not modelled, and why

- `evaluator/murmur_hash` is third-party code, a fixed function on bytes: `fractional`
  is modelled for every hash, and `Conversions` says which contexts get the same.
- The bytes of CBOR: that its data items are written as RFC 8949 says is a table of
  bits. Order, kinds and nesting limit of the items are modelled.
- Infinities and NaN among doubles: a document has none, an attribute of a context or
  a product of large doubles could be one. Comparisons with NaN are in no order.
- `GetVariableValue` dumps the data into the message of the status when a key is not found
  (`data.cpp`), which throws on a context that holds invalid UTF-8. Texts are sequences of
  tokens here, and messages are left out.
- The offline file source: an option names one, and a provider constructed with
  it aborts (`provider.cpp:32`); there is no code that polls a file.
- `openfeature::Value` and the SDK: external, as far as the code above uses them.
- A version comparator of the application's own: any function.
- Schema validation: whether a document validates is a property of the document.
- `json_logic/cli.cpp`, build files, tests, the smoke tools.

## Plan

Done: `GrpcSync`, its contract and refinement, `FlagdProvider`, `FlagEvaluation` with
`FlagResolution`, `SemVersion` with `CodeReadiness` and `TargetingOps`, `JsonLogic` with
`JsonNumbers`, `Conversions`, `Configuration`. Every component with logic of its own has a
module.

Next, in this order:

1. `JsonLogic` put under `ResolveAny`: the outcome of targeting computed, not chosen.
2. `FlagdProvider` with `Configuration`: that a failed `GetEffectiveCredentials` fails
   `Init` and leaves the provider as it was, in one model.

To prove next: under `SafeConfig`, that a stream the application has not shut down is
retried, as the safety property behind `RetriesOrStops`.
