------------------------ MODULE FlagEvaluationProofs ------------------------
(***************************************************************************)
(* Proofs about FlagEvaluation for any readers, requests and documents.    *)
(***************************************************************************)
EXTENDS FlagEvaluation, TLAPS

-----------------------------------------------------------------------------
(* The log only grows at its end.                                          *)

LEMMA LogGrows ==
  ASSUME NEW S, NEW s \in Seq(S), NEW e \in S
  PROVE  /\ Append(s, e) \in Seq(S)
         /\ Len(Append(s, e)) = Len(s) + 1
         /\ Append(s, e)[Len(s) + 1] = e
         /\ \A i \in 1 .. Len(s) : Append(s, e)[i] = s[i]
  OBVIOUS

\* The background thread's steps append the store's new contents to the log.
LEMMA PublishStep ==
  ASSUME (\E doc \in Documents : UpdateFlags(doc)) \/ ClearFlags
  PROVE  /\ UNCHANGED evaluation
         /\ Len(log) < MaxContents
         /\ \E c \in Contents :
               /\ log' = Append(log, c)
               /\ [flags |-> currentFlags', metadata |-> globalMetadata'] = c
  <1>1. CASE \E doc \in Documents : UpdateFlags(doc)
    BY <1>1 DEF UpdateFlags, Contents, Published, NewMetadata
  <1>2. CASE ClearFlags
    BY <1>2 DEF ClearFlags, Contents, Cleared, EmptiedFlags
  <1> QED
    BY <1>1, <1>2

-----------------------------------------------------------------------------
\* The store holds the last of the contents in the log.
StoreIsLogged ==
    [flags |-> currentFlags, metadata |-> globalMetadata] = log[Len(log)]

\* What the properties need of one another: what a reader took is in the log,
\* and the hook judged the details that the reader returned.
ReaderInv ==
    /\ TypeOK
    /\ StoreIsLogged
    /\ ResultExplained
    /\ \A r \in Readers : Finished(r) /\ passed[r] =>
          details[r].error = "none" /\ AfterPasses(details[r].metadata)

LEMMA ReaderInit == Init => ReaderInv
  <1> SUFFICES ASSUME Init PROVE ReaderInv
    OBVIOUS
  <1>1. log \in Seq(Contents) /\ Len(log) = 1 /\ log[1] = Cleared
    <2>1. Cleared \in Contents
      BY DEF Contents
    <2>2. log = <<Cleared>>
      BY DEF Init
    <2> QED
      BY <2>1, <2>2
  <1>2. \A r \in Readers : seenAt[r] = 0
    BY DEF Init
  <1>3. TypeOK
    <2>1. /\ point \in [Readers -> {"idle", "flags"}]
          /\ request \in [Readers -> Requests]
          /\ passed \in [Readers -> BOOLEAN]
          /\ DOMAIN details = Readers /\ DOMAIN flagsTaken = Readers
      BY DEF Init
    <2>2. seenAt \in [Readers -> 0 .. Len(log)]
      <3>1. seenAt = [r \in Readers |-> 0]
        BY DEF Init
      <3> QED
        BY <1>1, <3>1
    <2> QED
      BY <1>1, <1>2, <2>1, <2>2, BoundAssumption DEF TypeOK
  <1>4. StoreIsLogged
    BY <1>1 DEF Init, StoreIsLogged, Cleared
  <1> QED
    BY <1>2, <1>3, <1>4 DEF ReaderInv, ResultExplained, Finished

\* Publishing keeps the invariant: what is in the log stays where it is.
LEMMA PublishKeeps ==
  ASSUME ReaderInv, UNCHANGED evaluation, Len(log) < MaxContents,
         NEW c \in Contents, log' = Append(log, c),
         [flags |-> currentFlags', metadata |-> globalMetadata'] = c
  PROVE  ReaderInv'
  <1> USE DEF evaluation
  <1>1. /\ log \in Seq(Contents) /\ Len(log) \in 1 .. MaxContents
        /\ point \in [Readers -> {"idle", "flags"}]
        /\ request \in [Readers -> Requests]
        /\ seenAt \in [Readers -> 0 .. Len(log)]
        /\ passed \in [Readers -> BOOLEAN]
        /\ DOMAIN details = Readers /\ DOMAIN flagsTaken = Readers
        /\ \A r \in Readers : seenAt[r] > 0 => flagsTaken[r] = log[seenAt[r]].flags
    BY DEF ReaderInv, TypeOK
  <1>2. /\ log' \in Seq(Contents) /\ Len(log') = Len(log) + 1
        /\ log'[Len(log')] = c
        /\ \A i \in 1 .. Len(log) : log'[i] = log[i]
    BY <1>1, LogGrows
  <1>3. \A r \in Readers : seenAt[r] \in 0 .. Len(log)
    BY <1>1
  <1>4. TypeOK'
    <2>1. Len(log') \in 1 .. MaxContents /\ seenAt' \in [Readers -> 0 .. Len(log')]
      BY <1>1, <1>2, BoundAssumption
    <2>2. \A r \in Readers : seenAt'[r] > 0 => flagsTaken'[r] = log'[seenAt'[r]].flags
      BY <1>1, <1>2, <1>3
    <2> QED
      BY <1>1, <1>2, <2>1, <2>2 DEF TypeOK
  <1>5. StoreIsLogged'
    BY <1>2 DEF StoreIsLogged
  <1>6. ResultExplained'
    <2> SUFFICES ASSUME NEW r \in Readers, Finished(r)'
                 PROVE  \E newer \in seenAt'[r] .. Len(log') :
                           details'[r] = Resolve(log'[seenAt'[r]].flags,
                                                 log'[newer].metadata, request'[r])
      BY DEF ResultExplained
    <2>1. Finished(r) /\ seenAt[r] \in 1 .. Len(log)
      BY <1>3 DEF Finished
    <2>2. PICK newer \in seenAt[r] .. Len(log) :
              details[r] = Resolve(log[seenAt[r]].flags, log[newer].metadata, request[r])
      BY <2>1 DEF ReaderInv, ResultExplained
    <2>3. newer \in 1 .. Len(log) /\ newer \in seenAt'[r] .. Len(log')
      BY <1>1, <1>2, <2>1, <2>2
    <2>4. log'[newer] = log[newer] /\ log'[seenAt[r]] = log[seenAt[r]]
      BY <1>2, <2>1, <2>3
    <2> QED
      BY <2>2, <2>3, <2>4
  <1> QED
    BY <1>4, <1>5, <1>6 DEF ReaderInv, Finished

\* Every step keeps the invariant.
LEMMA ReaderStep == ReaderInv /\ [Next]_vars => ReaderInv'
  <1> SUFFICES ASSUME ReaderInv, [Next]_vars PROVE ReaderInv'
    OBVIOUS
  <1>1. /\ log \in Seq(Contents) /\ Len(log) \in 1 .. MaxContents
        /\ point \in [Readers -> {"idle", "flags"}]
        /\ request \in [Readers -> Requests]
        /\ seenAt \in [Readers -> 0 .. Len(log)]
        /\ passed \in [Readers -> BOOLEAN]
        /\ DOMAIN details = Readers /\ DOMAIN flagsTaken = Readers
        /\ \A r \in Readers : seenAt[r] > 0 => flagsTaken[r] = log[seenAt[r]].flags
    BY DEF ReaderInv, TypeOK
  <1>2. /\ currentFlags = log[Len(log)].flags
        /\ globalMetadata = log[Len(log)].metadata
    BY DEF ReaderInv, StoreIsLogged
  <1>3. CASE UNCHANGED vars
    BY <1>3 DEF ReaderInv, vars, store, evaluation, TypeOK, StoreIsLogged,
                ResultExplained, Finished
  <1>4. CASE (\E doc \in Documents : UpdateFlags(doc)) \/ ClearFlags
    BY <1>4, PublishStep, PublishKeeps
  <1>5. ASSUME NEW r \in Readers, NEW q \in Requests, GetFlags(r, q)
        PROVE  ReaderInv'
    <2> USE <1>5 DEF GetFlags, store
    <2>1. TypeOK'
      BY <1>1, <1>2 DEF TypeOK
    <2>2. StoreIsLogged'
      BY DEF ReaderInv, StoreIsLogged
    <2>3. \A t \in Readers : Finished(t)' =>
             /\ t # r /\ Finished(t) /\ seenAt'[t] = seenAt[t]
             /\ request'[t] = request[t]
      BY <1>1 DEF Finished
    <2>4. ResultExplained'
      BY <2>3 DEF ReaderInv, ResultExplained
    <2> QED
      BY <2>1, <2>2, <2>3, <2>4 DEF ReaderInv
  <1>6. ASSUME NEW r \in Readers, ResolveAny(r)
        PROVE  ReaderInv'
    <2> USE <1>6 DEF ResolveAny, store
    <2> DEFINE found == Resolve(flagsTaken[r], globalMetadata, request[r])
    <2>1. TypeOK'
      BY <1>1 DEF TypeOK
    <2>2. StoreIsLogged'
      BY DEF ReaderInv, StoreIsLogged
    <2>3. \A t \in Readers : t # r /\ Finished(t)' =>
             /\ Finished(t) /\ details'[t] = details[t] /\ passed'[t] = passed[t]
      BY <1>1 DEF Finished
    <2>4. Finished(r)' => /\ details'[r] = found
                          /\ seenAt[r] \in 1 .. Len(log)
                          /\ flagsTaken[r] = log[seenAt[r]].flags
      BY <1>1 DEF Finished
    <2>5. ResultExplained'
      <3> SUFFICES ASSUME NEW t \in Readers, Finished(t)'
                   PROVE  \E newer \in seenAt[t] .. Len(log) :
                             details'[t] = Resolve(log[seenAt[t]].flags,
                                                   log[newer].metadata, request[t])
        BY DEF ResultExplained
      <3>1. CASE t = r
        <4>1. Len(log) \in seenAt[t] .. Len(log)
          BY <1>1, <2>4, <3>1
        <4>2. details'[t] = Resolve(log[seenAt[t]].flags, log[Len(log)].metadata,
                                    request[t])
          BY <1>2, <2>4, <3>1
        <4> QED
          BY <4>1, <4>2
      <3>2. CASE t # r
        BY <2>3, <3>2 DEF ReaderInv, ResultExplained
      <3> QED
        BY <3>1, <3>2
    <2>6. passed'[r] => details'[r].error = "none" /\ AfterPasses(details'[r].metadata)
      BY <1>1
    <2>7. \A t \in Readers : Finished(t)' /\ passed'[t] =>
             details'[t].error = "none" /\ AfterPasses(details'[t].metadata)
      BY <2>3, <2>6 DEF ReaderInv
    <2> QED
      BY <2>1, <2>2, <2>5, <2>7 DEF ReaderInv, AfterPasses
  <1> QED
    BY <1>3, <1>4, <1>5, <1>6 DEF Next

LEMMA ReaderAlways == Spec => []ReaderInv
  BY ReaderInit, ReaderStep, PTL DEF Spec

\* Type correctness, for any readers, requests and documents.
THEOREM TypeCorrect == Spec => []TypeOK
  <1>1. ReaderInv => TypeOK
    BY DEF ReaderInv
  <1> QED
    BY <1>1, ReaderAlways, PTL

\* Every result is explained by one document's flags and metadata that is as
\* new or newer, however evaluations and updates interleave.
THEOREM ResultsExplained == Spec => []ResultExplained
  <1>1. ReaderInv => ResultExplained
    BY DEF ReaderInv
  <1> QED
    BY <1>1, ReaderAlways, PTL

\* An evaluation without error found the flag, and a version in the flag's
\* own metadata is the one that the hook sees.
LEMMA OwnMetadataWins ==
  ASSUME NEW flags, NEW global, NEW q,
         Resolve(flags, global, q).error = "none",
         flags[q.key].metadata.kind = "version"
  PROVE  Resolve(flags, global, q).metadata = flags[q.key].metadata
  <1> DEFINE flag == flags[q.key]
             metadata == FlagWins(flag.metadata, global)
  <1>1. q.key \in DOMAIN flags
    BY DEF Resolve, Details
  <1>2. metadata = flag.metadata
    BY DEF FlagWins, EnrichMetadata
  <1>3. ResolveFlag(flag, metadata, q.type).metadata = metadata
    BY DEF ResolveFlag, Details
  <1> QED
    BY <1>1, <1>2, <1>3 DEF Resolve

\* A minimum version in a flag's own metadata is always enforced.
THEOREM OwnMinimumHolds == Spec => []OwnMinimumGuards
  <1>1. ReaderInv => OwnMinimumGuards
    <2> SUFFICES ASSUME ReaderInv, NEW r \in Readers, Finished(r), passed[r],
                        log[seenAt[r]].flags[request[r].key].metadata.kind = "version"
                 PROVE  CurrentVersion >=
                           log[seenAt[r]].flags[request[r].key].metadata.version
      BY DEF OwnMinimumGuards
    <2>1. PICK newer \in seenAt[r] .. Len(log) :
              details[r] = Resolve(log[seenAt[r]].flags, log[newer].metadata, request[r])
      BY DEF ReaderInv, ResultExplained
    <2>2. details[r].error = "none" /\ AfterPasses(details[r].metadata)
      BY DEF ReaderInv
    <2>3. details[r].metadata = log[seenAt[r]].flags[request[r].key].metadata
      BY <2>1, <2>2, OwnMetadataWins
    <2> QED
      BY <2>2, <2>3 DEF AfterPasses
  <1> QED
    BY <1>1, ReaderAlways, PTL
=============================================================================
