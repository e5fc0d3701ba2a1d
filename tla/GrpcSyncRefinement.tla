------------------------- MODULE GrpcSyncRefinement -------------------------
(***************************************************************************)
(* How GrpcSync implements FlagSyncContract; GrpcSyncProofs has the proof, *)
(* for the configurations in which no two Shutdowns can find kFatal.       *)
(***************************************************************************)
EXTENDS GrpcSync

\* The phase that each state_ stands for.
Phase == [Uninitialized |-> "down", Initializing |-> "starting",
          Ready |-> "up", Reconnecting |-> "recovering",
          ShuttingDown |-> "closing", Fatal |-> "failed"]

Contract == INSTANCE FlagSyncContract
            WITH phase <- Phase[state], held <- flags, doomed <- thread = "fatal"

\* Every behaviour of the synchroniser is one of the contract.
ImplementsContract == Contract!Spec

\* Under the threads' fairness a shutdown of the contract ends.
KeepsContract == Contract!FairSpec

\* A session that gave up serves nothing, one that is ready its own flags.
ContractTruthful == Contract!Truthful
=============================================================================
