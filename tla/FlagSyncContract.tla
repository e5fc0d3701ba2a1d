-------------------------- MODULE FlagSyncContract --------------------------
(***************************************************************************)
(* What a flag synchroniser promises those who call Init and Shutdown and  *)
(* read its flags, without threads, streams or waits: the meaning that     *)
(* grpc_sync.h gives to the states of a session, and what each of them     *)
(* says of the flags in the store.                                         *)
(***************************************************************************)
VARIABLES
    phase,   \* the session's state
    held,    \* whose flags the store holds
    doomed   \* whether a fatal error has been found

vars == <<phase, held, doomed>>

Phases == {"down", "starting", "up", "recovering", "closing", "failed"}
Alive == {"starting", "up", "recovering", "closing"}

Init == phase = "down" /\ held = "empty" /\ ~doomed

\* A session begins, perhaps with the flags of the one before.
Start ==
    /\ phase = "down"
    /\ phase' = "starting"
    /\ held' = IF held = "current" THEN "previous" ELSE held
    /\ UNCHANGED doomed

\* Flags arrive while the session lives, the first ones making it ready.
Receive ==
    /\ phase \in Alive /\ ~doomed
    /\ held' = "current"
    /\ UNCHANGED <<phase, doomed>>

BecomeReady ==
    /\ phase \in {"starting", "recovering"} /\ held = "current" /\ ~doomed
    /\ phase' = "up"
    /\ UNCHANGED <<held, doomed>>

\* The connection is lost, or the first attempt fails.
Lose ==
    /\ phase \in {"starting", "up"} /\ ~doomed
    /\ phase' = "recovering"
    /\ UNCHANGED <<held, doomed>>

\* The grace period is over: never before the loss shows.
Expire ==
    /\ phase \in {"recovering", "closing"} /\ ~doomed
    /\ held' = "empty"
    /\ UNCHANGED <<phase, doomed>>

\* A fatal error first empties the store, then ends the session.
Doom ==
    /\ phase \in Alive /\ ~doomed
    /\ held' = "empty" /\ doomed' = TRUE
    /\ UNCHANGED phase

GiveUp ==
    /\ phase \in Alive /\ doomed
    /\ phase' = "failed" /\ doomed' = FALSE
    /\ UNCHANGED held

\* A shutdown, which leaves the flags as they are.
Close ==
    /\ phase \in Alive \ {"closing"}
    /\ phase' = "closing"
    /\ UNCHANGED <<held, doomed>>

Closed ==
    /\ phase = "closing" /\ ~doomed
    /\ phase' = "down"
    /\ UNCHANGED <<held, doomed>>

Dismiss ==
    /\ phase = "failed"
    /\ phase' = "down"
    /\ UNCHANGED <<held, doomed>>

Next == Start \/ Receive \/ BecomeReady \/ Lose \/ Expire \/ Doom \/ GiveUp
        \/ Close \/ Closed \/ Dismiss

Spec == Init /\ [][Next]_vars

\* A shutdown ends, unless the error found meanwhile ends the session first.
FairSpec == Spec /\ WF_vars(Closed) /\ WF_vars(GiveUp)

-----------------------------------------------------------------------------
\* What the phases say of the flags: a session that is up holds flags of its
\* own but for the moment in which a fatal error is being declared, and one
\* that failed holds none.
Truthful ==
    /\ phase \in Phases
    /\ doomed => phase \in Alive /\ held = "empty"
    /\ phase = "failed" => held = "empty"
    /\ phase = "up" /\ ~doomed => held = "current"
=============================================================================
