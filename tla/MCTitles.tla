------------------------------- MODULE MCTitles -------------------------------
(***************************************************************************)
(* Downloads for TLC.  Its two parts share no variable, so each initial    *)
(* state sets going one of them and their state spaces add up.             *)
(***************************************************************************)
EXTENDS Downloads

CONSTANTS m1, n1

VARIABLE part

\* A film and a series whose questions are answered now and then.
MCTmdbId == [t \in {m1, n1} |-> t]

Cancels == part = "cancel"
Sweeps == part = "sweep"

MCInit ==
    /\ part \in {"cancel", "sweep"}
    /\ Init
    /\ Sweep!Init
    /\ Cancels => wanted = {} /\ file = Sweep!First({})
    /\ Sweeps => monitored = {}

\* The bound on requests is reached.
AllAnswered == begun = Requests /\ \A c \in Calls : At(c, "idle")

MCNext ==
    /\ UNCHANGED part
    /\ \/ Cancels /\ Next /\ UNCHANGED sweepVars
       \/ Sweeps /\ Sweep!Next /\ UNCHANGED vars
       \/ Cancels /\ AllAnswered /\ UNCHANGED <<vars, sweepVars>>

MCSpec ==
    /\ MCInit
    /\ [][MCNext]_<<part, vars, sweepVars>>
    /\ WF_sweepVars(Sweeps /\ Sweep!Steps)
    /\ SF_sweepVars(Sweeps /\ Sweep!Episode)
    /\ \A t \in {m1, n1} : SF_sweepVars(Sweeps /\ Sweep!Answered(t))
    /\ \A t \in {m1, n1} : WF_sweepVars(Sweeps /\ Sweep!Forget(t))

=============================================================================
