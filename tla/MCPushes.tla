------------------------------- MODULE MCPushes -------------------------------
(***************************************************************************)
(* Pushes for TLC.  The gathering of episodes, films and stuck imports,    *)
(* and late requests share nothing but the process, so each initial state  *)
(* sets going one of the three and their state spaces add up.  Of the two  *)
(* late requests one at a time changes in Radarr, Sonarr and qBittorrent;  *)
(* both may leave Seerr's list.                                            *)
(***************************************************************************)
EXTENDS Pushes

CONSTANTS s1, s2, r1, r2

VARIABLE part

\* Two series: one with three episodes, two of them neighbours, and one with a
\* number the other has too.
MCEpisodes ==
    {[batch |-> s1, season |-> 1, number |-> n] : n \in {1, 2, 4}} \cup
    {[batch |-> s2, season |-> 2, number |-> 1]}

\* A film that was only ever shown in cinemas, and a season that is downloading,
\* both asked for on the first day.
MCDates == [r \in {r1} |-> [digital |-> -1, physical |-> -1, cinemas |-> 0, gap |-> 1,
                            minimum |-> "released"]]
MCKeyOf == [r \in {r1, r2} |-> r]
MCAirs == [r \in {r1, r2} |-> {0}]
MCAsked == [r \in {r1, r2} |-> 0]

Imports == part \in {"episodes", "calls"}

Elsewhere(r) == UNCHANGED <<obtained[r], percent[r]>>

MCInit ==
    /\ part \in {"episodes", "calls", "film", "season"}
    /\ Init
    /\ Stale!Init /\ listed = <<r2, r1>>
    /\ part # "film" => available = {r1}

MCNext ==
    /\ UNCHANGED part
    /\ \/ /\ Imports /\ Next
          /\ part = "episodes" => UNCHANGED <<marks, call>>
          /\ part = "calls" => UNCHANGED posted
          /\ UNCHANGED staleVars
       \/ /\ ~Imports /\ Stale!Next
          /\ part = "film" => Elsewhere(r2)
          /\ part = "season" => Elsewhere(r1) /\ UNCHANGED available
          /\ UNCHANGED vars

\* The fairness of each of the two, while it is the one going.
MCSpec ==
    /\ MCInit
    /\ [][MCNext]_<<part, vars, staleVars>>
    /\ WF_vars(Imports /\ Tick)
    /\ WF_vars(Imports /\ \E t \in timers : TimerFires(t))
    /\ \A e \in Episodes : WF_vars(Imports /\ \E p \in pushes : e \in p.eps /\ PushEnds(p))
    /\ \A c \in Calls : WF_vars(Imports /\ (Reasons(c) \/ Published(c)))
    /\ WF_staleVars(~Imports /\ Stale!TickSteps)

=============================================================================
