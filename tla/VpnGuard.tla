------------------------------ MODULE VpnGuard ------------------------------
(***************************************************************************)
(* vpn-guard.py, which cron starts every five minutes, and disk-guard.sh.  *)
(* Each run loads a small state file, looks at the tunnel and decides;     *)
(* a repair takes so long that the next runs begin before it is over, and  *)
(* all of them read and replace the same file.                             *)
(*                                                                         *)
(* A tick is the time between two runs.  Ages are kept instead of instants *)
(* and stop growing where the code stops telling them apart.  The looking  *)
(* of a run and its decision take less than a tick; a repair no more than  *)
(* Longest.  A container that starts does so after the run of that tick    *)
(* did, so in the runs of the tick after it is still younger than one.     *)
(***************************************************************************)
EXTENDS Naturals, FiniteSets

CONSTANTS
    Runs,       \* processes at a time
    Settle,     \* SETTLE_S
    Cooldown,   \* COOLDOWN_S
    Day,        \* 24 hours
    MaxRepairs, \* MAX_REPAIRS
    Longest,    \* ticks a repair may last
    Troubles    \* bound on what goes wrong

ASSUME TimesAssumption ==
    /\ {Settle, Cooldown, Day, MaxRepairs, Longest, Troubles} \subseteq Nat
    /\ Settle > 0 /\ MaxRepairs > 0
    /\ Longest + 1 < Cooldown /\ Cooldown <= Day

VARIABLES
    tunnel,     \* what is wrong with it, who is in gluetun's namespace, and
                \* whether qBittorrent runs
    low,        \* whether the disk is nearly full
    file,       \* the state file
    due,        \* whether this tick's run has still to begin
    run,        \* each process
    troubles,   \* how much has gone wrong
    repaired,   \* history: ages of the repairs of the last day
    seen        \* history: whether the last look and the one before were bad

world == <<tunnel, low, troubles>>
vars == <<world, file, due, run, repaired, seen>>

-----------------------------------------------------------------------------
(* The tunnel.  "port" is qBittorrent listening on another port than the   *)
(* one forwarded, "other" anything else that is seen in a healthy gluetun. *)

Faults == {"unhealthy", "leak", "port", "other"}
Inside == {"qbittorrent", "peers"}

Tunnel == [ faults: SUBSET Faults,
            age: 0 .. Settle + 1,     \* ticks since gluetun started
            joined: SUBSET Inside,    \* those in its present namespace
            running: BOOLEAN ]        \* qBittorrent

\* check(), past the question whether qBittorrent runs.  Of an unhealthy gluetun
\* nothing else is asked.
Problems ==
    IF "unhealthy" \in tunnel.faults THEN {"unhealthy"}
    ELSE IF "qbittorrent" \notin tunnel.joined \/ ~tunnel.running
           THEN (tunnel.faults \cap {"leak"}) \cup {"other"}
           ELSE tunnel.faults

Well ==
    /\ tunnel.faults = {}
    /\ "qbittorrent" \in tunnel.joined

-----------------------------------------------------------------------------
(* The state file, and a run, which keeps its own copy of it.  Two strikes *)
(* are as good as more.                                                    *)

State == [ strikes: 0 .. 2,
           repairs: SUBSET (0 .. Day - 1),
           gaveUp: BOOLEAN ]

PCs == {"idle", "running", "probe", "decide", "strike", "restart", "wait",
        "qbittorrent", "peers", "push", "again", "reprobe", "report"}

Run == [ pc: PCs,
         state: State,
         problems: SUBSET Faults,
         blind: BOOLEAN,          \* whether docker did not say how old gluetun is
         age: 0 .. Longest,       \* ticks since it began
         port: BOOLEAN ]          \* whether gluetun came back with a port

NoState == [strikes |-> 0, repairs |-> {}, gaveUp |-> FALSE]

Idle == [ pc |-> "idle", state |-> NoState, problems |-> {}, blind |-> FALSE,
          age |-> 0, port |-> FALSE ]

Init ==
    /\ tunnel = [faults |-> {}, age |-> Settle + 1, joined |-> Inside, running |-> TRUE]
    /\ low = FALSE
    /\ file = NoState
    /\ due = TRUE
    /\ run = [r \in Runs |-> Idle]
    /\ troubles = 0
    /\ repaired = {}
    /\ seen = [last |-> FALSE, before |-> FALSE]

At(r, pc) == run[r].pc = pc
Update(r, new) == run' = [run EXCEPT ![r] = new]
To(r, pc) == Update(r, [run[r] EXCEPT !.pc = pc])

\* save_state: the file is replaced by this run's copy of it, in one rename.
Save(s) == file' = s

\* A command that fails is not noticed, but it is one trouble more.
Trouble == troubles < Troubles /\ troubles' = troubles + 1

-----------------------------------------------------------------------------
(* A look.                                                                 *)

\* Which of those free makes no difference.
Begin(r) ==
    /\ due
    /\ At(r, "idle")
    /\ r = CHOOSE d \in Runs : At(d, "idle")
    /\ due' = FALSE
    /\ Update(r, [Idle EXCEPT !.pc = "running", !.state = file])
    /\ UNCHANGED <<world, file, repaired, seen>>

Look(bad) == seen' = [last |-> bad, before |-> seen.last]

\* A qBittorrent that does not run is somebody's decision: nothing is wrong.  One
\* of which docker says nothing is taken for one that does not run.
NotRunning(r) ==
    /\ At(r, "running") \/ At(r, "again")
    /\ IF tunnel.running THEN Trouble ELSE UNCHANGED troubles
    /\ Update(r, [run[r] EXCEPT !.problems = {},
                                !.pc = IF @ = "running" THEN "decide" ELSE "report"])
    /\ Look(FALSE)
    /\ UNCHANGED <<tunnel, low, file, due, repaired>>

Running(r) ==
    /\ At(r, "running") \/ At(r, "again")
    /\ tunnel.running
    /\ Update(r, [run[r] EXCEPT !.pc = IF @ = "running" THEN "probe" ELSE "reprobe"])
    /\ UNCHANGED <<world, file, due, repaired, seen>>

Probe(r) ==
    /\ At(r, "probe") \/ At(r, "reprobe")
    /\ Update(r, [run[r] EXCEPT !.problems = Problems,
                                !.pc = IF @ = "probe" THEN "decide" ELSE "report"])
    /\ Look(Problems # {})
    /\ UNCHANGED <<world, file, due, repaired>>

-----------------------------------------------------------------------------
(* main(), after the look.                                                 *)

\* The only case acted on at once; nothing is saved, and the stop may fail.
Leak(r) ==
    /\ At(r, "decide")
    /\ "leak" \in run[r].problems
    /\ \/ tunnel' = [tunnel EXCEPT !.running = FALSE] /\ UNCHANGED troubles
       \/ UNCHANGED tunnel /\ Trouble
    /\ Update(r, Idle)
    /\ UNCHANGED <<low, file, due, repaired, seen>>

\* Mutant: A strike is for good.
AllWellKeepsStrikes(r) ==
    /\ At(r, "decide")
    /\ run[r].problems = {}
    /\ Save(run[r].state)
    /\ Update(r, Idle)
    /\ UNCHANGED <<world, due, repaired, seen>>

AllWell(r) ==
    /\ At(r, "decide")
    /\ run[r].problems = {}
    /\ Save([run[r].state EXCEPT !.strikes = 0])
    /\ Update(r, Idle)
    /\ UNCHANGED <<world, due, repaired, seen>>

Bad(r) == At(r, "decide") /\ run[r].problems # {} /\ "leak" \notin run[r].problems

\* gluetun has only just started.
NotYet(r) ==
    /\ Bad(r)
    /\ tunnel.age <= Settle
    /\ Update(r, Idle)
    /\ UNCHANGED <<world, file, due, repaired, seen>>

\* gluetun has been up for a while, or docker does not say since when.
OldEnough(r) ==
    /\ Bad(r)
    /\ \E blind \in BOOLEAN :
         /\ IF blind THEN Trouble ELSE tunnel.age > Settle /\ UNCHANGED troubles
         /\ Update(r, [run[r] EXCEPT !.pc = "strike", !.blind = blind])
    /\ UNCHANGED <<tunnel, low, file, due, repaired, seen>>

\* Mutant: The first strike is not written down.
StrikeOneForgotten(r) ==
    /\ At(r, "strike")
    /\ run[r].state.strikes = 0
    /\ Update(r, Idle)
    /\ UNCHANGED <<world, file, due, repaired, seen>>

StrikeOne(r) ==
    /\ At(r, "strike")
    /\ run[r].state.strikes = 0
    /\ Save([run[r].state EXCEPT !.strikes = 1])
    /\ Update(r, Idle)
    /\ UNCHANGED <<world, due, repaired, seen>>

\* The state of a run that has found something wrong once more.
Again(r) == [run[r].state EXCEPT !.strikes = 2]

SecondStrike(r) == At(r, "strike") /\ run[r].state.strikes > 0

\* Only the port is wrong, and can be told to qBittorrent.
PortPushed(r) ==
    /\ SecondStrike(r)
    /\ run[r].problems = {"port"}
    /\ tunnel' = [tunnel EXCEPT !.faults = @ \ {"port"}]
    /\ Save([run[r].state EXCEPT !.strikes = 0])
    /\ Update(r, Idle)
    /\ UNCHANGED <<low, troubles, due, repaired, seen>>

\* There is more than the port, or telling it failed.
PastThePort(r) ==
    /\ SecondStrike(r)
    /\ IF run[r].problems = {"port"} THEN Trouble ELSE UNCHANGED troubles

TooSoon(r) == \E age \in run[r].state.repairs : age < Cooldown
TooMany(r) == Cardinality(run[r].state.repairs) >= MaxRepairs

\* Somebody is told once that nothing more is tried today.
Declined(r) ==
    /\ PastThePort(r)
    /\ TooSoon(r) \/ TooMany(r)
    /\ Save([Again(r) EXCEPT !.gaveUp = @ \/ TooMany(r)])
    /\ Update(r, Idle)
    /\ UNCHANGED <<tunnel, low, due, repaired, seen>>

\* Mutant: The repair is written down when it is over.
RepairUnrecorded(r) ==
    /\ PastThePort(r)
    /\ ~TooSoon(r) /\ ~TooMany(r)
    /\ Update(r, [Idle EXCEPT !.pc = "restart",
                             !.state = [Again(r) EXCEPT !.repairs = @ \cup {0}]])
    /\ UNCHANGED <<tunnel, low, file, due, repaired, seen>>

\* The repair is written down before it begins.
Repair(r) ==
    /\ PastThePort(r)
    /\ ~TooSoon(r) /\ ~TooMany(r)
    /\ Update(r, [Idle EXCEPT !.pc = "restart",
                             !.state = [Again(r) EXCEPT !.repairs = @ \cup {0}]])
    /\ Save(run'[r].state)
    /\ UNCHANGED <<tunnel, low, due, repaired, seen>>

-----------------------------------------------------------------------------
(* full_restart, and what follows it.                                      *)

\* gluetun starts anew, cured or not, with a port that may be another; those in
\* its namespace are left in one that is gone.
Restarted(faults) ==
    tunnel' = [tunnel EXCEPT !.faults = faults, !.age = 0, !.joined = {}]

RestartVpn(r) ==
    /\ At(r, "restart")
    /\ \/ \E faults \in SUBSET {"port"} : Restarted(faults) /\ UNCHANGED troubles
       \/ Restarted(tunnel.faults) /\ Trouble
    /\ repaired' = repaired \cup {0}
    /\ To(r, "wait")
    /\ UNCHANGED <<low, file, due, seen>>

\* It is healthy with a port, or has not been for WAIT_HEALTHY_S.
WaitOver(r) ==
    /\ At(r, "wait")
    /\ \E port \in BOOLEAN :
         /\ port => "unhealthy" \notin tunnel.faults
         /\ ~port => tunnel.faults \cap {"unhealthy", "other"} # {}
         /\ Update(r, [run[r] EXCEPT !.pc = "qbittorrent", !.port = port])
    /\ UNCHANGED <<world, file, due, repaired, seen>>

\* Restarting starts what has been stopped, too.
RestartQbittorrent(r) ==
    /\ At(r, "qbittorrent")
    /\ \/ /\ tunnel' = [tunnel EXCEPT !.running = TRUE, !.joined = @ \cup {"qbittorrent"}]
          /\ UNCHANGED troubles
       \/ UNCHANGED tunnel /\ Trouble
    /\ To(r, "peers")
    /\ UNCHANGED <<low, file, due, repaired, seen>>

RestartPeers(r) ==
    /\ At(r, "peers")
    /\ \/ tunnel' = [tunnel EXCEPT !.joined = @ \cup {"peers"}] /\ UNCHANGED troubles
       \/ UNCHANGED tunnel /\ Trouble
    /\ To(r, IF run[r].port THEN "push" ELSE "again")
    /\ UNCHANGED <<low, file, due, repaired, seen>>

PushPort(r) ==
    /\ At(r, "push")
    /\ \/ tunnel' = [tunnel EXCEPT !.faults = @ \ {"port"}] /\ UNCHANGED troubles
       \/ UNCHANGED tunnel /\ Trouble
    /\ To(r, "again")
    /\ UNCHANGED <<low, file, due, repaired, seen>>

\* After a second look: repaired, or not.
Report(r) ==
    /\ At(r, "report")
    /\ Save(IF run[r].problems = {}
              THEN [run[r].state EXCEPT !.strikes = 0, !.gaveUp = FALSE]
              ELSE run[r].state)
    /\ Update(r, Idle)
    /\ UNCHANGED <<world, due, repaired, seen>>

Repairing(r) == run[r].pc \in {"wait", "qbittorrent", "peers", "push", "again", "reprobe", "report"}

-----------------------------------------------------------------------------
(* The rest of the world.                                                  *)

Aged(ages) == {age \in 1 .. Day - 1 : age - 1 \in ages}

\* Only a repair outlives its tick.
Tick ==
    /\ ~due
    /\ \A r \in Runs : At(r, "idle") \/ (Repairing(r) /\ run[r].age < Longest)
    /\ due' = TRUE
    /\ tunnel' = [tunnel EXCEPT !.age = IF @ <= Settle THEN @ + 1 ELSE @]
    /\ file' = [file EXCEPT !.repairs = Aged(@)]
    /\ run' = [r \in Runs |->
                 IF At(r, "idle") THEN run[r]
                 ELSE [run[r] EXCEPT !.age = @ + 1, !.state.repairs = Aged(@)]]
    /\ repaired' = Aged(repaired)
    /\ UNCHANGED <<low, troubles, seen>>

Breaks(fault) ==
    /\ fault \notin tunnel.faults
    /\ Trouble
    /\ tunnel' = [tunnel EXCEPT !.faults = @ \cup {fault}]
    /\ UNCHANGED <<low, file, due, run, repaired, seen>>

Heals(fault) ==
    /\ fault \in tunnel.faults
    /\ tunnel' = [tunnel EXCEPT !.faults = @ \ {fault}]
    /\ UNCHANGED <<low, troubles, file, due, run, repaired, seen>>

\* Watchtower or a person restarts gluetun alone.
Updated ==
    /\ Trouble
    /\ Restarted({})
    /\ UNCHANGED <<low, file, due, run, repaired, seen>>

\* A person starts qBittorrent again, "only after checking gluetun".
Started ==
    /\ ~tunnel.running /\ ~low /\ "leak" \notin tunnel.faults
    /\ tunnel' = [tunnel EXCEPT !.running = TRUE, !.joined = @ \cup {"qbittorrent"}]
    /\ UNCHANGED <<low, troubles, file, due, run, repaired, seen>>

\* The disk fills up, and is cleared.
Fills ==
    /\ ~low
    /\ Trouble
    /\ low' = TRUE
    /\ UNCHANGED <<tunnel, file, due, run, repaired, seen>>

Cleared ==
    /\ low
    /\ low' = FALSE
    /\ UNCHANGED <<tunnel, troubles, file, due, run, repaired, seen>>

\* disk-guard.sh
DiskGuard ==
    /\ low /\ tunnel.running
    /\ tunnel' = [tunnel EXCEPT !.running = FALSE]
    /\ UNCHANGED <<low, troubles, file, due, run, repaired, seen>>

\* The machine restarts, and with it every container but a stopped one.
Reboot ==
    /\ Trouble
    /\ tunnel' = [tunnel EXCEPT !.age = 0, !.joined = Inside]
    /\ run' = [r \in Runs |-> Idle]
    /\ UNCHANGED <<low, file, due, repaired, seen>>

RunSteps(r) ==
    \/ Begin(r) \/ NotRunning(r) \/ Running(r) \/ Probe(r)
    \/ Leak(r) \/ AllWell(r) \/ NotYet(r) \/ OldEnough(r) \/ StrikeOne(r)
    \/ PortPushed(r) \/ Declined(r) \/ Repair(r)
    \/ RestartVpn(r) \/ WaitOver(r) \/ RestartQbittorrent(r) \/ RestartPeers(r)
    \/ PushPort(r) \/ Report(r)

Next ==
    \/ \E r \in Runs : RunSteps(r)
    \/ Tick
    \/ \E fault \in Faults : Breaks(fault) \/ Heals(fault)
    \/ Updated \/ Started
    \/ Fills \/ Cleared \/ DiskGuard
    \/ Reboot

Spec == Init /\ [][Next]_vars

\* Cron starts a run every five minutes, and every command ends or is ended.
FairSpec ==
    /\ Spec
    /\ WF_vars(Tick)
    /\ \A r \in Runs : WF_vars(RunSteps(r))

-----------------------------------------------------------------------------
(* Properties.                                                             *)

TypeOK ==
    /\ tunnel \in Tunnel
    /\ low \in BOOLEAN
    /\ file \in State
    /\ due \in BOOLEAN
    /\ run \in [Runs -> Run]
    /\ troubles \in 0 .. Troubles
    /\ repaired \in SUBSET (0 .. Day - 1)
    /\ seen \in [last: BOOLEAN, before: BOOLEAN]

\* "at most once per COOLDOWN and at most MAX_REPAIRS times a day": so it is of
\* all the runs together, also of those that begin during a repair and of one
\* that is cut off in the middle of it (main, save_state).
RepairsSpaced ==
    [][\A r \in Runs : At(r, "restart") /\ run'[r].pc = "wait" =>
         /\ \A age \in repaired : age >= Cooldown
         /\ Cardinality(repaired) < MaxRepairs]_vars

\* "it has to be seen on two runs in a row": gluetun is restarted only when the
\* last two looks, whoever took them, found something wrong.  A strike that an
\* older run left is kept from counting only by SETTLE_S and COOLDOWN_S: when
\* docker does not say how old gluetun is, one look may be enough (main).
SecondLook ==
    [][\A r \in Runs : At(r, "strike") /\ run'[r].pc = "restart" =>
         (seen.last /\ seen.before) \/ run[r].blind]_vars

\* Once nothing more goes wrong the tunnel is mended, unless qBittorrent has
\* been stopped, however many repairs failed before (main).
Mended == <>[](Well \/ ~tunnel.running)

=============================================================================
