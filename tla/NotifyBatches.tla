---------------------------- MODULE NotifyBatches ----------------------------
(***************************************************************************)
(* jellylab-push's handling of the events Sonarr and Radarr report         *)
(* (notify.mjs): episodes are gathered per series and sent as one push, a  *)
(* film is sent at once, a stuck import is announced at most once a day,   *)
(* and a stop flushes what is still being gathered.                        *)
(*                                                                         *)
(* Time passes in ticks of minutes; a timer runs out in the tick it is due *)
(* in.  Sonarr's Custom Script is outside src/: it posts a plain message   *)
(* itself when the service does not answer.                                *)
(***************************************************************************)
EXTENDS Naturals, FiniteSets

CONSTANTS
    Episodes,   \* imports Sonarr reports: [batch, season, number]
    Stuck,      \* download ids that can be reported stuck
    NoId,       \* a stuck report without a download id
    Calls,      \* films and stuck imports being handled
    Quiet,      \* QUIET_MS in ticks
    Max,        \* MAX_MS in ticks
    Day,        \* how long a stuck download is not announced again, in ticks
    SeenLimit   \* entries STUCK_SEEN may have

ASSUME TimesAssumption == Quiet \in Nat \ {0} /\ Max \in Nat \ {0} /\ Day \in Nat \ {0}
ASSUME EpisodesAssumption ==
    \A e \in Episodes : e.season \in Nat /\ e.number \in Nat
ASSUME NoIdAssumption == NoId \notin Stuck

VARIABLES
    phase,      \* of the process
    batches,    \* the episodes gathered of each series, {} when it has no entry
    first,      \* ticks since a batch's first episode
    last,       \* history: ticks since its last
    timers,     \* timers running, by the batch they flush
    pushes,     \* episode pushes on their way to ntfy
    seen,       \* STUCK_SEEN: ticks since an id was marked
    call,       \* each call's local state
    posted,     \* history: episodes reported so far
    ended,      \* history: episodes whose push ended, taken by ntfy or not
    kept,       \* history: episodes still gathered when the stop signal came
    said,       \* history: ticks since an id was announced
    cleared     \* history: ids announced before STUCK_SEEN was cleared

gathering == <<batches, first, last, timers>>
marks == <<seen, said, cleared>>
vars == <<phase, gathering, pushes, marks, call, posted, ended, kept>>

Batches == {e.batch : e \in Episodes}
Ids == Stuck \cup {NoId}
Never == Day + 1

-----------------------------------------------------------------------------
(* The wording of a push: its episodes as ranges, season by season.        *)

\* Mutant: a run of two is written as if it ended with its first number.
RangesCutShort(numbers) ==
    {r \in numbers \X numbers :
       /\ r[1] .. r[2] \subseteq numbers /\ r[1] <= r[2] /\ r[1] - 1 \notin numbers
       /\ r[2] + 1 \in numbers \/ r[1] = r[2]}

\* The runs of consecutive numbers, each as long as it can be.
Ranges(numbers) ==
    {r \in numbers \X numbers :
       /\ r[1] .. r[2] \subseteq numbers /\ r[1] <= r[2]
       /\ \A n \in numbers : n + 1 # r[1] /\ n # r[2] + 1}

Message(eps) ==
    [s \in {e.season : e \in eps} |-> Ranges({e.number : e \in {x \in eps : x.season = s}})]

\* What a reader of the message takes it to say.
Mentioned(message) ==
    {x \in (DOMAIN message) \X {e.number : e \in Episodes} :
       \E r \in message[x[1]] : r[1] <= x[2] /\ x[2] <= r[2]}

-----------------------------------------------------------------------------
Idle == [pc |-> "idle", id |-> NoId]
Timer == [batch: Batches, left: 0 .. Max]
Push == [eps: SUBSET Episodes, by: {"timer", "stop"}]

Init ==
    /\ phase = "up"
    /\ batches = [b \in Batches |-> {}]
    /\ first = [b \in Batches |-> 0]
    /\ last = [b \in Batches |-> 0]
    /\ timers = {}
    /\ pushes = {}
    /\ seen = [d \in Stuck |-> Never]
    /\ said = [d \in Stuck |-> Never]
    /\ cleared = {}
    /\ call = [c \in Calls |-> Idle]
    /\ posted = {}
    /\ ended = {}
    /\ kept = {}

Running == phase \in {"up", "stopping"}

Gathering(b) == batches[b] # {}

Older(age) == IF age < Day THEN age + 1 ELSE age

\* Bound: the ages of a batch are counted this far.
Aged(age) == IF age <= Quiet + Max THEN age + 1 ELSE age

\* No tick passes a timer that is due.
Tick ==
    /\ Running
    /\ \A t \in timers : t.left > 0
    /\ first' = [b \in Batches |-> IF Gathering(b) THEN Aged(first[b]) ELSE 0]
    /\ last' = [b \in Batches |-> IF Gathering(b) THEN Aged(last[b]) ELSE 0]
    /\ timers' = {[t EXCEPT !.left = t.left - 1] : t \in timers}
    /\ seen' = [d \in Stuck |-> Older(seen[d])]
    /\ said' = [d \in Stuck |-> Older(said[d])]
    /\ UNCHANGED <<phase, batches, pushes, call, posted, ended, kept, cleared>>

-----------------------------------------------------------------------------
(* Episodes.                                                               *)

Smaller(m, n) == IF m < n THEN m ELSE n

\* Mutant: the longest a batch may be kept open is forgotten.
WaitForQuiet(age) == Quiet

\* How long a batch that is age old waits for another episode.
Wait(age) == IF age < Max THEN Smaller(Quiet, Max - age) ELSE 0

\* Mutant: the timer that was running is not cleared.
RestartTimerOnly(b, age) == timers' = timers \cup {[batch |-> b, left |-> Wait(age)]}

\* Mutant: the timer is cleared and only a batch's first episode sets one.
ClearTimerOnly(b, age) ==
    timers' = {t \in timers : t.batch # b}
                \cup (IF Gathering(b) THEN {} ELSE {[batch |-> b, left |-> Wait(age)]})

RestartTimer(b, age) ==
    timers' = {t \in timers : t.batch # b} \cup {[batch |-> b, left |-> Wait(age)]}

AddEpisodes(e) ==
    LET b == e.batch
        age == IF Gathering(b) THEN first[b] ELSE 0
    IN  /\ Running
        /\ e \notin posted
        /\ posted' = posted \cup {e}
        /\ batches' = [batches EXCEPT ![b] = @ \cup {e}]
        /\ first' = [first EXCEPT ![b] = age]
        /\ last' = [last EXCEPT ![b] = 0]
        /\ RestartTimer(b, age)
        /\ UNCHANGED <<phase, pushes, marks, call, ended, kept>>

\* Nobody answers: the script says it plainly itself.
PostPlainly(e) ==
    /\ ~Running
    /\ e \notin posted
    /\ posted' = posted \cup {e}
    /\ ended' = ended \cup {e}
    /\ UNCHANGED <<phase, gathering, pushes, marks, call, kept>>

\* Mutant: the batch stays in the table until its push has ended.
FlushKeepsBatches(flushed, by) ==
    /\ pushes' = pushes \cup {[eps |-> batches[b], by |-> by] : b \in flushed}
    /\ timers' = {t \in timers : t.batch \notin flushed}
    /\ UNCHANGED <<batches, first, last>>

\* flush of each of these batches, all of which have episodes.
Flush(flushed, by) ==
    /\ pushes' = pushes \cup {[eps |-> batches[b], by |-> by] : b \in flushed}
    /\ batches' = [b \in Batches |-> IF b \in flushed THEN {} ELSE batches[b]]
    /\ timers' = {t \in timers : t.batch \notin flushed}
    /\ first' = [b \in Batches |-> IF b \in flushed THEN 0 ELSE first[b]]
    /\ last' = [b \in Batches |-> IF b \in flushed THEN 0 ELSE last[b]]

TimerFires(t) ==
    /\ Running
    /\ t.left = 0
    /\ Flush({t.batch} \cap {b \in Batches : Gathering(b)}, "timer")
    /\ UNCHANGED <<phase, marks, call, posted, ended, kept>>

\* publish swallows every failure: taken by ntfy or not, the push is over.
PushEnds(p) ==
    /\ Running
    /\ pushes' = pushes \ {p}
    /\ ended' = ended \cup p.eps
    /\ UNCHANGED <<phase, gathering, marks, call, posted, kept>>

-----------------------------------------------------------------------------
(* Films and stuck imports: the script waits for the answer of these.      *)

Announce(c, pc, id) == call' = [call EXCEPT ![c] = [pc |-> pc, id |-> id]]

Film(c) ==
    /\ Running
    /\ call[c] = Idle
    /\ Announce(c, "publish", NoId)
    /\ UNCHANGED <<phase, gathering, pushes, marks, posted, ended, kept>>

Recently(d) == d \in Stuck /\ seen[d] < Day

\* Ids ever marked, however long ago: entries leave the table only all at once.
Marked == {d \in Stuck : seen[d] # Never}

\* Mutant: the announcement is made and the id not marked.
MarkNothing(d) ==
    /\ said' = [x \in Stuck |-> IF x = d THEN 0 ELSE said[x]]
    /\ UNCHANGED <<seen, cleared>>

Mark(d) ==
    IF d = NoId THEN UNCHANGED marks
    ELSE LET full == Cardinality(Marked \cup {d}) > SeenLimit
         IN  /\ seen' = IF full THEN [x \in Stuck |-> Never] ELSE [seen EXCEPT ![d] = 0]
             /\ said' = [said EXCEPT ![d] = 0]
             /\ cleared' = IF full THEN Stuck ELSE cleared \ {d}

\* ManualInteractionRequired; a recent id is answered {duplicate: true}.
StuckImport(c, d) ==
    /\ Running
    /\ call[c] = Idle
    /\ ~Recently(d)
    /\ Mark(d)
    /\ Announce(c, "reasons", d)
    /\ UNCHANGED <<phase, gathering, pushes, posted, ended, kept>>

\* queueReasons found the reasons or, the queue out of reach, none.
Reasons(c) ==
    /\ Running
    /\ call[c].pc = "reasons"
    /\ Announce(c, "publish", NoId)
    /\ UNCHANGED <<phase, gathering, pushes, marks, posted, ended, kept>>

Published(c) ==
    /\ Running
    /\ call[c].pc = "publish"
    /\ call' = [call EXCEPT ![c] = Idle]
    /\ UNCHANGED <<phase, gathering, pushes, marks, posted, ended, kept>>

-----------------------------------------------------------------------------
(* The process.                                                            *)

FlushAll == Flush({b \in Batches : Gathering(b)}, "stop")

\* SIGTERM or SIGINT.  The server keeps listening while the pushes are sent.
Stop ==
    /\ phase = "up"
    /\ phase' = "stopping"
    /\ FlushAll
    /\ kept' = UNION {batches[b] : b \in Batches}
    /\ UNCHANGED <<marks, call, posted, ended>>

\* Mutant: the process exits without awaiting flushAll.
ExitAtOnce ==
    /\ phase = "stopping"
    /\ phase' = "exited"
    /\ UNCHANGED <<gathering, pushes, marks, call, posted, ended, kept>>

\* process.exit waits for the pushes of flushAll and for nothing else: a push
\* that a timer started before the signal goes with the process.
Exit ==
    /\ phase = "stopping"
    /\ \A p \in pushes : p.by # "stop"
    /\ phase' = "exited"
    /\ UNCHANGED <<gathering, pushes, marks, call, posted, ended, kept>>

\* A crash, or Docker's patience with a stop running out.
Kill ==
    /\ Running
    /\ phase' = "killed"
    /\ UNCHANGED <<gathering, pushes, marks, call, posted, ended, kept>>

\* Nothing of a former process is left.
Start ==
    /\ ~Running
    /\ phase' = "up"
    /\ batches' = [b \in Batches |-> {}]
    /\ first' = [b \in Batches |-> 0]
    /\ last' = [b \in Batches |-> 0]
    /\ timers' = {}
    /\ pushes' = {}
    /\ seen' = [d \in Stuck |-> Never]
    /\ said' = [d \in Stuck |-> Never]
    /\ cleared' = {}
    /\ call' = [c \in Calls |-> Idle]
    /\ kept' = {}
    /\ UNCHANGED <<posted, ended>>

Next ==
    \/ Tick
    \/ \E e \in Episodes : AddEpisodes(e) \/ PostPlainly(e)
    \/ \E t \in timers : TimerFires(t)
    \/ \E p \in pushes : PushEnds(p)
    \/ \E c \in Calls : Film(c) \/ Reasons(c) \/ Published(c)
    \/ \E c \in Calls, d \in Ids : StuckImport(c, d)
    \/ Stop \/ Exit \/ Kill \/ Start

Spec == Init /\ [][Next]_vars

\* Time passes, timers fire, and what waits for ntfy or the queue times out.
Fairness ==
    /\ WF_vars(Tick)
    /\ WF_vars(\E t \in timers : TimerFires(t))
    /\ \A e \in Episodes : WF_vars(\E p \in pushes : e \in p.eps /\ PushEnds(p))
    /\ \A c \in Calls : WF_vars(Reasons(c) \/ Published(c))

FairSpec == Spec /\ Fairness

-----------------------------------------------------------------------------
(* Properties.                                                             *)

TypeOK ==
    /\ phase \in {"up", "stopping", "exited", "killed"}
    /\ batches \in [Batches -> SUBSET Episodes]
    /\ first \in [Batches -> Nat] /\ last \in [Batches -> Nat]
    /\ timers \subseteq Timer
    /\ pushes \subseteq Push
    /\ seen \in [Stuck -> 0 .. Never] /\ said \in [Stuck -> 0 .. Never]
    /\ cleared \subseteq Stuck
    /\ call \in [Calls -> [pc: {"idle", "reasons", "publish"}, id: Ids]]
    /\ posted \subseteq Episodes /\ ended \subseteq posted /\ kept \subseteq posted

\* An imported episode is announced in one push: it is never gathered and on
\* its way, in two pushes, or sent again once its push is over (flush).
OnePushEach ==
    /\ \A b \in Batches : batches[b] \cap (ended \cup UNION {p.eps : p \in pushes}) = {}
    /\ \A p \in pushes : p.eps \cap ended = {}
    /\ \A p, q \in pushes : p # q => p.eps \cap q.eps = {}

\* A push names exactly the episodes gathered (ranges, episodeMessage).
SaysWhatItHas ==
    \A p \in pushes : Mentioned(Message(p.eps)) = {<<e.season, e.number>> : e \in p.eps}

\* A batch is never kept open longer than MAX_MS (addEpisodes).
NeverPastMax == \A b \in Batches : first[b] <= Max

\* A timer only interrupts a series that went quiet or used up its time: it is
\* never one an earlier episode set (addEpisodes).
SentWhenQuietOrFull ==
    \A t \in timers : t.left = 0 =>
        /\ Gathering(t.batch)
        /\ last[t.batch] >= Quiet \/ first[t.batch] >= Max

\* The process ends a stop only once the push of every episode that was still
\* being gathered at the signal is over (flushAll).  Not so of the episodes
\* whose timer had just fired, nor of those that arrive after the signal.
StopFlushes == phase = "exited" => kept \subseteq ended

\* No download is announced stuck twice within a day, however its reports
\* overlap, but after the table was cleared (handleArrEvent).
StuckOnceADay ==
    [][\A c \in Calls, d \in Stuck :
         call[c] = Idle /\ call'[c].pc = "reasons" /\ call'[c].id = d
         => said[d] >= Day \/ d \in cleared]_vars

\* Every gathered episode's push is sent and over, if the process stays up.
GatheredIsSent ==
    \A e \in Episodes : (phase = "up" /\ e \in batches[e.batch]) ~> (e \in ended \/ phase # "up")

=============================================================================
