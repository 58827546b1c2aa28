---------------------------- MODULE VerdictSweep ----------------------------
(***************************************************************************)
(* jellylab-push's background sweep (index.mjs): it asks Radarr or Sonarr  *)
(* about one unfulfilled title at a time, the one whose answer is oldest,  *)
(* and keeps the answers in VERDICTS and in a file.                        *)
(*                                                                         *)
(* What an answer says is left out; what matters is when it was given.     *)
(* VERDICTS therefore maps each title it has to the place of its answer    *)
(* among them, 1 being the oldest.  Radarr, Sonarr and their queues are    *)
(* outside src/.                                                           *)
(***************************************************************************)
EXTENDS Naturals, FiniteSets

CONSTANTS
    Films,      \* titles of Radarr's
    Series,     \* titles of Sonarr's
    TmdbId,     \* the TMDB id of each; films and series are numbered apart
    Hopeless    \* titles no question about is ever answered

VARIABLES
    wanted,     \* titles monitored, available and missing something
    queued,     \* titles with a download in a queue
    verdicts,   \* VERDICTS: how old the answer about each title is
    file,       \* the verdicts on disk
    sweep,      \* the sweep in progress
    forgetting, \* titles a cancel or monitor route is about to forget
    doubt       \* history: titles not wanted, or queued, at some moment of the
                \* sweep in progress, or not listed for it

arrs == <<wanted, queued>>
vars == <<arrs, verdicts, file, sweep, forgetting, doubt>>

Works == Films \cup Series

Known == DOMAIN verdicts

\* Those of the given verdicts that are about the titles.
Only(given, titles) ==
    LET kept == DOMAIN given \cap titles
    IN  [t \in kept |-> Cardinality({u \in kept : given[u] <= given[t]})]

\* At most one verdict, about a title of these.
First(titles) == [t \in titles |-> 1]

Idle == [pc |-> "idle", titles |-> {}, refused |-> FALSE, downloading |-> {}, about |-> {},
         saved |-> First({})]

\* A sweep that failed, or was cut short by a restart.
Cut == [Idle EXCEPT !.pc = "cut"]

Init ==
    /\ wanted \in SUBSET Works
    /\ queued = {}
    /\ file \in {First({})} \cup {First({t}) : t \in Works}
    /\ verdicts = file
    /\ sweep = Idle
    /\ forgetting = {}
    /\ doubt = {}

-----------------------------------------------------------------------------
(* The world.                                                              *)

NotLive == (Works \ wanted) \cup queued

At(pc) == sweep.pc = pc

Resting == At("idle") \/ At("cut")

Notice == doubt' = IF Resting THEN {} ELSE doubt \cup (Works \ wanted') \cup queued'

Wanted(t) == t \notin wanted /\ wanted' = wanted \cup {t} /\ UNCHANGED <<queued, forgetting>>

Grabbed(t) == t \in wanted \ queued /\ queued' = queued \cup {t} /\ UNCHANGED <<wanted, forgetting>>

DownloadFails(t) == t \in queued /\ queued' = queued \ {t} /\ UNCHANGED <<wanted, forgetting>>

Arrives(t) ==
    t \in wanted /\ wanted' = wanted \ {t} /\ queued' = queued \ {t} /\ UNCHANGED forgetting

\* POST /cancel or /monitor: the title, or one season of it, is unmonitored or
\* monitored first, its downloads removed or not; it may stay wanted ...
Changes(t) ==
    /\ wanted' \in {wanted \ {t}, wanted, wanted \cup {t}}
    /\ queued' \in {queued \ {t}, queued}
    /\ forgetting' = forgetting \cup {t}

World ==
    /\ \E t \in Works :
         Wanted(t) \/ Grabbed(t) \/ DownloadFails(t) \/ Arrives(t) \/ Changes(t)
    /\ Notice
    /\ UNCHANGED <<verdicts, file, sweep>>

\* ... and its verdict deleted when that has been answered.
Forget(t) ==
    /\ t \in forgetting
    /\ forgetting' = forgetting \ {t}
    /\ verdicts' = Only(verdicts, Known \ {t})
    /\ UNCHANGED <<arrs, file, sweep, doubt>>

-----------------------------------------------------------------------------
(* sweepOne.                                                               *)

\* The timers; a sweep in progress is not joined.
Start ==
    /\ Resting
    /\ sweep' = [Idle EXCEPT !.pc = "films"]
    /\ doubt' = NotLive
    /\ UNCHANGED <<arrs, verdicts, file, forgetting>>

\* One of unfulfilled's listings.
Lists(titles, next) ==
    /\ sweep' = [sweep EXCEPT !.pc = next, !.titles = @ \cup (wanted \cap titles)]
    /\ UNCHANGED <<arrs, verdicts, file, forgetting, doubt>>

ListFilms == At("films") /\ Lists(Films, "series")

ListSeries == At("series") /\ Lists(Series, "queue")

\* An error status lists nothing, and the sweep goes on.
Refused(titles, next) ==
    /\ sweep' = [sweep EXCEPT !.pc = next, !.refused = TRUE]
    /\ doubt' = doubt \cup titles
    /\ UNCHANGED <<arrs, verdicts, file, forgetting>>

RefuseListing ==
    \/ At("films") /\ Refused(Films, "series")
    \/ At("series") /\ Refused(Series, "queue")

\* A queue that cannot be read counts as empty.
SeriesQueue ==
    /\ At("queue")
    /\ \E downloading \in {queued \cap Series, {}} :
         sweep' = [sweep EXCEPT !.pc = "choose", !.downloading = downloading]
    /\ UNCHANGED <<arrs, verdicts, file, forgetting, doubt>>

\* Mutant: the title asked about last is asked again.
Freshest(titles) ==
    {t \in titles : \A u \in titles \cap Known : t \in Known => verdicts[u] <= verdicts[t]}

\* Those never asked about, or else the one whose answer is oldest.
Stalest(titles) ==
    IF titles \subseteq Known
      THEN {t \in titles : \A u \in titles : verdicts[t] <= verdicts[u]}
      ELSE titles \ Known

\* Mutant: verdicts are kept whatever became of their titles.
PurgeNothing(live) == verdicts' = verdicts

\* Mutant: only the titles of this sweep's service keep theirs.
PurgeOtherService(live) == verdicts' = Only(verdicts, live \cap Films)

Purge(live) == verdicts' = Only(verdicts, live)

\* The films' queue has been read: those downloading, by TMDB id, are left out,
\* the verdicts of all but the rest deleted, and one of the rest picked.
Choose ==
    /\ At("choose")
    /\ \E downloading \in {sweep.downloading \cup (queued \cap Films), sweep.downloading} :
         LET live == {t \in sweep.titles : \A d \in downloading : TmdbId[d] # TmdbId[t]}
         IN  /\ Purge(live)
             /\ IF live = {} THEN sweep' = Idle
                ELSE \E t \in Stalest(live) :
                       sweep' = [Idle EXCEPT !.pc = IF t \in Series THEN "episode" ELSE "release",
                                             !.about = {t}]
    /\ UNCHANGED <<arrs, file, forgetting, doubt>>

\* episodeToSearch found an episode that stands in for the season.
Episode ==
    /\ At("episode")
    /\ sweep' = [sweep EXCEPT !.pc = "release"]
    /\ UNCHANGED <<arrs, verdicts, file, forgetting, doubt>>

Stamp(t) ==
    LET others == Only(verdicts, Known \ {t})
    IN  verdicts' = [u \in Known \cup {t} |->
                       IF u = t THEN Cardinality(DOMAIN others) + 1 ELSE others[u]]

Answered(t) ==
    /\ At("release")
    /\ t \in sweep.about \ Hopeless
    /\ Stamp(t)
    /\ sweep' = [Idle EXCEPT !.pc = "save"]
    /\ UNCHANGED <<arrs, file, forgetting, doubt>>

\* The season has no episode, or a question fails: nothing is stamped.
Unanswered ==
    /\ At("episode") \/ At("release")
    /\ sweep' = Idle
    /\ UNCHANGED <<arrs, verdicts, file, forgetting, doubt>>

\* saveVerdicts: written beside the file and renamed.
Write ==
    /\ At("save")
    /\ sweep' = [sweep EXCEPT !.pc = "rename", !.saved = verdicts]
    /\ UNCHANGED <<arrs, verdicts, file, forgetting, doubt>>

Rename ==
    /\ At("rename")
    /\ file' = sweep.saved
    /\ sweep' = Idle
    /\ UNCHANGED <<arrs, verdicts, forgetting, doubt>>

\* A listing fails and ends the sweep, or the saving does and is shrugged off.
Fails ==
    /\ sweep.pc \in {"films", "series", "save", "rename"}
    /\ sweep' = Cut
    /\ UNCHANGED <<arrs, verdicts, file, forgetting, doubt>>

\* loadVerdicts, after a stop anywhere.
Restart ==
    /\ verdicts' = file
    /\ sweep' = Cut
    /\ forgetting' = {}
    /\ UNCHANGED <<arrs, file, doubt>>

Next ==
    \/ World
    \/ \E t \in Works : Forget(t) \/ Answered(t)
    \/ Start \/ ListFilms \/ ListSeries \/ RefuseListing \/ SeriesQueue \/ Choose
    \/ Episode \/ Unanswered \/ Write \/ Rename \/ Fails \/ Restart

Spec == Init /\ [][Next]_vars

Steps ==
    \/ Start \/ ListFilms \/ ListSeries \/ SeriesQueue \/ Choose \/ Episode \/ Unanswered
    \/ (\E t \in Works : Answered(t)) \/ Write \/ Rename

\* The interval never stops, every await ends, and a question that is not
\* hopeless is answered now and then.
Fairness ==
    /\ WF_vars(Steps)
    /\ SF_vars(Episode)
    /\ \A t \in Works \ Hopeless : SF_vars(Answered(t))
    /\ \A t \in Works : WF_vars(Forget(t))

FairSpec == Spec /\ Fairness

-----------------------------------------------------------------------------
(* Properties.                                                             *)

\* No two answers were given at the same time.
Ranked(given) ==
    /\ given \in [DOMAIN given -> 1 .. Cardinality(DOMAIN given)]
    /\ \A t, u \in DOMAIN given : given[t] = given[u] => t = u

TypeOK ==
    /\ wanted \cup queued \subseteq Works
    /\ Known \subseteq Works /\ Ranked(verdicts)
    /\ DOMAIN file \subseteq Works /\ Ranked(file)
    /\ sweep.pc \in {"idle", "cut", "films", "series", "queue", "choose", "episode", "release",
                     "save", "rename"}
    /\ sweep.titles \cup sweep.downloading \cup sweep.about \subseteq Works

\* A sweep forgets the verdict of no title that was wanted and not downloading
\* from its start to its end, whatever became of the others meanwhile, unless
\* the title's service refused to list.  A film and a series of one number are
\* taken for each other: one that downloads is enough (sweepOne's purge).  A
\* request deletes the verdict of its own title only.
OnlyGoneAreForgotten ==
    [][\A t \in Works :
         t \in Known /\ t \notin Known' =>
           \/ \E d \in doubt : TmdbId[d] = TmdbId[t]
           \/ t \in forgetting \ forgetting'
           \/ Restart]_vars

\* Once the arrs' titles and queues stay as they are and can be listed, and nobody
\* cancels or monitors any more, every title wanted whose number nothing downloads
\* is asked about over and over, whatever becomes of the questions about the
\* others (sweepOne: oldest answer first).
AskedInTurn ==
    <>[][UNCHANGED arrs]_vars /\ <>[](~At("cut") /\ ~sweep.refused /\ forgetting = {}) =>
      \A t \in Works \ Hopeless :
        <>[](t \in wanted /\ \A d \in queued : TmdbId[d] # TmdbId[t]) =>
          []<>(t \in Known /\ verdicts[t] = Cardinality(Known))

\* The verdict of a title that stays unwanted is gone for good in the end, also
\* if a sweep stores one after a cancel deleted it (sweepOne, /cancel).
UnwantedIsForgotten ==
    <>[]~At("cut") =>
      \A t \in Works : <>[](t \notin wanted) => <>[](t \notin Known)

=============================================================================
