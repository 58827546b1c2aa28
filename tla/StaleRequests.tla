---------------------------- MODULE StaleRequests ----------------------------
(***************************************************************************)
(* jellylab-push's look for requests that are going nowhere (stale.mjs,    *)
(* and staleInputs and staleTick of index.mjs): one push per request, once *)
(* it has been obtainable for STALE_DAYS and has not arrived.  The timer   *)
(* looks and tells; GET /stale only looks.                                 *)
(*                                                                         *)
(* Seerr, Radarr, Sonarr, qBittorrent and ntfy are outside src/.  A tick   *)
(* is over long before the next one is due.                                *)
(***************************************************************************)
EXTENDS Integers, SequencesExt

CONSTANTS
    Requests,   \* approved Seerr requests that are not for 4k
    Films,      \* those for a film, the others are for seasons of a series
    KeyOf,      \* the title of each request, movie:603
    Dates,      \* a film's release dates
    Airs,       \* the air days of the requested episodes
    Asked,      \* the day each request was made
    Take,       \* requests on a page of Seerr's, one or more
    Days,       \* STALE_DAYS
    LastDay,    \* bound on time
    Full,       \* bound on a download's progress
    Slow        \* bound: the titles with a download

VARIABLES
    now,         \* the day
    listed,      \* Seerr's processing requests, in its order
    obtained,    \* the days whose episodes are on disk or unmonitored; of a
                 \* film, the day it could be had
    available,   \* the films Radarr counts as available
    percent,     \* each title's download, as far as it is
    notified,    \* the file of those told
    lastPercent, \* what the last look found of each download
    run,         \* the tick in progress
    view,        \* what a GET /stale in progress found of the downloads
    told,        \* history: requests pushed since they were listed
    excused,     \* history: those of them no look can know it has told
    ticked       \* history: what the last tick found of each download, if no
                 \* view has looked since

world == <<now, listed, obtained, available, percent>>
history == <<told, excused, ticked>>
vars == <<world, notified, lastPercent, run, view, history>>

Keys == {KeyOf[r] : r \in Requests}
None == -1
Progress == {None} \cup Nat

-----------------------------------------------------------------------------
(* Which requests are late.                                                *)

MaxOf(m, n) == IF m > n THEN m ELSE n
MinOf(S) == CHOOSE m \in S : \A n \in S : m <= n

\* A film that is shown and has no other date comes Gap days later.
MovieObtainableSince(m) ==
    LET released == {m.digital, m.physical} \ {None}
    IN  CASE m.minimum = "announced" -> 0
          [] m.minimum = "inCinemas" /\ m.cinemas # None -> m.cinemas
          [] OTHER -> IF released # {} THEN MinOf(released)
                      ELSE IF m.cinemas # None THEN m.cinemas + m.gap ELSE 0

\* The days something of the request can first be had.
Parts(r) == IF r \in Films THEN {MovieObtainableSince(Dates[r])} ELSE Airs[r]

\* Those that have come and gone by: a film's counts once Radarr says it is
\* available, an episode's once it has aired.
Missing(r) ==
    {d \in Parts(r) \ obtained[r] : IF r \in Films THEN r \in available ELSE d < now}

Late(r) ==
    /\ Missing(r) # {}
    /\ now - MaxOf(Asked[r], MinOf(Missing(r))) >= Days

-----------------------------------------------------------------------------
Nothing == [k \in Keys |-> None]

Idle == [pc |-> "idle", downloads |-> Nothing, skip |-> 0, requests |-> {},
         todo |-> {}, notified |-> {}]

\* A tick that failed, or was cut short by a restart.
Cut == [Idle EXCEPT !.pc = "cut"]

Init ==
    /\ now = 0
    /\ listed \in SetToSeqs(Requests)
    /\ obtained = [r \in Requests |-> {}]
    /\ available \in SUBSET Films
    /\ percent = Nothing
    /\ notified = {}
    /\ lastPercent = Nothing
    /\ run = Idle
    /\ view = Nothing
    /\ told = {}
    /\ excused = {}
    /\ ticked = Nothing

Listed(r) == r \in ToSet(listed)

-----------------------------------------------------------------------------
(* The world.                                                              *)

DayPasses ==
    /\ now < LastDay
    /\ now' = now + 1
    /\ UNCHANGED <<listed, obtained, available, percent>>

\* A film comes out, or its dates are put off.
Announced(r) ==
    /\ \E films \in {available \cup {r}, available \ {r}} : available' = films
    /\ UNCHANGED <<now, listed, obtained, percent>>

\* Part of it, or the whole, arrives or is no longer wanted.
Arrives(r) ==
    /\ \E d \in Parts(r) \ obtained[r] : obtained' = [obtained EXCEPT ![r] = @ \cup {d}]
    /\ percent' = [percent EXCEPT ![KeyOf[r]] = None]
    /\ UNCHANGED <<now, listed, available>>

\* A request is done with, or declined, and leaves Seerr's list.
Leaves(r) ==
    /\ Listed(r)
    /\ listed' = SelectSeq(listed, LAMBDA x : x # r)
    /\ UNCHANGED <<now, obtained, available, percent>>

Downloads(k) ==
    /\ percent[k] < Full
    /\ percent' = [percent EXCEPT ![k] = @ + 1]
    /\ UNCHANGED <<now, listed, obtained, available>>

World ==
    /\ \/ DayPasses
       \/ \E r \in Requests : Arrives(r) \/ Leaves(r)
       \/ \E r \in Films : Announced(r)
       \/ \E k \in Slow : Downloads(k)
    /\ told' = told \cap ToSet(listed')
    /\ excused' = excused \cap told'
    /\ UNCHANGED <<notified, lastPercent, run, view, ticked>>

-----------------------------------------------------------------------------
(* A tick (check).                                                         *)

At(pc) == run.pc = pc

\* staleInputs: a queue that cannot be read counts as empty.
Begin ==
    /\ At("idle") \/ At("cut")
    /\ \E downloads \in {percent, Nothing} :
         run' = [Idle EXCEPT !.pc = "page", !.downloads = downloads]
    /\ UNCHANGED <<world, notified, lastPercent, view, history>>

\* Mutant: the first page is all there is.
PageOnce ==
    /\ At("page")
    /\ run' = [run EXCEPT !.requests = ToSet(SubSeq(listed, 1, MinOf({Len(listed), Take}))),
                          !.pc = "titles"]
    /\ UNCHANGED <<world, notified, lastPercent, view, history>>

\* One page of Seerr's requests; a short page is the last.
Page ==
    LET page == SubSeq(listed, run.skip + 1, MinOf({Len(listed), run.skip + Take}))
        short == Len(page) < Take
    IN  /\ At("page")
        /\ run' = [run EXCEPT !.requests = @ \cup ToSet(page),
                              !.skip = IF short THEN 0 ELSE @ + Take,
                              !.pc = IF short THEN "titles" ELSE "page"]
        /\ UNCHANGED <<world, notified, lastPercent, view, history>>

\* What a look at these downloads leaves for the next.
Looked(downloads) ==
    [k \in Keys |-> IF downloads[k] = None THEN lastPercent[k] ELSE downloads[k]]

\* Mutant: progress is not looked at.
NothingMoves(downloads) == {}

\* Further on than the last look found it; the first sight of one tells nothing.
Moving(downloads) ==
    {k \in Keys : lastPercent[k] # None /\ downloads[k] > lastPercent[k]}

\* The titles have been read: everything up to the file is one turn.
Titles ==
    /\ At("titles")
    /\ lastPercent' = Looked(run.downloads)
    /\ run' = [run EXCEPT !.pc = "load",
                 !.todo = {r \in run.requests : Late(r) /\ KeyOf[r] \notin Moving(run.downloads)}]
    /\ ticked' = lastPercent'
    /\ UNCHANGED <<world, notified, view, told, excused>>

\* Mutant: those no longer late are forgotten.
KnowsOnlyTheLate(known) == known \cap run.todo

\* Requests that have left the list are forgotten.
Knows(known) == known \cap run.requests

\* loadNotified: a list that cannot be read is an empty one.
Load ==
    /\ At("load")
    /\ \E known \in {notified, {}} :
         /\ run' = [run EXCEPT !.pc = "tell", !.downloads = Nothing, !.requests = {},
                               !.todo = @ \ Knows(known), !.notified = Knows(known)]
         /\ excused' = excused \cup (told \cap (notified \ (known \cap run.requests)))
    /\ UNCHANGED <<world, notified, lastPercent, view, told, ticked>>

\* The push goes out, to be taken by ntfy or not, and publish returns.
Tell(r) ==
    /\ At("tell")
    /\ r \in run.todo
    /\ run' = [run EXCEPT !.todo = @ \ {r}, !.notified = @ \cup {r}]
    /\ told' = IF Listed(r) THEN told \cup {r} ELSE told
    /\ excused' = excused \ {r}
    /\ UNCHANGED <<world, notified, lastPercent, view, ticked>>

Save ==
    /\ At("tell")
    /\ run.todo = {}
    /\ notified' = run.notified
    /\ run' = Idle
    /\ UNCHANGED <<world, lastPercent, view, history>>

\* A page, a title or the saving fails: the tick is over.
Fails ==
    /\ At("page") \/ At("titles") \/ (At("tell") /\ run.todo = {})
    /\ run' = Cut
    /\ excused' = excused \cup (told \cap (run.notified \ notified))
    /\ UNCHANGED <<world, notified, lastPercent, view, told, ticked>>

\* GET /stale does all of this but the telling and the saving: all it leaves
\* behind is what it found of the downloads.
ViewBegins ==
    /\ view = Nothing
    /\ view' = percent
    /\ UNCHANGED <<world, notified, lastPercent, run, history>>

ViewLooks ==
    /\ view # Nothing
    /\ lastPercent' = Looked(view)
    /\ view' = Nothing
    /\ ticked' = Nothing
    /\ UNCHANGED <<world, notified, run, told, excused>>

\* The process stops wherever it is and starts again.
Restart ==
    /\ run' = Cut
    /\ view' = Nothing
    /\ lastPercent' = Nothing
    /\ ticked' = Nothing
    /\ excused' = excused \cup (told \cap (run.notified \ notified))
    /\ UNCHANGED <<world, notified, told>>

Next ==
    \/ World
    \/ Begin \/ Page \/ Titles \/ Load \/ Save \/ Fails
    \/ \E r \in Requests : Tell(r)
    \/ ViewBegins \/ ViewLooks
    \/ Restart

Spec == Init /\ [][Next]_vars

TickSteps == Begin \/ Page \/ Titles \/ Load \/ Save \/ \E r \in Requests : Tell(r)

\* The timer goes on, and whatever a tick waits for answers or times out.
Fairness == WF_vars(TickSteps)

FairSpec == Spec /\ Fairness

-----------------------------------------------------------------------------
(* Properties.                                                             *)

TypeOK ==
    /\ now \in 0 .. LastDay
    /\ ToSet(listed) \subseteq Requests
    /\ available \subseteq Films
    /\ percent \in [Keys -> Progress] /\ lastPercent \in [Keys -> Progress]
    /\ view \in [Keys -> Progress]
    /\ notified \subseteq Requests
    /\ run.pc \in {"idle", "cut", "page", "titles", "load", "tell"}
    /\ run.requests \cup run.todo \cup run.notified \subseteq Requests
    /\ At("idle") => run = Idle

\* A request that stays on the list is told once, but after the record of it
\* was lost before it was saved, could not be read, or was dropped because the
\* pages moved while they were being read (check).
ToldOnce ==
    [][\A r \in Requests : Tell(r) => r \notin told \/ r \in excused]_vars

\* A download further on than the tick before found it is not called stuck, if
\* nobody asked for GET /stale in between (lastPercent).
SlowIsNotDead ==
    [][\A r \in Requests : r \in run'.todo \ run.todo =>
         ticked[KeyOf[r]] = None \/ run.downloads[KeyOf[r]] <= ticked[KeyOf[r]]]_vars

\* Once ticks neither fail nor are cut short, a request that stays late without
\* a download is told (check).
LateIsTold ==
    <>[]~At("cut") =>
      \A r \in Requests :
        <>[](Listed(r) /\ Late(r) /\ percent[KeyOf[r]] = None) => <>(r \in told)

=============================================================================
