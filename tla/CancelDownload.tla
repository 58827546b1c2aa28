--------------------------- MODULE CancelDownload ---------------------------
(***************************************************************************)
(* POST /cancel and POST /monitor of jellylab-push (index.mjs): a cancel   *)
(* unmonitors a season, or a whole title, empties the queue of it, waits   *)
(* and empties the queue of it once more.                                  *)
(*                                                                         *)
(* Sonarr, outside src/, keeps which seasons it looks for and a queue of   *)
(* downloads; it grabs what is monitored, and a grab shows up in the queue *)
(* a moment later.  Radarr is the same with titles of one season.          *)
(***************************************************************************)
EXTENDS Naturals, Sequences, FiniteSets

CONSTANTS
    Titles,     \* what the requests are about
    Tracked,    \* those Sonarr knows
    Seasons,
    All,        \* a request about no season in particular
    Calls,      \* requests in progress
    Requests,   \* bound: how many there ever are
    MaxRows,    \* bound: how many rows ever enter the queue
    Departures, \* bound: how many leave it by themselves
    PageSize,   \* rows on a page of the queue
    LastPage    \* pages read at most

ASSUME TitlesAssumption == Titles # {} /\ Tracked \subseteq Titles
ASSUME SeasonsAssumption == All \notin Seasons
ASSUME PagesAssumption == PageSize \in Nat \ {0} /\ LastPage \in Nat \ {0}
ASSUME BoundsAssumption == MaxRows \in Nat /\ Departures \in Nat /\ Requests \in Nat

VARIABLES
    monitored,  \* the parts Sonarr looks for
    grabs,      \* parts grabbed that are not in the queue yet
    queue,      \* numbers of the rows in the queue, listed in their order
    rowOf,      \* the part each row so far is of
    departures, \* rows that left by themselves
    call,       \* each request's local state
    begun,      \* requests so far
    cancelled   \* history: parts of answered cancels that have no excuse since

sonarr == <<monitored, grabs, queue, rowOf, departures>>
vars == <<sonarr, call, begun, cancelled>>

Parts == Titles \X Seasons
Rows == DOMAIN rowOf

PartsOf(title, season) == {title} \X (IF season = All THEN Seasons ELSE {season})

-----------------------------------------------------------------------------
Call == [ pc: {"idle", "locate", "read", "put", "list", "kill", "wait"},
          kind: {"cancel", "monitor"},
          title: Titles, season: Seasons \cup {All}, want: BOOLEAN,
          copy: SUBSET Parts,       \* what the series read said is monitored
          rows: SUBSET (1 .. MaxRows), \* found in the queue so far
          read: Nat, page: Nat,     \* where the listing is
          swept: BOOLEAN,           \* whether the queue was emptied once
          excused: SUBSET Parts ]   \* history: parts others resumed, put back or
                                    \* moved in the queue

Start(kind, title, season, want) ==
    [ pc |-> "locate", kind |-> kind, title |-> title, season |-> season, want |-> want,
      copy |-> {}, rows |-> {}, read |-> 0, page |-> 1, swept |-> FALSE,
      excused |-> {} ]

Idle == [Start("monitor", CHOOSE t \in Titles : TRUE, All, FALSE) EXCEPT !.pc = "idle"]

Init ==
    /\ monitored \in SUBSET (Tracked \X Seasons)
    /\ grabs = {}
    /\ queue = {}
    /\ rowOf = <<>>
    /\ departures = 0
    /\ call = [c \in Calls |-> Idle]
    /\ begun = 0
    /\ cancelled = {}

At(c, pc) == call[c].pc = pc

Update(c, new) == call' = [call EXCEPT ![c] = new]

Scope(c) == PartsOf(call[c].title, call[c].season)

Queued == {rowOf[r] : r \in queue}

\* Where a row stands in Sonarr's listing.
Position(r) == Cardinality({q \in queue : q <= r})

\* What removing rows does to a call d: the rest moves up, perhaps from a page d
\* has yet to read to one it has read for the last time.
Unsettled(d, rows) ==
    IF call[d].swept /\ call[d].page > 1 /\ rows \cap queue # {}
      THEN [call[d] EXCEPT !.excused = @ \cup Queued]
    ELSE call[d]

Unsettle(rows, c, new) ==
    call' = [d \in Calls |-> IF d = c THEN new ELSE Unsettled(d, rows)]

-----------------------------------------------------------------------------
(* Sonarr.                                                                 *)

\* RSS sync, or a search, finds a release of something monitored.
Grab(p) ==
    /\ p \in monitored \ (grabs \cup Queued)
    /\ Len(rowOf) + Cardinality(grabs) < MaxRows
    /\ grabs' = grabs \cup {p}
    /\ UNCHANGED <<monitored, queue, rowOf, departures, call, cancelled, begun>>

Lands(p) ==
    /\ p \in grabs
    /\ rowOf' = Append(rowOf, p)
    /\ queue' = queue \cup {Len(rowOf')}
    /\ grabs' = grabs \ {p}
    /\ UNCHANGED <<monitored, departures, call, cancelled, begun>>

\* A download is imported; the rows behind it move up.
Departs(r) ==
    /\ departures < Departures
    /\ departures' = departures + 1
    /\ queue' = queue \ {r}
    /\ call' = [d \in Calls |-> Unsettled(d, {r})]
    /\ UNCHANGED <<monitored, grabs, rowOf, cancelled, begun>>

-----------------------------------------------------------------------------
(* The requests.                                                           *)

Begin(c) ==
    /\ At(c, "idle")
    /\ begun < Requests
    /\ begun' = begun + 1
    /\ \E t \in Titles, s \in Seasons \cup {All} :
         \/ Update(c, Start("cancel", t, s, FALSE))
         \/ \E want \in BOOLEAN : Update(c, Start("monitor", t, s, want))
    /\ UNCHANGED <<sonarr, cancelled>>

\* The answer is 200.
Promise(c) ==
    cancelled' = IF call[c].kind = "cancel" THEN cancelled \cup (Scope(c) \ call[c].excused)
                 ELSE cancelled

\* Mutant: that a title is not tracked is not noticed.
LocateAnyway(c) ==
    /\ At(c, "locate")
    /\ Update(c, [call[c] EXCEPT !.pc = "read"])
    /\ UNCHANGED <<sonarr, cancelled, begun>>

\* localId; a title that is not tracked has nothing to stop.
Locate(c) ==
    /\ At(c, "locate")
    /\ IF call[c].title \in Tracked
         THEN Update(c, [call[c] EXCEPT !.pc = "read"]) /\ UNCHANGED cancelled
         ELSE Update(c, Idle) /\ Promise(c)
    /\ UNCHANGED <<sonarr, begun>>

\* Mutant: a season's cancel stops the whole series.
ChangedWhole(c) == IF call[c].want THEN call[c].copy \cup Scope(c) ELSE {}

\* What the series reads like with the season's flag changed.
Changed(c) ==
    IF call[c].want THEN call[c].copy \cup Scope(c) ELSE call[c].copy \ Scope(c)

Read(c) ==
    LET copy == monitored \cap PartsOf(call[c].title, All)
    IN  /\ At(c, "read")
        /\ Update(c, [call[c] EXCEPT !.pc = "put", !.copy = copy])
        /\ UNCHANGED <<sonarr, cancelled, begun>>

\* setMonitored: the whole series is put back, if there is anything to change,
\* and with it what others stopped since it was read.
Put(c) ==
    LET changes == Changed(c) # call[c].copy
        resumed == (IF call[c].want THEN Scope(c) ELSE {})
                     \cup (IF changes THEN Changed(c) \ monitored ELSE {})
        next == IF call[c].kind = "cancel"
                  THEN [call[c] EXCEPT !.pc = "list", !.copy = {}] ELSE Idle
    IN  /\ At(c, "put")
        /\ monitored' = IF changes
                          THEN (monitored \ PartsOf(call[c].title, All)) \cup Changed(c)
                        ELSE monitored
        /\ call' = [d \in Calls |-> IF d = c THEN next
                                    ELSE IF At(d, "idle") THEN Idle
                                    ELSE [call[d] EXCEPT !.excused = @ \cup resumed]]
        /\ cancelled' = cancelled \ resumed
        /\ UNCHANGED <<grabs, queue, rowOf, departures, begun>>

\* One page of wholeQueue: a page that reaches the total, an empty one or the
\* last one allowed ends the listing.
List(c) ==
    LET from == (call[c].page - 1) * PageSize
        page == {r \in queue : from < Position(r) /\ Position(r) <= from + PageSize}
        read == call[c].read + Cardinality(page)
        ends == read >= Cardinality(queue) \/ page = {} \/ call[c].page = LastPage
    IN  /\ At(c, "list")
        /\ Update(c, [call[c] EXCEPT
                        !.rows = @ \cup {r \in page : rowOf[r] \in Scope(c)},
                        !.read = IF ends THEN 0 ELSE read,
                        !.page = IF ends THEN 1 ELSE @ + 1,
                        !.pc = IF ends THEN "kill" ELSE "list"])
        /\ UNCHANGED <<sonarr, cancelled, begun>>

\* The rows found are removed, the downloads with them, and not replaced.
Kill(c) ==
    /\ At(c, "kill")
    /\ queue' = queue \ call[c].rows
    /\ IF call[c].swept
         THEN Unsettle(call[c].rows, c, Idle) /\ Promise(c)
       ELSE /\ Unsettle(call[c].rows, c,
                        [call[c] EXCEPT !.pc = "wait", !.rows = {}, !.swept = TRUE])
            /\ UNCHANGED cancelled
    /\ UNCHANGED <<monitored, grabs, rowOf, departures, begun>>

\* Mutant: the second sweep does not wait.
WaitNot(c) ==
    /\ At(c, "wait")
    /\ Update(c, [call[c] EXCEPT !.pc = "list"])
    /\ UNCHANGED <<sonarr, cancelled, begun>>

\* Three seconds: a grab that was in flight has landed.
Wait(c) ==
    /\ At(c, "wait")
    /\ grabs \cap Scope(c) = {}
    /\ Update(c, [call[c] EXCEPT !.pc = "list"])
    /\ UNCHANGED <<sonarr, cancelled, begun>>

\* One of Sonarr's answers is an error or late, the rows removed nevertheless
\* or not: 502, and what was done stays done.
Fails(c) ==
    /\ ~At(c, "idle") /\ ~At(c, "wait")
    /\ At(c, "kill") => call[c].rows # {}
    /\ \E rows \in {{}} \cup (IF At(c, "kill") THEN {call[c].rows} ELSE {}) :
         queue' = queue \ rows /\ Unsettle(rows, c, Idle)
    /\ UNCHANGED <<monitored, grabs, rowOf, departures, cancelled, begun>>

Next ==
    \/ \E p \in Parts : Grab(p) \/ Lands(p)
    \/ \E r \in queue : Departs(r)
    \/ \E c \in Calls : \/ Begin(c) \/ Locate(c) \/ Read(c) \/ Put(c)
                        \/ List(c) \/ Kill(c) \/ Wait(c) \/ Fails(c)

Spec == Init /\ [][Next]_vars

-----------------------------------------------------------------------------
(* Properties.                                                             *)

TypeOK ==
    /\ monitored \subseteq Tracked \X Seasons
    /\ grabs \subseteq Parts
    /\ rowOf \in Seq(Parts) /\ Len(rowOf) + Cardinality(grabs) <= MaxRows
    /\ queue \subseteq Rows
    /\ departures \in 0 .. Departures
    /\ call \in [Calls -> Call]
    /\ begun \in 0 .. Requests
    /\ cancelled \subseteq Parts

\* What was cancelled is not looked for, not on its way to the queue and not in
\* it, until somebody resumes it, however requests overlap - but for a request
\* that read the series before and puts it back after, and for rows that move
\* while the second listing is between two pages (cancel).
CancelHolds == cancelled \cap (monitored \cup grabs \cup Queued) = {}

\* No request removes rows it is not about, or leaves the parts of a series it
\* is not about other than they are or were when it read them (setMonitored,
\* wanted).
OnlyItsOwn ==
    [][\A c \in Calls :
         ~At(c, "idle") /\ call'[c].pc # call[c].pc =>
           /\ \/ monitored' \ Scope(c) = monitored \ Scope(c)
              \/ (monitored' \cap PartsOf(call[c].title, All)) \ Scope(c) = call[c].copy \ Scope(c)
           /\ \A r \in queue \ queue' : rowOf[r] \in Scope(c)]_vars

=============================================================================
