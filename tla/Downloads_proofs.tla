-------------------------- MODULE Downloads_proofs --------------------------
(***************************************************************************)
(* Proofs about Downloads, for any titles, seasons, verdicts and number of *)
(* requests in progress.  A cancel holds as long as the queue fits on the  *)
(* pages that are read of it; the rest needs no such condition.            *)
(***************************************************************************)
EXTENDS Downloads, FiniteSetTheorems, SequenceTheorems, TLAPS

-----------------------------------------------------------------------------
(* The cancel and monitor routes.                                          *)

Sonarrs == Tracked \X Seasons

\* Only what Sonarr knows is grabbed and queued.
WorldRight ==
    /\ IsFiniteSet(grabs) /\ grabs \subseteq Sonarrs
    /\ \A i \in Rows : rowOf[i] \in Sonarrs

\* The parts a cancel is to stop, but for those others interfered with.
ToStop(c) == Scope(c) \ call[c].excused

\* A request of the kind its steps belong to, with a listing only while it lists.
Straight(c) ==
    /\ At(c, "list") \/ (call[c].read = 0 /\ call[c].page = 1)
    /\ call[c].page > 0
    /\ call[c].kind = "cancel" => ~call[c].want
    /\ call[c].pc \in {"list", "kill", "wait"} => call[c].kind = "cancel"
    /\ call[c].pc \in {"idle", "locate", "read", "put"} => ~call[c].swept
    /\ call[c].pc \in {"idle", "locate"} \/ call[c].title \in Tracked

\* What it holds of the series is of that series, and tells what is monitored
\* but for what was resumed since.
CopyRight(c) ==
    /\ call[c].copy \subseteq PartsOf(call[c].title, All)
    /\ At(c, "put") =>
         monitored \cap PartsOf(call[c].title, All) \subseteq call[c].copy \cup call[c].excused

\* The rows it found are its own.
RowsRight(c) == \A r \in call[c].rows : r \in Rows /\ rowOf[r] \in Scope(c)

\* Put back, the series is no longer looked for.
Stopped(c) == call[c].pc \in {"list", "kill", "wait"} => ToStop(c) \cap monitored = {}

\* After the wait nothing is on its way to the queue any more.
Landed(c) ==
    call[c].swept /\ call[c].pc \in {"list", "kill"} => ToStop(c) \cap grabs = {}

\* The second listing has found what stands on the pages it has read, unless
\* there is nothing left to find.
ListedSoFar(c) ==
    call[c].swept /\ At(c, "list") =>
      \/ ToStop(c) \cap Queued = {}
      \/ /\ call[c].read = (call[c].page - 1) * PageSize
         /\ \A r \in queue :
              rowOf[r] \in ToStop(c) /\ Position(r) <= call[c].read => r \in call[c].rows

\* When it is through, it has found everything.
ListedAll(c) ==
    call[c].swept /\ At(c, "kill") =>
      \A r \in queue : rowOf[r] \in ToStop(c) => r \in call[c].rows

Sound(c) == Straight(c) /\ CopyRight(c) /\ RowsRight(c)

Stops(c) == Stopped(c) /\ Landed(c) /\ ListedSoFar(c) /\ ListedAll(c)

OwnInv == TypeOK /\ WorldRight /\ \A c \in Calls : Sound(c)

StopInv == CancelHolds /\ \A c \in Calls : Stops(c)

-----------------------------------------------------------------------------
(* A request as the others' steps leave it.                                *)

\* Of a request that is not its own, a step changes no more than the excuses.
Same(d) ==
    /\ call'[d] \in Call
    /\ call'[d].pc = call[d].pc /\ call'[d].kind = call[d].kind
    /\ call'[d].title = call[d].title /\ call'[d].season = call[d].season
    /\ call'[d].want = call[d].want /\ call'[d].copy = call[d].copy
    /\ call'[d].rows = call[d].rows /\ call'[d].read = call[d].read
    /\ call'[d].page = call[d].page /\ call'[d].swept = call[d].swept
    /\ call[d].excused \subseteq call'[d].excused

LEMMA PartsFacts ==
    ASSUME NEW t \in Titles, NEW s \in Seasons \cup {All}
    PROVE  /\ PartsOf(t, s) \in SUBSET Parts
           /\ PartsOf(t, s) \subseteq PartsOf(t, All)
  BY SeasonsAssumption DEF PartsOf, Parts

LEMMA CallFields ==
    ASSUME NEW w \in Call
    PROVE  /\ w.pc \in {"idle", "locate", "read", "put", "list", "kill", "wait"}
           /\ w.kind \in {"cancel", "monitor"}
           /\ w.title \in Titles /\ w.season \in Seasons \cup {All} /\ w.want \in BOOLEAN
           /\ w.copy \in SUBSET Parts /\ w.rows \in SUBSET (1 .. MaxRows)
           /\ w.read \in Nat /\ w.page \in Nat /\ w.swept \in BOOLEAN
           /\ w.excused \in SUBSET Parts
  BY DEF Call

LEMMA StartFacts ==
    ASSUME NEW kind \in {"cancel", "monitor"}, NEW t \in Titles,
           NEW s \in Seasons \cup {All}, NEW want \in BOOLEAN
    PROVE  /\ Start(kind, t, s, want) \in Call
           /\ Start(kind, t, s, want).pc = "locate"
           /\ Start(kind, t, s, want).kind = kind
           /\ Start(kind, t, s, want).want = want
           /\ Start(kind, t, s, want).copy = {}
           /\ Start(kind, t, s, want).rows = {}
           /\ Start(kind, t, s, want).read = 0
           /\ Start(kind, t, s, want).page = 1
           /\ Start(kind, t, s, want).swept = FALSE
  BY DEF Start, Call

LEMMA IdleFacts ==
    /\ Idle \in Call /\ Idle.pc = "idle" /\ Idle.kind = "monitor"
    /\ Idle.copy = {} /\ Idle.rows = {} /\ Idle.read = 0 /\ Idle.page = 1
    /\ Idle.swept = FALSE
<1> DEFINE some == CHOOSE t \in Titles : TRUE
           new == Start("monitor", some, All, FALSE)
<1>1. some \in Titles
  BY TitlesAssumption
<1>2. Idle = [new EXCEPT !.pc = "idle"]
  BY DEF Idle
<1> HIDE DEF some
<1>3. /\ new \in Call /\ new.kind = "monitor" /\ new.copy = {} /\ new.rows = {}
      /\ new.read = 0 /\ new.page = 1 /\ new.swept = FALSE
  BY <1>1, StartFacts
<1> HIDE DEF new
<1> QED
  BY <1>2, <1>3 DEF Call

\* An idle request is sound whatever the rest is like.
LEMMA IdleSound ==
    ASSUME NEW c, call'[c] = Idle
    PROVE  Sound(c)' /\ Stops(c)'
<1> QED
  BY IdleFacts
     DEF Sound, Straight, CopyRight, RowsRight, Stops, Stopped, Landed, ListedSoFar, ListedAll,
         At

\* Rows are numbered for good.
RowsKept == \A i \in Rows : i \in Rows' /\ rowOf'[i] = rowOf[i]

LEMMA SameSound ==
    ASSUME NEW d \in Calls, call[d] \in Call, Sound(d), Same(d), RowsKept,
           monitored' \subseteq monitored \cup call'[d].excused
    PROVE  Sound(d)'
<1>1. Scope(d)' = Scope(d)
  BY DEF Same, Scope
<1>2. Straight(d)'
  BY DEF Sound, Straight, Same, At
<1>3. CopyRight(d)'
  BY DEF Sound, CopyRight, Same, At
<1>4. RowsRight(d)'
  BY <1>1 DEF Sound, RowsRight, Same, RowsKept
<1> QED
  BY <1>2, <1>3, <1>4 DEF Sound

\* A step that removes rows from the queue.
LEMMA UnsettledSame ==
    ASSUME TypeOK, NEW d \in Calls, NEW rows, call'[d] = Unsettled(d, rows)
    PROVE  /\ Same(d)
           /\ call[d].swept /\ call[d].page > 1 /\ rows \cap queue # {} =>
                Queued \subseteq call'[d].excused
<1>1. call[d] \in Call
  BY DEF TypeOK
<1>2. Queued \in SUBSET Parts
  BY DEF TypeOK, Queued, Rows
<1>3. CASE call[d].swept /\ call[d].page > 1 /\ rows \cap queue # {}
  <2> DEFINE more == call[d].excused \cup Queued
  <2>1. call'[d] = [call[d] EXCEPT !.excused = more]
    BY <1>3 DEF Unsettled
  <2>2. more \in SUBSET Parts
    BY <1>1, <1>2 DEF Call
  <2>3. Queued \subseteq more /\ call[d].excused \subseteq more
    OBVIOUS
  <2> HIDE DEF more
  <2>4. call'[d] \in Call
    BY <1>1, <2>1, <2>2 DEF Call
  <2> QED
    BY <1>1, <2>1, <2>3, <2>4 DEF Same, Call
<1>4. CASE ~(call[d].swept /\ call[d].page > 1 /\ rows \cap queue # {})
  <2>1. call'[d] = call[d]
    BY <1>4 DEF Unsettled
  <2> QED
    BY <1>1, <1>4, <2>1 DEF Same
<1> QED
  BY <1>3, <1>4

-----------------------------------------------------------------------------
(* Types, and what a request holds.                                        *)

LEMMA InitOwn == Init => OwnInv
<1> SUFFICES ASSUME Init PROVE OwnInv
  OBVIOUS
<1>1. /\ monitored \in SUBSET Sonarrs /\ grabs = {} /\ queue = {} /\ rowOf = <<>>
      /\ departures = 0 /\ call = [c \in Calls |-> Idle] /\ begun = 0 /\ cancelled = {}
  BY DEF Init, Sonarrs
<1>2. rowOf \in Seq(Parts) /\ Len(rowOf) = 0 /\ Rows = {}
  BY <1>1 DEF Rows
<1>3. IsFiniteSet(grabs) /\ Cardinality(grabs) = 0
  BY <1>1, FS_EmptySet
<1>4. TypeOK
  BY <1>1, <1>2, <1>3, IdleFacts, BoundsAssumption DEF TypeOK, Sonarrs
<1>5. WorldRight
  BY <1>1, <1>2, <1>3 DEF WorldRight
<1>6. \A c \in Calls : Sound(c)
  BY <1>1, IdleFacts DEF Sound, Straight, CopyRight, RowsRight, At
<1> QED
  BY <1>4, <1>5, <1>6 DEF OwnInv

\* A step of one request that leaves Sonarr alone.
LEMMA OwnStep ==
    ASSUME OwnInv, NEW c \in Calls, NEW new \in Call, Update(c, new), UNCHANGED sonarr,
           Sound(c)', cancelled' \subseteq Parts, begun' \in 0 .. Requests
    PROVE  OwnInv'
<1>1. TypeOK'
  BY DEF OwnInv, TypeOK, Update, sonarr, Rows
<1>2. WorldRight'
  BY DEF OwnInv, WorldRight, sonarr, Rows
<1>3. ASSUME NEW d \in Calls PROVE Sound(d)'
  <2>1. CASE d = c
    BY <2>1
  <2>2. CASE d # c
    <3>1. call'[d] = call[d] /\ call[d] \in Call
      BY <2>2 DEF Update, OwnInv, TypeOK
    <3>2. Same(d) /\ RowsKept
      BY <3>1 DEF Same, RowsKept, sonarr, Rows
    <3> QED
      BY <3>1, <3>2, SameSound DEF OwnInv, sonarr
  <2> QED
    BY <2>1, <2>2
<1> QED
  BY <1>1, <1>2, <1>3 DEF OwnInv

LEMMA PromiseType ==
    ASSUME OwnInv, NEW c \in Calls, Promise(c)
    PROVE  cancelled' \subseteq Parts
<1>1. Scope(c) \in SUBSET Parts
  BY PartsFacts, CallFields DEF OwnInv, TypeOK, Scope
<1> QED
  BY <1>1 DEF OwnInv, TypeOK, Promise

LEMMA BeginOwn == ASSUME OwnInv, NEW c \in Calls, Begin(c) PROVE OwnInv'
<1>1. /\ UNCHANGED sonarr /\ cancelled' \subseteq Parts /\ begun' \in 0 .. Requests
  BY BoundsAssumption DEF Begin, OwnInv, TypeOK
<1>2. PICK kind \in {"cancel", "monitor"}, t \in Titles, s \in Seasons \cup {All}, want \in BOOLEAN :
        Update(c, Start(kind, t, s, want)) /\ (kind = "cancel" => ~want)
  BY DEF Begin
<1> DEFINE new == Start(kind, t, s, want)
<1>3. new \in Call
  BY DEF Start, Call
<1>4. /\ new.pc = "locate" /\ new.kind = kind /\ (kind = "cancel" => ~new.want)
      /\ new.copy = {} /\ new.rows = {} /\ new.read = 0 /\ new.page = 1 /\ ~new.swept
  BY <1>2 DEF Start
<1>5. Update(c, new)
  BY <1>2
<1> HIDE DEF new
<1>6. call'[c] = new
  BY <1>5 DEF Update, OwnInv, TypeOK
<1>7. Sound(c)'
  BY <1>4, <1>6 DEF Sound, Straight, CopyRight, RowsRight, At
<1> QED
  BY <1>1, <1>3, <1>5, <1>7, OwnStep

LEMMA LocateOwn == ASSUME OwnInv, NEW c \in Calls, Locate(c) PROVE OwnInv'
<1>1. UNCHANGED sonarr /\ begun' \in 0 .. Requests /\ call[c] \in Call
  BY DEF Locate, OwnInv, TypeOK
<1>2. CASE call[c].title \in Tracked
  <2> DEFINE new == [call[c] EXCEPT !.pc = "read"]
  <2>1. Update(c, new) /\ cancelled' \subseteq Parts
    BY <1>2 DEF Locate, OwnInv, TypeOK
  <2>2. call'[c] = new
    BY <2>1 DEF Update, OwnInv, TypeOK
  <2>3. /\ new \in Call /\ new.pc = "read" /\ new.kind = call[c].kind
        /\ new.title = call[c].title /\ new.season = call[c].season
        /\ new.want = call[c].want /\ new.copy = call[c].copy /\ new.rows = call[c].rows
        /\ new.read = call[c].read /\ new.page = call[c].page /\ new.swept = call[c].swept
    BY <1>1 DEF Call
  <2>4. At(c, "locate") /\ Sound(c) /\ call[c].title \in Tracked
    BY <1>2 DEF Locate, OwnInv
  <2> HIDE DEF new
  <2>5. Sound(c)'
    BY <1>1, <2>2, <2>3, <2>4
       DEF Sound, Straight, CopyRight, RowsRight, At, Scope, sonarr, Rows
  <2> QED
    BY <1>1, <2>1, <2>3, <2>5, OwnStep
<1>3. CASE call[c].title \notin Tracked
  <2>1. Update(c, Idle) /\ cancelled' \subseteq Parts
    BY <1>3, PromiseType DEF Locate
  <2>2. call'[c] = Idle
    BY <2>1 DEF Update, OwnInv, TypeOK
  <2> QED
    BY <1>1, <2>1, <2>2, IdleFacts, IdleSound, OwnStep
<1> QED
  BY <1>2, <1>3

LEMMA ReadOwn == ASSUME OwnInv, NEW c \in Calls, Read(c) PROVE OwnInv'
<1> DEFINE copy == monitored \cap PartsOf(call[c].title, All)
           new == [call[c] EXCEPT !.pc = "put", !.copy = copy]
<1>1. /\ UNCHANGED sonarr /\ begun' \in 0 .. Requests /\ call[c] \in Call
      /\ cancelled' \subseteq Parts /\ At(c, "read") /\ Sound(c) /\ Update(c, new)
  BY DEF Read, OwnInv, TypeOK
<1>2. call'[c] = new
  BY <1>1 DEF Update, OwnInv, TypeOK
<1>3. copy \in SUBSET Parts
  BY <1>1, PartsFacts, CallFields
<1>4. /\ new \in Call /\ new.pc = "put" /\ new.kind = call[c].kind
      /\ new.title = call[c].title /\ new.season = call[c].season
      /\ new.want = call[c].want /\ new.copy = copy /\ new.rows = call[c].rows
      /\ new.read = call[c].read /\ new.page = call[c].page /\ new.swept = call[c].swept
  BY <1>1, <1>3 DEF Call
<1> HIDE DEF new
<1>5. Straight(c)' /\ CopyRight(c)'
  BY <1>1, <1>2, <1>4 DEF Sound, Straight, CopyRight, At, sonarr
<1>6. RowsRight(c)'
  BY <1>1, <1>2, <1>4 DEF Sound, RowsRight, Scope, sonarr, Rows
<1> QED
  BY <1>1, <1>4, <1>5, <1>6, OwnStep DEF Sound

LEMMA WaitOwn == ASSUME OwnInv, NEW c \in Calls, Wait(c) PROVE OwnInv'
<1> DEFINE new == [call[c] EXCEPT !.pc = "list"]
<1>1. /\ UNCHANGED sonarr /\ begun' \in 0 .. Requests /\ call[c] \in Call
      /\ cancelled' \subseteq Parts /\ At(c, "wait") /\ Sound(c) /\ Update(c, new)
  BY DEF Wait, OwnInv, TypeOK
<1>2. call'[c] = new
  BY <1>1 DEF Update, OwnInv, TypeOK
<1>3. /\ new \in Call /\ new.pc = "list" /\ new.kind = call[c].kind
      /\ new.title = call[c].title /\ new.season = call[c].season
      /\ new.want = call[c].want /\ new.copy = call[c].copy /\ new.rows = call[c].rows
      /\ new.read = call[c].read /\ new.page = call[c].page /\ new.swept = call[c].swept
  BY <1>1 DEF Call
<1> HIDE DEF new
<1>4. Sound(c)'
  BY <1>1, <1>2, <1>3 DEF Sound, Straight, CopyRight, RowsRight, At, Scope, sonarr, Rows
<1> QED
  BY <1>1, <1>3, <1>4, OwnStep

\* The queue is finite and fits its bound.
LEMMA QueueFinite ==
    ASSUME TypeOK, WorldRight
    PROVE  /\ IsFiniteSet(queue) /\ queue \subseteq 1 .. Len(rowOf) /\ Len(rowOf) \in Nat
           /\ Cardinality(queue) \in Nat /\ Cardinality(queue) <= MaxRows
           /\ Rows = 1 .. Len(rowOf) /\ Len(rowOf) <= MaxRows
<1>1. Len(rowOf) \in Nat /\ Rows = 1 .. Len(rowOf) /\ queue \subseteq 1 .. Len(rowOf)
  BY LenProperties DEF TypeOK, Rows
<1>2. Cardinality(grabs) \in Nat /\ MaxRows \in Nat
  BY FS_CardinalityType, BoundsAssumption DEF WorldRight
<1>3. Len(rowOf) <= MaxRows
  BY <1>1, <1>2 DEF TypeOK
<1>4. IsFiniteSet(1 .. Len(rowOf)) /\ Cardinality(1 .. Len(rowOf)) = Len(rowOf)
  <2>1. ASSUME NEW n \in Nat PROVE IsFiniteSet(1 .. n) /\ Cardinality(1 .. n) = n
    BY FS_Interval
  <2> QED
    BY <1>1, <2>1
<1>5. /\ IsFiniteSet(queue) /\ Cardinality(queue) \in Nat
      /\ Cardinality(queue) <= Len(rowOf)
  BY <1>1, <1>4, FS_Subset, FS_CardinalityType
<1> QED
  BY <1>1, <1>2, <1>3, <1>5

\* What a listing step makes of its request.
LEMMA ListFacts ==
    ASSUME OwnInv, NEW c \in Calls, List(c)
    PROVE  LET from == (call[c].page - 1) * PageSize
               page == {r \in queue : from < Position(r) /\ Position(r) <= from + PageSize}
               read == call[c].read + Cardinality(page)
               ends == \/ read >= Cardinality(queue) \/ page = {}
                       \/ call[c].page = LastPage
               new == call'[c]
           IN  /\ new \in Call /\ Update(c, new) /\ At(c, "list")
               /\ new.pc = IF ends THEN "kill" ELSE "list"
               /\ new.read = (IF ends THEN 0 ELSE read)
               /\ new.page = (IF ends THEN 1 ELSE call[c].page + 1)
               /\ new.rows = call[c].rows \cup {r \in page : rowOf[r] \in Scope(c)}
               /\ new.kind = call[c].kind /\ new.title = call[c].title
               /\ new.season = call[c].season /\ new.want = call[c].want
               /\ new.copy = call[c].copy /\ new.swept = call[c].swept
               /\ new.excused = call[c].excused
<1> DEFINE from == (call[c].page - 1) * PageSize
           page == {r \in queue : from < Position(r) /\ Position(r) <= from + PageSize}
           read == call[c].read + Cardinality(page)
           ends == \/ read >= Cardinality(queue) \/ page = {}
                   \/ call[c].page = LastPage
           rows == call[c].rows \cup {r \in page : rowOf[r] \in Scope(c)}
           pc == IF ends THEN "kill" ELSE "list"
           read1 == IF ends THEN 0 ELSE read
           page1 == IF ends THEN 1 ELSE call[c].page + 1
           new == [call[c] EXCEPT !.rows = rows, !.read = read1, !.page = page1, !.pc = pc]
<1>1. At(c, "list") /\ Update(c, new) /\ call[c] \in Call
  BY DEF List, OwnInv, TypeOK
<1>2. call'[c] = new
  BY <1>1 DEF Update, OwnInv, TypeOK
<1>3. page \subseteq queue /\ queue \subseteq 1 .. MaxRows /\ Cardinality(page) \in Nat
  BY QueueFinite, FS_Subset, FS_CardinalityType, BoundsAssumption DEF OwnInv
<1>4. rows \in SUBSET (1 .. MaxRows)
  BY <1>1, <1>3, CallFields
<1>5. read1 \in Nat /\ page1 \in Nat
  BY <1>1, <1>3, CallFields
<1>6. pc \in {"kill", "list"}
  OBVIOUS
<1>7. UNCHANGED <<queue, rowOf>>
  BY DEF List, sonarr
<1>8. Update(c, call'[c])
  BY <1>1, <1>2
<1>9. /\ new \in Call /\ new.pc = pc /\ new.read = read1 /\ new.page = page1
      /\ new.rows = rows /\ new.kind = call[c].kind /\ new.title = call[c].title
      /\ new.season = call[c].season /\ new.want = call[c].want
      /\ new.copy = call[c].copy /\ new.swept = call[c].swept
      /\ new.excused = call[c].excused
  <2> HIDE DEF pc, read1, page1, rows
  <2> QED
    BY <1>1, <1>4, <1>5, <1>6 DEF Call
<1> HIDE DEF new
<1> QED
  BY <1>1, <1>2, <1>8, <1>9

LEMMA ListOwn == ASSUME OwnInv, NEW c \in Calls, List(c) PROVE OwnInv'
<1>1. /\ UNCHANGED sonarr /\ begun' \in 0 .. Requests /\ cancelled' \subseteq Parts
      /\ call[c] \in Call /\ Sound(c)
  BY DEF List, OwnInv, TypeOK
<1> DEFINE new == call'[c]
<1>2. /\ new \in Call /\ Update(c, new) /\ At(c, "list")
      /\ \/ new.pc = "list" /\ new.page = call[c].page + 1
         \/ new.pc = "kill" /\ new.page = 1 /\ new.read = 0
      /\ new.rows \subseteq call[c].rows \cup {r \in queue : rowOf[r] \in Scope(c)}
      /\ new.kind = call[c].kind /\ new.title = call[c].title
      /\ new.season = call[c].season /\ new.want = call[c].want
      /\ new.copy = call[c].copy
  BY ListFacts
<1> HIDE DEF new
<1>3. Straight(c)'
  BY <1>1, <1>2, CallFields DEF Sound, Straight, At, new
<1>4. CopyRight(c)'
  BY <1>1, <1>2 DEF Sound, CopyRight, At, new
<1>5. RowsRight(c)'
  <2>1. queue \subseteq Rows
    BY DEF OwnInv, TypeOK
  <2> QED
    BY <1>1, <1>2, <2>1 DEF Sound, RowsRight, Scope, sonarr, Rows, new
<1>6. Sound(c)'
  BY <1>3, <1>4, <1>5 DEF Sound
<1> QED
  BY <1>1, <1>2, <1>6, OwnStep DEF new

\* A series is put back.
LEMMA PutFacts ==
    ASSUME OwnInv, NEW c \in Calls, Put(c)
    PROVE  LET resumed == (monitored' \ monitored)
               whole == PartsOf(call[c].title, All)
           IN  /\ monitored' \subseteq Sonarrs
               /\ Scope(c) \subseteq whole
               /\ \/ monitored' = (monitored \ whole) \cup Changed(c)
                  \/ monitored' = monitored /\ Changed(c) = call[c].copy
               /\ cancelled' \subseteq cancelled \ resumed
               /\ \A d \in Calls \ {c} :
                    \/ At(d, "idle") /\ call'[d] = Idle
                    \/ Same(d) /\ resumed \subseteq call'[d].excused
               /\ \/ call'[c] = Idle
                  \/ /\ call[c].kind = "cancel"
                     /\ call'[c] = [call[c] EXCEPT !.pc = "list", !.copy = {}]
               /\ call[c].kind = "cancel" =>
                    call'[c] = [call[c] EXCEPT !.pc = "list", !.copy = {}]
<1> DEFINE whole == PartsOf(call[c].title, All)
           changes == Changed(c) # call[c].copy
           back == (IF call[c].want THEN Scope(c) ELSE {})
                     \cup (IF changes THEN Changed(c) \ monitored ELSE {})
           next == IF call[c].kind = "cancel"
                     THEN [call[c] EXCEPT !.pc = "list", !.copy = {}] ELSE Idle
<1>1. /\ At(c, "put")
      /\ monitored' = IF changes THEN (monitored \ whole) \cup Changed(c) ELSE monitored
      /\ call' = [d \in Calls |-> IF d = c THEN next
                                  ELSE IF At(d, "idle") THEN Idle
                                  ELSE [call[d] EXCEPT !.excused = @ \cup back]]
      /\ cancelled' = cancelled \ back
  BY DEF Put
<1>2. call[c] \in Call /\ Sound(c) /\ TypeOK
  BY DEF OwnInv, TypeOK
<1>3. Scope(c) \subseteq whole /\ Scope(c) \in SUBSET Parts /\ whole \in SUBSET Parts
  BY <1>2, CallFields, PartsFacts DEF Scope
<1>4. Changed(c) \subseteq whole
  BY <1>2, <1>3 DEF Changed, Sound, CopyRight
<1>5. back \in SUBSET Parts
  BY <1>3, <1>4
<1>6. monitored' \ monitored \subseteq back
  BY <1>1
<1>7. ASSUME NEW d \in Calls \ {c}
      PROVE  \/ At(d, "idle") /\ call'[d] = Idle
             \/ Same(d) /\ monitored' \ monitored \subseteq call'[d].excused
  <2>1. CASE At(d, "idle")
    BY <1>1, <2>1
  <2>2. CASE ~At(d, "idle")
    <3> DEFINE more == call[d].excused \cup back
    <3>1. call'[d] = [call[d] EXCEPT !.excused = more] /\ call[d] \in Call
      BY <1>1, <1>2, <2>2 DEF TypeOK
    <3>2. more \in SUBSET Parts /\ call[d].excused \subseteq more
      BY <1>5, <3>1, CallFields
    <3>3. monitored' \ monitored \subseteq more
      BY <1>6
    <3> HIDE DEF more
    <3>4. Same(d) /\ call'[d].excused = more
      BY <3>1, <3>2 DEF Call, Same
    <3> QED
      BY <3>3, <3>4
  <2> QED
    BY <2>1, <2>2
<1>8. monitored' \subseteq Sonarrs
  <2>1. monitored \subseteq Sonarrs
    BY <1>2 DEF TypeOK, Sonarrs
  <2>2. whole \subseteq Sonarrs
    <3>1. call[c].title \in Tracked
      BY <1>1, <1>2 DEF Sound, Straight, At
    <3> QED
      BY <3>1 DEF PartsOf, Sonarrs
  <2> QED
    BY <1>1, <1>4, <2>1, <2>2
<1>9. call'[c] = next
  BY <1>1
<1> HIDE DEF back
<1> QED
  BY <1>1, <1>3, <1>6, <1>7, <1>8, <1>9

\* The request that put it back goes on to list the queue, if it is a cancel.
LEMMA PutGoesOn ==
    ASSUME OwnInv, NEW c \in Calls, Put(c), call[c].kind = "cancel"
    PROVE  /\ call'[c] \in Call /\ call'[c].pc = "list" /\ call'[c].kind = "cancel"
           /\ call'[c].title = call[c].title /\ call'[c].season = call[c].season
           /\ call'[c].want = call[c].want /\ call'[c].copy = {}
           /\ call'[c].rows = call[c].rows /\ call'[c].read = 0 /\ call'[c].page = 1
           /\ call'[c].swept = FALSE /\ call'[c].excused = call[c].excused
           /\ call[c].title \in Tracked /\ ~call[c].want
<1>1. call'[c] = [call[c] EXCEPT !.pc = "list", !.copy = {}] /\ call[c] \in Call
  BY PutFacts DEF OwnInv, TypeOK
<1>2. /\ call[c].read = 0 /\ call[c].page = 1 /\ ~call[c].swept /\ ~call[c].want
      /\ call[c].title \in Tracked
  BY DEF OwnInv, Sound, Straight, Put, At
<1> QED
  BY <1>1, <1>2 DEF Call

LEMMA PutOwn == ASSUME OwnInv, NEW c \in Calls, Put(c) PROVE OwnInv'
<1>1. /\ monitored' \subseteq Sonarrs /\ cancelled' \subseteq cancelled
      /\ \A d \in Calls \ {c} :
           call'[d] = Idle \/ (Same(d) /\ monitored' \ monitored \subseteq call'[d].excused)
      /\ call'[c] = Idle \/ call[c].kind = "cancel"
  BY PutFacts
<1>2. UNCHANGED <<grabs, queue, rowOf, departures, begun>> /\ call' = [d \in Calls |-> call'[d]]
  BY DEF Put
<1>3. ASSUME NEW d \in Calls PROVE call'[d] \in Call /\ Sound(d)'
  <2>1. CASE call'[d] = Idle
    BY <2>1, IdleFacts, IdleSound
  <2>2. CASE d # c /\ call'[d] # Idle
    <3>1. Same(d) /\ monitored' \subseteq monitored \cup call'[d].excused
      BY <1>1, <2>2
    <3>2. RowsKept /\ call[d] \in Call /\ Sound(d)
      BY <1>2 DEF RowsKept, Rows, OwnInv, TypeOK
    <3> QED
      BY <3>1, <3>2, SameSound DEF Same
  <2>3. CASE d = c /\ call'[d] # Idle
    <3>1. call[c].kind = "cancel" /\ Sound(c)
      BY <1>1, <2>3 DEF OwnInv
    <3> DEFINE new == call'[c]
    <3>2. /\ new \in Call /\ new.pc = "list" /\ new.kind = "cancel"
          /\ new.title = call[c].title /\ new.season = call[c].season
          /\ new.want = call[c].want /\ new.copy = {}
          /\ new.rows = call[c].rows /\ new.page = 1
          /\ call[c].title \in Tracked /\ ~call[c].want
      BY <3>1, PutGoesOn
    <3> HIDE DEF new
    <3>3. Straight(c)' /\ CopyRight(c)'
      BY <3>2 DEF Straight, CopyRight, At, new
    <3>4. RowsRight(c)'
      BY <1>2, <3>1, <3>2 DEF Sound, RowsRight, Scope, Rows, new
    <3> QED
      BY <2>3, <3>2, <3>3, <3>4 DEF Sound, new
  <2> QED
    BY <2>1, <2>2, <2>3
<1>4. TypeOK'
  BY <1>1, <1>2, <1>3 DEF OwnInv, TypeOK, Rows, Sonarrs
<1>5. WorldRight'
  BY <1>2 DEF OwnInv, WorldRight, Rows
<1> QED
  BY <1>3, <1>4, <1>5 DEF OwnInv

\* Rows leave the queue: by a request's hand, or by themselves.
LEMMA RemovalOwn ==
    ASSUME OwnInv, NEW rows, queue' = queue \ rows,
           UNCHANGED <<monitored, grabs, rowOf>>,
           call' \in [Calls -> Call],
           \A d \in Calls : Sound(d)' \/ call'[d] = Unsettled(d, rows),
           cancelled' \subseteq Parts, departures' \in 0 .. Departures, begun' \in 0 .. Requests
    PROVE  OwnInv'
<1>1. TypeOK'
  BY DEF OwnInv, TypeOK, Rows
<1>2. WorldRight'
  BY DEF OwnInv, WorldRight, Rows
<1>3. ASSUME NEW d \in Calls, call'[d] = Unsettled(d, rows) PROVE Sound(d)'
  <2>1. Same(d) /\ call[d] \in Call /\ Sound(d) /\ RowsKept
    BY <1>3, UnsettledSame DEF OwnInv, TypeOK, RowsKept, Rows
  <2> QED
    BY <2>1, SameSound
<1> QED
  BY <1>1, <1>2, <1>3 DEF OwnInv

\* A request that has removed its rows, for the first time or the second.
LEMMA KillFacts ==
    ASSUME OwnInv, NEW c \in Calls, Kill(c)
    PROVE  /\ At(c, "kill") /\ call[c].kind = "cancel" /\ queue' = queue \ call[c].rows
           /\ call' \in [Calls -> Call]
           /\ \A d \in Calls \ {c} : call'[d] = Unsettled(d, call[c].rows)
           /\ call[c].swept => call'[c] = Idle /\ Promise(c)
           /\ ~call[c].swept => /\ call'[c].pc = "wait" /\ UNCHANGED cancelled
                                /\ call'[c].kind = call[c].kind
                                /\ call'[c].title = call[c].title
                                /\ call'[c].season = call[c].season
                                /\ call'[c].want = call[c].want
                                /\ call'[c].copy = call[c].copy /\ call'[c].rows = {}
                                /\ call'[c].read = call[c].read
                                /\ call'[c].page = call[c].page
                                /\ call'[c].excused = call[c].excused
<1> DEFINE rest == [call[c] EXCEPT !.pc = "wait", !.rows = {}, !.swept = TRUE]
           new == IF call[c].swept THEN Idle ELSE rest
<1>1. /\ At(c, "kill") /\ queue' = queue \ call[c].rows /\ Unsettle(call[c].rows, c, new)
      /\ call[c].swept => Promise(c)
      /\ ~call[c].swept => UNCHANGED cancelled
  BY DEF Kill
<1>2. call[c] \in Call /\ call[c].kind = "cancel"
  BY <1>1 DEF OwnInv, TypeOK, Sound, Straight, At
<1>3. /\ rest \in Call /\ rest.pc = "wait" /\ rest.kind = call[c].kind
      /\ rest.title = call[c].title /\ rest.season = call[c].season
      /\ rest.want = call[c].want /\ rest.copy = call[c].copy /\ rest.rows = {}
      /\ rest.read = call[c].read /\ rest.page = call[c].page
      /\ rest.excused = call[c].excused
  BY <1>2 DEF Call
<1>4. new \in Call
  BY <1>3, IdleFacts
<1>5. call'[c] = new /\ \A d \in Calls \ {c} : call'[d] = Unsettled(d, call[c].rows)
  BY <1>1 DEF Unsettle
<1>6. call' \in [Calls -> Call]
  <2>1. call' = [d \in Calls |-> IF d = c THEN new ELSE Unsettled(d, call[c].rows)]
    BY <1>1 DEF Unsettle
  <2>2. \A d \in Calls \ {c} : call'[d] \in Call
    BY <1>5, UnsettledSame DEF OwnInv, Same
  <2> QED
    BY <1>4, <1>5, <2>1, <2>2
<1> HIDE DEF rest
<1> QED
  BY <1>1, <1>2, <1>3, <1>5, <1>6

LEMMA KillOwn == ASSUME OwnInv, NEW c \in Calls, Kill(c) PROVE OwnInv'
<1>1. /\ UNCHANGED <<monitored, grabs, rowOf>>
      /\ departures' \in 0 .. Departures /\ begun' \in 0 .. Requests
      /\ call[c] \in Call /\ Sound(c)
  BY DEF Kill, OwnInv, TypeOK
<1>2. cancelled' \subseteq Parts
  BY KillFacts, PromiseType DEF OwnInv, TypeOK
<1>3. CASE call[c].swept
  <2>1. Sound(c)'
    BY <1>3, KillFacts, IdleSound
  <2> QED
    BY <1>1, <1>2, <2>1, KillFacts, RemovalOwn
<1>4. CASE ~call[c].swept
  <2> DEFINE new == call'[c]
  <2>1. /\ new.pc = "wait" /\ new.kind = call[c].kind /\ new.title = call[c].title
        /\ new.season = call[c].season /\ new.want = call[c].want
        /\ new.copy = call[c].copy /\ new.rows = {}
        /\ new.read = call[c].read /\ new.page = call[c].page
        /\ At(c, "kill") /\ call[c].kind = "cancel"
    BY <1>4, KillFacts
  <2> HIDE DEF new
  <2>2. Sound(c)'
    BY <1>1, <2>1 DEF Sound, Straight, CopyRight, RowsRight, At, new
  <2> QED
    BY <1>1, <1>2, <2>2, KillFacts, RemovalOwn
<1> QED
  BY <1>3, <1>4

\* A request that failed is over.
LEMMA FailsFacts ==
    ASSUME OwnInv, NEW c \in Calls, Fails(c)
    PROVE  \E rows \in SUBSET call[c].rows :
             /\ queue' = queue \ rows /\ call' \in [Calls -> Call] /\ call'[c] = Idle
             /\ \A d \in Calls \ {c} : call'[d] = Unsettled(d, rows)
<1>1. PICK rows \in {{}} \cup (IF At(c, "kill") THEN {call[c].rows} ELSE {}) :
        queue' = queue \ rows /\ Unsettle(rows, c, Idle)
  BY DEF Fails
<1>2. rows \in SUBSET call[c].rows
  BY <1>1
<1>3. call'[c] = Idle /\ \A d \in Calls \ {c} : call'[d] = Unsettled(d, rows)
  BY <1>1 DEF Unsettle
<1>4. call' \in [Calls -> Call]
  <2>1. call' = [d \in Calls |-> IF d = c THEN Idle ELSE Unsettled(d, rows)]
    BY <1>1 DEF Unsettle
  <2>2. \A d \in Calls \ {c} : call'[d] \in Call
    BY <1>3, UnsettledSame DEF OwnInv, Same
  <2> QED
    BY <1>3, <2>1, <2>2, IdleFacts
<1> QED
  BY <1>1, <1>2, <1>3, <1>4

LEMMA FailsOwn == ASSUME OwnInv, NEW c \in Calls, Fails(c) PROVE OwnInv'
<1>1. /\ UNCHANGED <<monitored, grabs, rowOf>> /\ cancelled' \subseteq Parts
      /\ departures' \in 0 .. Departures /\ begun' \in 0 .. Requests
  BY DEF Fails, OwnInv, TypeOK
<1>2. PICK rows \in SUBSET call[c].rows :
        /\ queue' = queue \ rows /\ call' \in [Calls -> Call] /\ call'[c] = Idle
        /\ \A d \in Calls \ {c} : call'[d] = Unsettled(d, rows)
  BY FailsFacts
<1>3. Sound(c)'
  BY <1>2, IdleSound
<1> QED
  BY <1>1, <1>2, <1>3, RemovalOwn

LEMMA DepartsOwn == ASSUME OwnInv, NEW r \in queue, Departs(r) PROVE OwnInv'
<1>1. /\ UNCHANGED <<monitored, grabs, rowOf>> /\ cancelled' \subseteq Parts
      /\ departures' \in 0 .. Departures /\ begun' \in 0 .. Requests
      /\ queue' = queue \ {r} /\ call' = [d \in Calls |-> Unsettled(d, {r})]
  BY BoundsAssumption DEF Departs, OwnInv, TypeOK
<1>2. \A d \in Calls : call'[d] = Unsettled(d, {r})
  BY <1>1
<1>3. call' \in [Calls -> Call]
  <2>1. \A d \in Calls : call'[d] \in Call
    BY <1>2, UnsettledSame DEF OwnInv, Same
  <2> QED
    BY <1>1, <2>1
<1> QED
  BY <1>1, <1>2, <1>3, RemovalOwn

LEMMA GrabOwn == ASSUME OwnInv, NEW p \in Parts, Grab(p) PROVE OwnInv'
<1>1. /\ p \in monitored /\ p \notin grabs /\ Len(rowOf) + Cardinality(grabs) < MaxRows
      /\ grabs' = grabs \cup {p}
      /\ UNCHANGED <<monitored, queue, rowOf, departures, call, cancelled, begun>>
  BY DEF Grab
<1>2. /\ TypeOK /\ IsFiniteSet(grabs) /\ grabs \subseteq Sonarrs /\ p \in Sonarrs
      /\ MaxRows \in Nat /\ Len(rowOf) \in Nat
  BY <1>1, BoundsAssumption, LenProperties DEF OwnInv, WorldRight, TypeOK, Sonarrs
<1>3. IsFiniteSet(grabs') /\ Cardinality(grabs') = Cardinality(grabs) + 1
  BY <1>1, <1>2, FS_AddElement
<1>4. Cardinality(grabs) \in Nat
  BY <1>2, FS_CardinalityType
<1>5. Len(rowOf') + Cardinality(grabs') <= MaxRows
  BY <1>1, <1>2, <1>3, <1>4
<1>6. TypeOK'
  BY <1>1, <1>2, <1>5 DEF TypeOK, Rows
<1>7. WorldRight'
  BY <1>1, <1>2, <1>3 DEF OwnInv, WorldRight, Rows
<1>8. \A c \in Calls : Sound(c)'
  BY <1>1 DEF OwnInv, Sound, Straight, CopyRight, RowsRight, At, Scope, Rows
<1> QED
  BY <1>6, <1>7, <1>8 DEF OwnInv

\* A grab that lands becomes the last row.
LEMMA LandsFacts ==
    ASSUME OwnInv, NEW p \in Parts, Lands(p)
    PROVE  LET n == Len(rowOf) + 1
           IN  /\ p \in grabs /\ grabs' = grabs \ {p} /\ n \in Nat
               /\ rowOf' \in Seq(Parts) /\ Len(rowOf') = n
               /\ \A i \in Rows : i \in Rows' /\ rowOf'[i] = rowOf[i] /\ i < n
               /\ Rows' = Rows \cup {n} /\ rowOf'[n] = p /\ n \notin Rows
               /\ queue' = queue \cup {n}
               /\ UNCHANGED <<monitored, departures, call, cancelled, begun>>
<1>1. /\ p \in grabs /\ grabs' = grabs \ {p} /\ rowOf' = Append(rowOf, p)
      /\ queue' = queue \cup {Len(rowOf')}
      /\ UNCHANGED <<monitored, departures, call, cancelled, begun>>
  BY DEF Lands
<1>2. rowOf \in Seq(Parts) /\ Len(rowOf) \in Nat /\ Rows = 1 .. Len(rowOf)
  BY LenProperties DEF OwnInv, TypeOK, Rows
<1>3. /\ rowOf' \in Seq(Parts) /\ Len(rowOf') = Len(rowOf) + 1
      /\ \A i \in 1 .. Len(rowOf) : rowOf'[i] = rowOf[i]
      /\ rowOf'[Len(rowOf) + 1] = p
  BY <1>1, <1>2, AppendProperties
<1>4. Rows' = 1 .. Len(rowOf')
  BY <1>3, LenProperties DEF Rows
<1> QED
  BY <1>1, <1>2, <1>3, <1>4

LEMMA LandsOwn == ASSUME OwnInv, NEW p \in Parts, Lands(p) PROVE OwnInv'
<1> DEFINE n == Len(rowOf) + 1
<1>1. /\ p \in grabs /\ grabs' = grabs \ {p} /\ n \in Nat
      /\ rowOf' \in Seq(Parts) /\ Len(rowOf') = n
      /\ RowsKept /\ Rows' = Rows \cup {n} /\ rowOf'[n] = p
      /\ queue' = queue \cup {n}
      /\ UNCHANGED <<monitored, departures, call, cancelled, begun>>
  BY LandsFacts DEF RowsKept
<1>2. TypeOK /\ IsFiniteSet(grabs) /\ grabs \subseteq Sonarrs /\ Len(rowOf) \in Nat
  BY LenProperties DEF OwnInv, WorldRight, TypeOK
<1>3. IsFiniteSet(grabs') /\ Cardinality(grabs') = Cardinality(grabs) - 1
  BY <1>1, <1>2, FS_RemoveElement
<1>4. Cardinality(grabs) \in Nat /\ MaxRows \in Nat
  BY <1>2, FS_CardinalityType, BoundsAssumption
<1>5. Len(rowOf') + Cardinality(grabs') <= MaxRows
  BY <1>1, <1>2, <1>3, <1>4 DEF TypeOK
<1>6. TypeOK'
  <2>1. queue' \subseteq Rows' /\ grabs' \subseteq Parts
    BY <1>1, <1>2 DEF TypeOK
  <2> QED
    BY <1>1, <1>2, <1>5, <2>1 DEF TypeOK
<1>7. WorldRight'
  BY <1>1, <1>2, <1>3 DEF OwnInv, WorldRight, RowsKept
<1>8. ASSUME NEW c \in Calls PROVE Sound(c)'
  <2>1. Same(c) /\ call[c] \in Call
    BY <1>1, <1>2 DEF Same, TypeOK
  <2> QED
    BY <1>1, <2>1, SameSound DEF OwnInv
<1> QED
  BY <1>6, <1>7, <1>8 DEF OwnInv

LEMMA StepOwn == OwnInv /\ [Next]_vars => OwnInv'
<1> SUFFICES ASSUME OwnInv, [Next]_vars PROVE OwnInv'
  OBVIOUS
<1>1. ASSUME NEW p \in Parts, Grab(p) \/ Lands(p) PROVE OwnInv'
  BY <1>1, GrabOwn, LandsOwn
<1>2. ASSUME NEW r \in queue, Departs(r) PROVE OwnInv'
  BY <1>2, DepartsOwn
<1>3. ASSUME NEW c \in Calls,
             \/ Begin(c) \/ Locate(c) \/ Read(c) \/ Put(c) \/ List(c)
             \/ Kill(c) \/ Wait(c) \/ Fails(c)
      PROVE  OwnInv'
  BY <1>3, BeginOwn, LocateOwn, ReadOwn, PutOwn, ListOwn, KillOwn, WaitOwn, FailsOwn
<1>4. ASSUME UNCHANGED vars PROVE OwnInv'
  BY <1>4
     DEF vars, sonarr, OwnInv, TypeOK, WorldRight, Sound, Straight, CopyRight, RowsRight,
         At, Scope, Rows
<1> QED
  BY <1>1, <1>2, <1>3, <1>4 DEF Next

\* CancelDownload's TypeOK, for any number of titles, seasons, requests in
\* progress and rows.
THEOREM OwnInvariance == Spec => []OwnInv
  BY InitOwn, StepOwn, PTL DEF Spec

\* A request goes on by a step of its own only.
LEMMA OthersStay ==
    ASSUME OwnInv, [Next]_vars, NEW c \in Calls, ~At(c, "idle"), call'[c].pc # call[c].pc
    PROVE  \/ Put(c) \/ Kill(c) \/ Fails(c)
           \/ UNCHANGED <<monitored, queue>>
<1>1. ASSUME NEW d \in Calls \ {c}, Put(d) PROVE FALSE
  BY <1>1, PutFacts DEF Same
<1>2. ASSUME NEW d \in Calls \ {c}, Kill(d) PROVE FALSE
  <2>1. call'[c] = Unsettled(c, call[d].rows)
    BY <1>2, KillFacts
  <2> QED
    BY <2>1, UnsettledSame DEF OwnInv, Same
<1>3. ASSUME NEW d \in Calls \ {c}, Fails(d) PROVE FALSE
  <2>1. PICK rows : call'[c] = Unsettled(c, rows)
    BY <1>3, FailsFacts
  <2> QED
    BY <2>1, UnsettledSame DEF OwnInv, Same
<1>4. ASSUME NEW r \in queue, Departs(r) PROVE FALSE
  <2>1. call'[c] = Unsettled(c, {r})
    BY <1>4 DEF Departs
  <2> QED
    BY <2>1, UnsettledSame DEF OwnInv, Same
<1>5. ASSUME NEW p \in Parts, Grab(p) \/ Lands(p) PROVE FALSE
  BY <1>5 DEF Grab, Lands
<1>6. ASSUME NEW d \in Calls, Begin(d) \/ Locate(d) \/ Read(d) \/ List(d) \/ Wait(d)
      PROVE  UNCHANGED <<monitored, queue>>
  BY <1>6 DEF Begin, Locate, Read, List, Wait, sonarr
<1>7. CASE UNCHANGED vars
  BY <1>7 DEF vars
<1> QED
  BY <1>1, <1>2, <1>3, <1>4, <1>5, <1>6, <1>7 DEF Next

\* No request removes another part's rows or touches the rest of its series,
\* however requests overlap (setMonitored, wanted).
THEOREM OnlyItsOwnAlways == Spec => OnlyItsOwn
<1> DEFINE Own(c) ==
             ~At(c, "idle") /\ call'[c].pc # call[c].pc =>
               /\ \/ monitored' \ Scope(c) = monitored \ Scope(c)
                  \/ (monitored' \cap PartsOf(call[c].title, All)) \ Scope(c)
                       = call[c].copy \ Scope(c)
               /\ \A r \in queue \ queue' : rowOf[r] \in Scope(c)
<1>1. OwnInv /\ [Next]_vars => [\A c \in Calls : Own(c)]_vars
  <2> SUFFICES ASSUME OwnInv, [Next]_vars, NEW c \in Calls, ~At(c, "idle"),
                      call'[c].pc # call[c].pc
               PROVE  Own(c)
    OBVIOUS
  <2>1. CASE Put(c)
    <3>1. /\ Scope(c) \subseteq PartsOf(call[c].title, All)
          /\ \/ monitored' = (monitored \ PartsOf(call[c].title, All)) \cup Changed(c)
             \/ monitored' = monitored
      BY <2>1, PutFacts
    <3>2. UNCHANGED queue /\ call[c].copy \subseteq PartsOf(call[c].title, All)
      BY <2>1 DEF Put, OwnInv, Sound, CopyRight
    <3> QED
      BY <3>1, <3>2 DEF Changed
  <2>2. CASE Kill(c) \/ Fails(c)
    <3>1. queue \ queue' \subseteq call[c].rows /\ UNCHANGED monitored
      <4>1. CASE Kill(c)
        BY <4>1, KillFacts DEF Kill
      <4>2. CASE Fails(c)
        BY <4>2, FailsFacts DEF Fails
      <4> QED
        BY <2>2, <4>1, <4>2
    <3> QED
      BY <3>1 DEF OwnInv, Sound, RowsRight
  <2>3. CASE UNCHANGED <<monitored, queue>>
    BY <2>3
  <2> QED
    BY <2>1, <2>2, <2>3, OthersStay
<1> QED
  BY <1>1, OwnInvariance, PTL DEF Spec, OnlyItsOwn

-----------------------------------------------------------------------------
(* A listing that goes through a queue nobody changes lists all of it.     *)

\* Where r stands in Q.
Place(Q, r) == Cardinality({q \in Q : q <= r})

LEMMA Places ==
    ASSUME NEW Q \in SUBSET Nat, IsFiniteSet(Q)
    PROVE  /\ Cardinality(Q) \in Nat
           /\ \A r \in Q : Place(Q, r) \in 1 .. Cardinality(Q)
           /\ \A r, s \in Q : r < s => Place(Q, r) < Place(Q, s)
<1> DEFINE upto(r) == {q \in Q : q <= r}
<1>1. Cardinality(Q) \in Nat
  BY FS_CardinalityType
<1>2. ASSUME NEW r \in Q
      PROVE  /\ IsFiniteSet(upto(r)) /\ Cardinality(upto(r)) \in 1 .. Cardinality(Q)
  <2>1. IsFiniteSet(upto(r)) /\ Cardinality(upto(r)) <= Cardinality(Q)
    <3>1. upto(r) \in SUBSET Q
      OBVIOUS
    <3> QED
      BY <3>1, FS_Subset
  <2>2. Cardinality(upto(r)) \in Nat
    BY <2>1, FS_CardinalityType
  <2>3. upto(r) # {}
    <3>1. r \in upto(r)
      OBVIOUS
    <3> QED
      BY <3>1
  <2>4. Cardinality(upto(r)) # 0
    BY <2>1, <2>3, FS_EmptySet
  <2> QED
    BY <1>1, <2>1, <2>2, <2>4
<1>3. ASSUME NEW r \in Q, NEW s \in Q, r < s
      PROVE  Cardinality(upto(r)) < Cardinality(upto(s))
  <2>1. upto(r) \in SUBSET upto(s)
    <3>1. ASSUME NEW q \in Q, q <= r PROVE q <= s
      <4>1. q \in Nat /\ r \in Nat /\ s \in Nat
        OBVIOUS
      <4> QED
        BY <1>3, <3>1, <4>1
    <3> QED
      BY <3>1
  <2>2. s \in upto(s) /\ s \notin upto(r)
    BY <1>3
  <2>3. /\ Cardinality(upto(r)) <= Cardinality(upto(s))
        /\ Cardinality(upto(r)) # Cardinality(upto(s))
    BY <1>2, <2>1, <2>2, FS_Subset
  <2> QED
    BY <1>1, <1>2, <2>3
<1> QED
  BY <1>1, <1>2, <1>3 DEF Place

\* Every place is taken.
LEMMA PlacesTaken ==
    ASSUME NEW Q \in SUBSET Nat, IsFiniteSet(Q), NEW k \in 1 .. Cardinality(Q)
    PROVE  \E r \in Q : Place(Q, r) = k
<1> DEFINE n == Cardinality(Q)
           f == [r \in Q |-> Place(Q, r)]
<1>1. n \in Nat /\ f \in [Q -> 1 .. n]
  BY Places
<1>2. f \in Injection(Q, 1 .. n)
  <2>1. ASSUME NEW r \in Q, NEW s \in Q, f[r] = f[s] PROVE r = s
    <3>1. ~(r < s) /\ ~(s < r)
      BY <2>1, Places
    <3> QED
      BY <3>1
  <2> QED
    BY <1>1, <2>1 DEF Injection, IsInjective
<1>3. IsFiniteSet(1 .. n) /\ Cardinality(1 .. n) = n
  <2>1. ASSUME NEW m \in Nat PROVE IsFiniteSet(1 .. m) /\ Cardinality(1 .. m) = m
    BY FS_Interval
  <2> QED
    BY <1>1, <2>1
<1>4. f \in Surjection(Q, 1 .. n)
  <2> HIDE DEF f
  <2> QED
    BY <1>2, <1>3, FS_Injection
<1> QED
  BY <1>4 DEF Surjection

\* A page holds as many rows as it has places.
LEMMA PageFull ==
    ASSUME NEW Q \in SUBSET Nat, IsFiniteSet(Q),
           NEW a \in Nat, NEW b \in Nat, a <= b, b <= Cardinality(Q)
    PROVE  Cardinality({r \in Q : a < Place(Q, r) /\ Place(Q, r) <= b}) = b - a
<1> DEFINE page == {r \in Q : a < Place(Q, r) /\ Place(Q, r) <= b}
           places == (a + 1) .. b
           f == [r \in page |-> Place(Q, r)]
<1>1. f \in [page -> places]
  <2>1. ASSUME NEW r \in page PROVE Place(Q, r) \in places
    <3>1. Place(Q, r) \in Nat
      BY Places
    <3> QED
      BY <3>1
  <2> QED
    BY <2>1
<1>2. f \in Injection(page, places)
  <2>1. ASSUME NEW r \in page, NEW s \in page, f[r] = f[s] PROVE r = s
    <3>1. ~(r < s) /\ ~(s < r)
      BY <2>1, Places
    <3> QED
      BY <3>1
  <2> QED
    BY <1>1, <2>1 DEF Injection, IsInjective
<1>3. f \in Surjection(page, places)
  <2>1. ASSUME NEW k \in places PROVE \E r \in page : f[r] = k
    <3>1. k \in 1 .. Cardinality(Q)
      BY Places
    <3>2. PICK r \in Q : Place(Q, r) = k
      BY <3>1, PlacesTaken
    <3> QED
      BY <3>2
  <2> QED
    BY <1>1, <2>1 DEF Surjection
<1>4. IsFiniteSet(page) /\ ExistsBijection(page, places)
  <2>1. page \in SUBSET Q
    OBVIOUS
  <2>2. IsFiniteSet(page)
    BY <2>1, FS_Subset
  <2> HIDE DEF page, places, f
  <2> QED
    BY <1>2, <1>3, <2>2 DEF Bijection, ExistsBijection
<1>5. Cardinality(places) = Cardinality(page)
  <2> HIDE DEF page, places
  <2> QED
    BY <1>4, FS_Bijection
<1>6. Cardinality(places) = b - a
  <2>1. Cardinality(places) = IF a + 1 > b THEN 0 ELSE b - (a + 1) + 1
    BY FS_Interval
  <2> QED
    BY <2>1
<1> QED
  BY <1>5, <1>6

-----------------------------------------------------------------------------
(* What was cancelled stays cancelled.                                     *)

\* No queue is longer than the pages that are read of it.
Fits == MaxRows <= LastPage * PageSize

LEMMA StandsFacts ==
    ASSUME OwnInv
    PROVE  /\ queue \in SUBSET Nat /\ IsFiniteSet(queue)
           /\ Cardinality(queue) \in Nat /\ Cardinality(queue) <= MaxRows
           /\ \A r \in queue : Position(r) = Place(queue, r)
           /\ \A r \in queue : Position(r) \in 1 .. Cardinality(queue)
<1>1. /\ queue \in SUBSET Nat /\ IsFiniteSet(queue)
      /\ Cardinality(queue) \in Nat /\ Cardinality(queue) <= MaxRows
  BY QueueFinite DEF OwnInv
<1>2. \A r \in queue : Position(r) = Place(queue, r)
  BY DEF Position, Place
<1> QED
  BY <1>1, <1>2, Places

LEMMA IdleStops == ASSUME NEW c, call'[c] = Idle PROVE Stops(c)'
  BY IdleSound

\* A step that leaves the queue alone.
LEMMA QuietStops ==
    ASSUME NEW d \in Calls, call[d] \in Call, Stops(d), Same(d),
           UNCHANGED <<grabs, queue, rowOf>>,
           monitored' \subseteq monitored \cup call'[d].excused
    PROVE  Stops(d)'
<1>1. ToStop(d)' \subseteq ToStop(d) \ call'[d].excused
  BY DEF ToStop, Scope, Same
<1>2. /\ call'[d].pc = call[d].pc /\ call'[d].swept = call[d].swept
      /\ call'[d].page = call[d].page /\ call'[d].read = call[d].read
      /\ call'[d].rows = call[d].rows
  BY DEF Same
<1>3. Stopped(d)'
  BY <1>1, <1>2 DEF Stops, Stopped
<1>4. Landed(d)'
  BY <1>1, <1>2 DEF Stops, Landed, At
<1>5. Queued' = Queued /\ \A r : Position(r)' = Position(r)
  BY DEF Queued, Position
<1>6. ListedSoFar(d)'
  BY <1>1, <1>2, <1>5 DEF Stops, ListedSoFar, At
<1>7. ListedAll(d)'
  BY <1>1, <1>2 DEF Stops, ListedAll, At
<1> QED
  BY <1>3, <1>4, <1>6, <1>7 DEF Stops

\* A step of one request that leaves Sonarr alone.
LEMMA OwnStops ==
    ASSUME OwnInv, StopInv, NEW c \in Calls, NEW new, Update(c, new), UNCHANGED sonarr,
           Stops(c)', cancelled' \cap (monitored \cup grabs \cup Queued) = {}
    PROVE  StopInv'
<1>1. CancelHolds'
  BY DEF CancelHolds, sonarr, Queued
<1>2. ASSUME NEW d \in Calls PROVE Stops(d)'
  <2>1. CASE d = c
    BY <2>1
  <2>2. CASE d # c
    <3>1. call'[d] = call[d] /\ call[d] \in Call
      BY <2>2 DEF Update, OwnInv, TypeOK
    <3>2. Same(d) /\ UNCHANGED <<monitored, grabs, queue, rowOf>>
      BY <3>1 DEF Same, sonarr
    <3> QED
      BY <3>1, <3>2, QuietStops DEF StopInv
  <2> QED
    BY <2>1, <2>2
<1> QED
  BY <1>1, <1>2 DEF StopInv

\* What a request that may answer has to stop is stopped.
LEMMA PromiseHolds ==
    ASSUME OwnInv, StopInv, NEW c \in Calls, Promise(c), NEW rest \in SUBSET queue,
           call[c].kind = "cancel" =>
             ToStop(c) \cap (monitored \cup grabs \cup {rowOf[r] : r \in rest}) = {}
    PROVE  cancelled' \cap (monitored \cup grabs \cup {rowOf[r] : r \in rest}) = {}
<1>1. {rowOf[r] : r \in rest} \subseteq Queued
  BY DEF Queued
<1> QED
  BY <1>1 DEF Promise, StopInv, CancelHolds, ToStop

LEMMA BeginStops == ASSUME OwnInv, StopInv, NEW c \in Calls, Begin(c) PROVE StopInv'
<1>1. PICK kind \in {"cancel", "monitor"}, t \in Titles, s \in Seasons \cup {All}, want \in BOOLEAN :
        Update(c, Start(kind, t, s, want))
  BY DEF Begin
<1> DEFINE new == Start(kind, t, s, want)
<1>2. UNCHANGED <<sonarr, cancelled>> /\ Update(c, new)
  BY <1>1 DEF Begin
<1>3. new.pc = "locate"
  BY DEF Start
<1> HIDE DEF new
<1>4. Stops(c)'
  <2>1. call'[c] = new
    BY <1>2 DEF Update, OwnInv, TypeOK
  <2> QED
    BY <1>3, <2>1 DEF Stops, Stopped, Landed, ListedSoFar, ListedAll, At
<1>5. cancelled' \cap (monitored \cup grabs \cup Queued) = {}
  BY <1>2 DEF StopInv, CancelHolds
<1> QED
  BY <1>2, <1>4, <1>5, OwnStops

LEMMA LocateStops == ASSUME OwnInv, StopInv, NEW c \in Calls, Locate(c) PROVE StopInv'
<1>1. UNCHANGED sonarr /\ call[c] \in Call /\ TypeOK
  BY DEF Locate, OwnInv, TypeOK
<1>2. CASE call[c].title \in Tracked
  <2> DEFINE new == [call[c] EXCEPT !.pc = "read"]
  <2>1. Update(c, new) /\ UNCHANGED cancelled /\ new.pc = "read"
    BY <1>1, <1>2 DEF Locate, Call
  <2> HIDE DEF new
  <2>2. call'[c] = new
    BY <2>1 DEF Update, OwnInv, TypeOK
  <2>3. Stops(c)'
    BY <2>1, <2>2 DEF Stops, Stopped, Landed, ListedSoFar, ListedAll, At
  <2>4. cancelled' \cap (monitored \cup grabs \cup Queued) = {}
    BY <2>1 DEF StopInv, CancelHolds
  <2> QED
    BY <1>1, <2>1, <2>3, <2>4, OwnStops
<1>3. CASE call[c].title \notin Tracked
  <2>1. Update(c, Idle) /\ Promise(c)
    BY <1>3 DEF Locate
  <2>2. Stops(c)'
    <3>1. call'[c] = Idle
      BY <2>1 DEF Update, OwnInv, TypeOK
    <3> QED
      BY <3>1, IdleStops
  <2>3. monitored \cup grabs \cup Queued \subseteq Sonarrs
    BY DEF OwnInv, WorldRight, TypeOK, Sonarrs, Queued
  <2>4. Scope(c) \cap Sonarrs = {}
    BY <1>3 DEF Scope, PartsOf, Sonarrs
  <2>5. cancelled' \cap (monitored \cup grabs \cup {rowOf[r] : r \in queue}) = {}
    <3>1. ToStop(c) \cap (monitored \cup grabs \cup {rowOf[r] : r \in queue}) = {}
      BY <2>3, <2>4 DEF ToStop, Queued
    <3> QED
      BY <2>1, <3>1, PromiseHolds
  <2> QED
    BY <1>1, <2>1, <2>2, <2>5, OwnStops DEF Queued
<1> QED
  BY <1>2, <1>3

LEMMA ReadStops == ASSUME OwnInv, StopInv, NEW c \in Calls, Read(c) PROVE StopInv'
<1> DEFINE copy == monitored \cap PartsOf(call[c].title, All)
           new == [call[c] EXCEPT !.pc = "put", !.copy = copy]
<1>1. UNCHANGED <<sonarr, cancelled>> /\ Update(c, new) /\ call[c] \in Call
  BY DEF Read, OwnInv, TypeOK
<1>2. new.pc = "put"
  BY <1>1 DEF Call
<1> HIDE DEF new
<1>3. call'[c] = new
  BY <1>1 DEF Update, OwnInv, TypeOK
<1>4. Stops(c)'
  BY <1>2, <1>3 DEF Stops, Stopped, Landed, ListedSoFar, ListedAll, At
<1>5. cancelled' \cap (monitored \cup grabs \cup Queued) = {}
  BY <1>1 DEF StopInv, CancelHolds
<1> QED
  BY <1>1, <1>4, <1>5, OwnStops

LEMMA WaitStops == ASSUME OwnInv, StopInv, NEW c \in Calls, Wait(c) PROVE StopInv'
<1> DEFINE new == [call[c] EXCEPT !.pc = "list"]
<1>1. /\ UNCHANGED <<sonarr, cancelled>> /\ Update(c, new) /\ call[c] \in Call
      /\ At(c, "wait") /\ grabs \cap Scope(c) = {} /\ Stops(c) /\ Straight(c)
  BY DEF Wait, OwnInv, TypeOK, StopInv, Sound
<1>2. /\ new.pc = "list" /\ new.title = call[c].title /\ new.season = call[c].season
      /\ new.excused = call[c].excused /\ new.read = 0 /\ new.page = 1
  BY <1>1 DEF Call, Straight, At
<1> HIDE DEF new
<1>3. call'[c] = new
  BY <1>1 DEF Update, OwnInv, TypeOK
<1>4. ToStop(c)' = ToStop(c) /\ ToStop(c) \subseteq Scope(c)
  BY <1>2, <1>3 DEF ToStop, Scope
<1>5. Stopped(c)' /\ Landed(c)' /\ ListedAll(c)'
  BY <1>1, <1>2, <1>3, <1>4 DEF Stops, Stopped, Landed, ListedAll, At, sonarr
<1>6. ListedSoFar(c)'
  <2>1. \A r \in queue' : ~(Position(r)' <= 0)
    <3>1. \A r \in queue : Position(r) \in 1 .. Cardinality(queue) /\ Cardinality(queue) \in Nat
      BY StandsFacts
    <3>2. \A r \in queue : ~(Position(r) <= 0)
      BY <3>1
    <3>3. queue' = queue /\ \A r : Position(r)' = Position(r)
      BY <1>1 DEF sonarr, Position
    <3> QED
      BY <3>2, <3>3
  <2>2. 0 = (1 - 1) * PageSize
    BY PagesAssumption
  <2> QED
    BY <1>2, <1>3, <2>1, <2>2 DEF ListedSoFar
<1>7. cancelled' \cap (monitored \cup grabs \cup Queued) = {}
  BY <1>1 DEF StopInv, CancelHolds
<1> QED
  BY <1>1, <1>5, <1>6, <1>7, OwnStops DEF Stops

\* After a page the listing has found what stands on it and before it, and if it
\* ends there is no other.
LEMMA ListStops == ASSUME OwnInv, StopInv, Fits, NEW c \in Calls, List(c) PROVE StopInv'
<1> DEFINE from == (call[c].page - 1) * PageSize
           page == {r \in queue : from < Position(r) /\ Position(r) <= from + PageSize}
           read == call[c].read + Cardinality(page)
           ends == \/ read >= Cardinality(queue) \/ page = {} \/ call[c].page = LastPage
           n == Cardinality(queue)
           new == call'[c]
<1>1. /\ new \in Call /\ Update(c, new) /\ At(c, "list")
      /\ new.pc = IF ends THEN "kill" ELSE "list"
      /\ new.read = (IF ends THEN 0 ELSE read)
      /\ new.page = (IF ends THEN 1 ELSE call[c].page + 1)
      /\ new.rows = call[c].rows \cup {r \in page : rowOf[r] \in Scope(c)}
      /\ new.title = call[c].title /\ new.season = call[c].season
      /\ new.swept = call[c].swept /\ new.excused = call[c].excused
  BY ListFacts
<1>2. /\ UNCHANGED <<sonarr, cancelled>> /\ Stops(c) /\ call[c].page \in Nat \ {0}
      /\ call[c].read \in Nat
  BY CallFields DEF List, StopInv, OwnInv, Sound, Straight, TypeOK
<1>3. /\ n \in Nat /\ n <= MaxRows /\ queue \in SUBSET Nat /\ IsFiniteSet(queue)
      /\ \A r \in queue : Position(r) = Place(queue, r) /\ Position(r) \in 1 .. n
  BY StandsFacts
<1>4. from \in Nat /\ PageSize \in Nat \ {0} /\ LastPage \in Nat \ {0}
  BY <1>2, PagesAssumption
<1>5. /\ ToStop(c)' = ToStop(c) /\ ToStop(c) \subseteq Scope(c)
      /\ Queued' = Queued /\ queue' = queue /\ rowOf' = rowOf
      /\ \A r : Position(r)' = Position(r)
  BY <1>1, <1>2 DEF ToStop, Scope, Queued, Position, sonarr
<1> HIDE DEF new
<1>6. Stopped(c)' /\ Landed(c)'
  BY <1>1, <1>2, <1>5 DEF Stops, Stopped, Landed, At, sonarr, new
<1>7. ASSUME call[c].swept, ToStop(c) \cap Queued # {}
      PROVE  /\ call[c].read = from
             /\ \A r \in queue :
                  rowOf[r] \in ToStop(c) /\ Position(r) <= from + PageSize => r \in new.rows
  <2>1. /\ call[c].read = from
        /\ \A r \in queue : rowOf[r] \in ToStop(c) /\ Position(r) <= from => r \in call[c].rows
    BY <1>1, <1>2, <1>7 DEF Stops, ListedSoFar
  <2>2. ASSUME NEW r \in queue, rowOf[r] \in ToStop(c), Position(r) <= from + PageSize
        PROVE  r \in new.rows
    <3>1. CASE Position(r) <= from
      BY <1>1, <2>1, <2>2, <3>1
    <3>2. CASE ~(Position(r) <= from)
      <4>1. from < Position(r)
        BY <1>3, <1>4, <3>2
      <4> QED
        BY <1>1, <1>5, <2>2, <4>1
    <3> QED
      BY <3>1, <3>2
  <2> QED
    BY <2>1, <2>2
\* A page that does not reach the end of the queue is full.
<1>8. ASSUME call[c].read = from, from < n
      PROVE  read = IF n <= from + PageSize THEN n ELSE from + PageSize
  <2>1. CASE n <= from + PageSize
    <3>1. page = {r \in queue : from < Place(queue, r) /\ Place(queue, r) <= n}
      <4>1. ASSUME NEW r \in queue
            PROVE  Position(r) = Place(queue, r) /\ Position(r) <= n /\ Position(r) <= from + PageSize
        BY <1>3, <1>4, <2>1
      <4> QED
        BY <4>1
    <3>2. Cardinality(page) = n - from
      BY <1>3, <1>4, <1>8, <3>1, PageFull
    <3> QED
      BY <1>3, <1>4, <1>8, <2>1, <3>2
  <2>2. CASE ~(n <= from + PageSize)
    <3>1. page = {r \in queue : from < Place(queue, r) /\ Place(queue, r) <= from + PageSize}
      BY <1>3
    <3>2. Cardinality(page) = (from + PageSize) - from
      <4>1. from + PageSize \in Nat /\ from <= from + PageSize /\ from + PageSize <= n
        BY <1>3, <1>4, <2>2
      <4> QED
        BY <1>3, <1>4, <3>1, <4>1, PageFull
    <3> QED
      BY <1>3, <1>4, <1>8, <2>2, <3>2
  <2> QED
    BY <2>1, <2>2
<1>9. ListedSoFar(c)'
  <2> SUFFICES ASSUME call[c].swept, ToStop(c) \cap Queued # {}, ~ends
               PROVE  /\ new.read = (new.page - 1) * PageSize
                      /\ \A r \in queue :
                           rowOf[r] \in ToStop(c) /\ Position(r) <= new.read => r \in new.rows
    BY <1>1, <1>5 DEF ListedSoFar, At, new
  <2>1. from < n
    <3>1. PICK r \in queue : from < Position(r)
      OBVIOUS
    <3> QED
      BY <1>3, <1>4, <3>1
  <2>2. read = from + PageSize
    BY <1>3, <1>7, <1>8, <2>1
  <2>3. new.read = from + PageSize /\ new.page = call[c].page + 1
    BY <1>1, <2>2
  <2>4. from + PageSize = call[c].page * PageSize /\ new.page - 1 = call[c].page
    BY <1>2, <1>4, <2>3
  <2> QED
    BY <1>7, <2>3, <2>4
<1>10. ListedAll(c)'
  <2> SUFFICES ASSUME call[c].swept, ends, NEW r \in queue, rowOf[r] \in ToStop(c)
               PROVE  r \in new.rows
    BY <1>1, <1>5 DEF ListedAll, At, new
  <2>1. ToStop(c) \cap Queued # {}
    BY DEF Queued
  <2>2. Position(r) \in 1 .. n
    BY <1>3
  <2>3. CASE n <= from + PageSize
    BY <1>3, <1>4, <1>7, <2>1, <2>2, <2>3
  <2>4. CASE ~(n <= from + PageSize)
    <3>1. read = from + PageSize
      BY <1>3, <1>4, <1>7, <1>8, <2>1, <2>4
    <3>2. page # {}
      <4>1. from + 1 \in 1 .. n
        BY <1>3, <1>4, <2>4
      <4>2. PICK q \in queue : Place(queue, q) = from + 1
        BY <1>3, <4>1, PlacesTaken
      <4>3. q \in page
        BY <1>3, <1>4, <4>2
      <4> QED
        BY <4>3
    <3>3. call[c].page = LastPage
      BY <1>3, <1>4, <2>4, <3>1, <3>2
    <3>4. from + PageSize = LastPage * PageSize
      BY <1>4, <3>3
    <3> QED
      BY <1>3, <1>4, <2>4, <3>4, BoundsAssumption DEF Fits
  <2> QED
    BY <2>3, <2>4
<1>11. cancelled' \cap (monitored \cup grabs \cup Queued) = {}
  BY <1>2 DEF StopInv, CancelHolds
<1>12. Stops(c)'
  BY <1>6, <1>9, <1>10 DEF Stops
<1> QED
  BY <1>1, <1>2, <1>11, <1>12, OwnStops DEF new

LEMMA PutStops == ASSUME OwnInv, StopInv, NEW c \in Calls, Put(c) PROVE StopInv'
<1> DEFINE whole == PartsOf(call[c].title, All)
<1>1. /\ Scope(c) \subseteq whole
      /\ \/ monitored' = (monitored \ whole) \cup Changed(c)
         \/ monitored' = monitored /\ Changed(c) = call[c].copy
      /\ cancelled' \subseteq cancelled \ (monitored' \ monitored)
      /\ \A d \in Calls \ {c} :
           call'[d] = Idle \/ (Same(d) /\ monitored' \ monitored \subseteq call'[d].excused)
      /\ call'[c] = Idle \/ call[c].kind = "cancel"
  BY PutFacts
<1>2. UNCHANGED <<grabs, queue, rowOf>> /\ At(c, "put")
  BY DEF Put
<1>3. CancelHolds'
  BY <1>1, <1>2 DEF StopInv, CancelHolds, Queued
<1>4. ASSUME NEW d \in Calls \ {c} PROVE Stops(d)'
  <2>1. CASE call'[d] = Idle
    BY <2>1, IdleStops
  <2>2. CASE call'[d] # Idle
    <3>1. /\ Same(d) /\ monitored' \subseteq monitored \cup call'[d].excused
          /\ call[d] \in Call /\ Stops(d)
      BY <1>1, <2>2 DEF OwnInv, TypeOK, StopInv
    <3> QED
      BY <1>2, <3>1, QuietStops
  <2> QED
    BY <2>1, <2>2
<1>5. Stops(c)'
  <2>1. CASE call'[c] = Idle
    BY <2>1, IdleStops
  <2>2. CASE call'[c] # Idle
    <3> DEFINE new == call'[c]
    <3>1. /\ new.pc = "list" /\ new.title = call[c].title /\ new.season = call[c].season
          /\ new.swept = FALSE /\ new.excused = call[c].excused /\ ~call[c].want
      BY <1>1, <2>2, PutGoesOn
    <3> HIDE DEF new
    <3>2. ToStop(c)' = Scope(c) \ call[c].excused
      BY <3>1 DEF ToStop, Scope, new
    <3>3. Changed(c) = call[c].copy \ Scope(c)
      BY <3>1 DEF Changed
    <3>4. monitored \cap whole \subseteq call[c].copy \cup call[c].excused
      BY <1>2 DEF OwnInv, Sound, CopyRight
    <3>5. (Scope(c) \ call[c].excused) \cap monitored' = {}
      BY <1>1, <3>3, <3>4
    <3> QED
      BY <3>1, <3>2, <3>5 DEF Stops, Stopped, Landed, ListedSoFar, ListedAll, At, new
  <2> QED
    BY <2>1, <2>2
<1> QED
  BY <1>3, <1>4, <1>5 DEF StopInv

\* A step of another that removes rows.
LEMMA RemovalStops ==
    ASSUME OwnInv, NEW d \in Calls, Stops(d), NEW rows, queue' = queue \ rows,
           UNCHANGED <<monitored, grabs, rowOf>>, call'[d] = Unsettled(d, rows)
    PROVE  Stops(d)'
<1>1. call[d] \in Call /\ TypeOK /\ Sound(d)
  BY DEF OwnInv, TypeOK
<1>2. /\ Same(d)
      /\ call[d].swept /\ call[d].page > 1 /\ rows \cap queue # {} =>
           Queued \subseteq call'[d].excused
  BY <1>1, UnsettledSame
<1>3. CASE rows \cap queue = {}
  <2>1. queue' = queue
    BY <1>3
  <2> QED
    BY <1>1, <1>2, <2>1, QuietStops
<1>4. CASE rows \cap queue # {}
  <2>1. /\ call'[d].pc = call[d].pc /\ call'[d].swept = call[d].swept
        /\ call'[d].page = call[d].page /\ call'[d].read = call[d].read
        /\ call'[d].rows = call[d].rows
        /\ ToStop(d)' \subseteq ToStop(d) \ call'[d].excused
    BY <1>2 DEF Same, ToStop, Scope
  <2>2. Queued' \subseteq Queued /\ queue' \subseteq queue
    BY DEF Queued
  <2>3. Stopped(d)' /\ Landed(d)' /\ ListedAll(d)'
    BY <2>1, <2>2 DEF Stops, Stopped, Landed, ListedAll, At
  <2>4. ListedSoFar(d)'
    <3> SUFFICES ASSUME call[d].swept, At(d, "list"), ToStop(d)' \cap Queued' # {}
                 PROVE  /\ call[d].read = (call[d].page - 1) * PageSize
                        /\ \A r \in queue' : ~(Position(r)' <= call[d].read)
      BY <2>1 DEF ListedSoFar, At
    <3>1. call[d].page = 1
      <4>1. ~(call[d].page > 1)
        BY <1>2, <1>4, <2>1, <2>2
      <4> QED
        BY <1>1, <4>1, CallFields DEF Sound, Straight
    <3>2. call[d].read = (call[d].page - 1) * PageSize
      BY <2>1, <2>2 DEF Stops, ListedSoFar
    <3>3. call[d].read = 0
      BY <3>1, <3>2, PagesAssumption
    <3>4. \A r \in queue' : Position(r)' \in Nat \ {0}
      <4>1. queue' \in SUBSET Nat /\ IsFiniteSet(queue')
        <5>1. queue \in SUBSET Nat /\ IsFiniteSet(queue)
          BY StandsFacts
        <5> QED
          BY <2>2, <5>1, FS_Subset
      <4>2. \A r \in queue' : Place(queue', r) \in Nat \ {0}
        BY <4>1, Places
      <4> QED
        BY <4>2 DEF Place, Position
    <3> QED
      BY <3>2, <3>3, <3>4
  <2> QED
    BY <2>3, <2>4 DEF Stops
<1> QED
  BY <1>3, <1>4

LEMMA KillStops == ASSUME OwnInv, StopInv, NEW c \in Calls, Kill(c) PROVE StopInv'
<1>1. /\ At(c, "kill") /\ queue' = queue \ call[c].rows
      /\ UNCHANGED <<monitored, grabs, rowOf>>
      /\ \A d \in Calls \ {c} : call'[d] = Unsettled(d, call[c].rows)
  BY KillFacts DEF Kill
<1>2. \A d \in Calls \ {c} : Stops(d)'
  BY <1>1, RemovalStops DEF StopInv
<1>3. CASE call[c].swept
  <2>1. call'[c] = Idle /\ Promise(c)
    BY <1>3, KillFacts
  <2>2. Stops(c)'
    BY <2>1, IdleStops
  <2>3. /\ ToStop(c) \cap monitored = {} /\ ToStop(c) \cap grabs = {}
        /\ \A r \in queue : rowOf[r] \in ToStop(c) => r \in call[c].rows
    BY <1>1, <1>3 DEF StopInv, Stops, Stopped, Landed, ListedAll, At
  <2>4. ToStop(c) \cap {rowOf[r] : r \in queue'} = {} /\ queue' \in SUBSET queue
    BY <1>1, <2>3
  <2>5. cancelled' \cap (monitored \cup grabs \cup {rowOf[r] : r \in queue'}) = {}
    BY <2>1, <2>3, <2>4, PromiseHolds
  <2> QED
    BY <1>1, <1>2, <2>2, <2>5 DEF StopInv, CancelHolds, Queued
<1>4. CASE ~call[c].swept
  <2> DEFINE new == call'[c]
  <2>1. /\ new.pc = "wait" /\ UNCHANGED cancelled
        /\ new.title = call[c].title /\ new.season = call[c].season
        /\ new.excused = call[c].excused
    BY <1>4, KillFacts
  <2> HIDE DEF new
  <2>2. ToStop(c)' = ToStop(c)
    BY <2>1 DEF ToStop, Scope, new
  <2>3. Stops(c)'
    BY <1>1, <2>1, <2>2
       DEF StopInv, Stops, Stopped, Landed, ListedSoFar, ListedAll, At, new
  <2>4. Queued' \subseteq Queued
    BY <1>1 DEF Queued
  <2> QED
    BY <1>1, <1>2, <2>1, <2>3, <2>4 DEF StopInv, CancelHolds
<1> QED
  BY <1>3, <1>4

LEMMA FailsStops == ASSUME OwnInv, StopInv, NEW c \in Calls, Fails(c) PROVE StopInv'
<1>1. PICK rows \in SUBSET call[c].rows :
        /\ queue' = queue \ rows /\ call'[c] = Idle
        /\ \A d \in Calls \ {c} : call'[d] = Unsettled(d, rows)
  BY FailsFacts
<1>2. UNCHANGED <<monitored, grabs, rowOf, cancelled>>
  BY DEF Fails
<1>3. \A d \in Calls \ {c} : Stops(d)'
  BY <1>1, <1>2, RemovalStops DEF StopInv
<1>4. Stops(c)'
  BY <1>1, IdleStops
<1>5. Queued' \subseteq Queued
  BY <1>1, <1>2 DEF Queued
<1> QED
  BY <1>2, <1>3, <1>4, <1>5 DEF StopInv, CancelHolds

LEMMA DepartsStops == ASSUME OwnInv, StopInv, NEW r \in queue, Departs(r) PROVE StopInv'
<1>1. /\ queue' = queue \ {r} /\ \A d \in Calls : call'[d] = Unsettled(d, {r})
      /\ UNCHANGED <<monitored, grabs, rowOf, cancelled>>
  BY DEF Departs
<1>2. \A d \in Calls : Stops(d)'
  BY <1>1, RemovalStops DEF StopInv
<1>3. Queued' \subseteq Queued
  BY <1>1 DEF Queued
<1> QED
  BY <1>1, <1>2, <1>3 DEF StopInv, CancelHolds

LEMMA GrabStops == ASSUME OwnInv, StopInv, NEW p \in Parts, Grab(p) PROVE StopInv'
<1>1. /\ p \in monitored /\ grabs' = grabs \cup {p}
      /\ UNCHANGED <<monitored, queue, rowOf, departures, call, cancelled, begun>>
  BY DEF Grab
<1>2. CancelHolds'
  BY <1>1 DEF StopInv, CancelHolds, Queued
<1>3. ASSUME NEW c \in Calls PROVE Stops(c)'
  <2>1. Stops(c) /\ ToStop(c)' = ToStop(c) /\ Queued' = Queued /\ \A r : Position(r)' = Position(r)
    BY <1>1 DEF StopInv, ToStop, Scope, Queued, Position
  <2>2. Stopped(c)' /\ ListedSoFar(c)' /\ ListedAll(c)'
    BY <1>1, <2>1 DEF Stops, Stopped, ListedSoFar, ListedAll, At
  <2>3. Landed(c)'
    BY <1>1, <2>1 DEF Stops, Stopped, Landed, At
  <2> QED
    BY <2>2, <2>3 DEF Stops
<1> QED
  BY <1>2, <1>3 DEF StopInv

\* What lands goes behind all other rows, and no cancel that lists for the
\* second time is about it.
LEMMA LandsStops == ASSUME OwnInv, StopInv, NEW p \in Parts, Lands(p) PROVE StopInv'
<1> DEFINE n == Len(rowOf) + 1
<1>1. /\ p \in grabs /\ grabs' = grabs \ {p} /\ n \in Nat
      /\ \A i \in Rows : rowOf'[i] = rowOf[i] /\ i < n
      /\ rowOf'[n] = p /\ queue' = queue \cup {n} /\ queue \subseteq Rows
      /\ UNCHANGED <<monitored, call, cancelled>>
  BY LandsFacts DEF OwnInv, TypeOK
<1>2. Queued' = Queued \cup {p}
  BY <1>1 DEF Queued
<1>3. CancelHolds'
  BY <1>1, <1>2 DEF StopInv, CancelHolds
<1>4. \A r \in queue : Position(r)' = Position(r)
  <2>1. ASSUME NEW r \in queue PROVE {q \in queue' : q <= r} = {q \in queue : q <= r}
    <3>1. r < n /\ r \in Nat
      BY <1>1, StandsFacts
    <3>2. ~(n <= r)
      BY <1>1, <3>1
    <3> HIDE DEF n
    <3> QED
      BY <1>1, <3>2
  <2> QED
    BY <2>1 DEF Position
<1>5. ASSUME NEW c \in Calls PROVE Stops(c)'
  <2>1. Stops(c) /\ ToStop(c)' = ToStop(c)
    BY <1>1 DEF StopInv, ToStop, Scope
  <2>2. Stopped(c)' /\ Landed(c)'
    BY <1>1, <2>1 DEF Stops, Stopped, Landed, At
  <2>3. call[c].swept /\ call[c].pc \in {"list", "kill"} => p \notin ToStop(c)
    BY <1>1, <2>1 DEF Stops, Landed
  <2> HIDE DEF n
  <2>4. ListedSoFar(c)'
    BY <1>1, <1>2, <1>4, <2>1, <2>3 DEF Stops, ListedSoFar, At
  <2>5. ListedAll(c)'
    BY <1>1, <2>1, <2>3 DEF Stops, ListedAll, At
  <2> QED
    BY <2>2, <2>4, <2>5 DEF Stops
<1> QED
  BY <1>3, <1>5 DEF StopInv

LEMMA StepStops == OwnInv /\ StopInv /\ Fits /\ [Next]_vars => StopInv'
<1> SUFFICES ASSUME OwnInv, StopInv, Fits, [Next]_vars PROVE StopInv'
  OBVIOUS
<1>1. ASSUME NEW p \in Parts, Grab(p) \/ Lands(p) PROVE StopInv'
  BY <1>1, GrabStops, LandsStops
<1>2. ASSUME NEW r \in queue, Departs(r) PROVE StopInv'
  BY <1>2, DepartsStops
<1>3. ASSUME NEW c \in Calls,
             \/ Begin(c) \/ Locate(c) \/ Read(c) \/ Put(c) \/ List(c)
             \/ Kill(c) \/ Wait(c) \/ Fails(c)
      PROVE  StopInv'
  BY <1>3, BeginStops, LocateStops, ReadStops, PutStops, ListStops, KillStops, WaitStops,
     FailsStops
<1>4. ASSUME UNCHANGED vars PROVE StopInv'
  <2>1. /\ UNCHANGED <<monitored, grabs, queue, rowOf, cancelled, call>>
    BY <1>4 DEF vars, sonarr
  <2>2. \A d \in Calls : Same(d) /\ call[d] \in Call
    BY <2>1 DEF Same, OwnInv, TypeOK
  <2>3. \A d \in Calls : Stops(d)'
    BY <2>1, <2>2, QuietStops DEF StopInv
  <2> QED
    BY <2>1, <2>3 DEF StopInv, CancelHolds, Queued
<1> QED
  BY <1>1, <1>2, <1>3, <1>4 DEF Next

LEMMA InitStops == Init => StopInv
  BY IdleFacts
     DEF Init, StopInv, CancelHolds, Stops, Stopped, Landed, ListedSoFar, ListedAll, At

\* What a request has cancelled is not looked for, on its way or queued until it
\* is resumed, for any number of overlapping requests, as long as the queue fits
\* on the pages read of it (cancel, wholeQueue).
THEOREM CancelStands == ASSUME Fits PROVE Spec => []CancelHolds
<1>1. StopInv => CancelHolds
  BY DEF StopInv
<1>2. OwnInv /\ StopInv /\ [Next]_vars => StopInv'
  BY StepStops
<1> QED
  BY <1>1, <1>2, OwnInvariance, InitStops, PTL DEF Spec

-----------------------------------------------------------------------------
(* The background sweep.                                                   *)

\* Verdicts that are ranked by the age of their answers.
Kept == {given \in UNION {[known -> Nat] : known \in SUBSET Sweep!Works} :
           IsFiniteSet(DOMAIN given) /\ Sweep!Ranked(given)}

Sweeps == [ pc: {"idle", "cut", "films", "series", "queue", "choose", "episode", "release",
                 "save", "rename"},
            titles: SUBSET Sweep!Works, refused: BOOLEAN, downloading: SUBSET Sweep!Works,
            about: SUBSET Sweep!Works, saved: Kept ]

SweepTypes ==
    /\ wanted \cup queued \subseteq Sweep!Works
    /\ verdicts \in Kept /\ file \in Kept
    /\ sweep \in Sweeps

\* What the sweep in progress missed in a listing, found in a queue or could have
\* is in doubt.
Doubted ==
    /\ ~Sweep!Resting => Sweep!NotLive \subseteq doubt /\ sweep.downloading \subseteq doubt
    /\ sweep.pc \in {"series", "queue", "choose"} => Films \ sweep.titles \subseteq doubt
    /\ sweep.pc \in {"queue", "choose"} => Series \ sweep.titles \subseteq doubt

SweepInv == SweepTypes /\ Doubted

\* An instance has a copy of its own of the operators of FiniteSets.
LEMMA CountsAlike == \A S : Sweep!Cardinality(S) = Cardinality(S)
  BY DEF Sweep!Cardinality, Cardinality

LEMMA RankedMeans ==
    ASSUME NEW given
    PROVE  Sweep!Ranked(given) <=>
             /\ given \in [DOMAIN given -> 1 .. Cardinality(DOMAIN given)]
             /\ \A t, u \in DOMAIN given : given[t] = given[u] => t = u
  BY CountsAlike DEF Sweep!Ranked

LEMMA KeptFacts ==
    ASSUME NEW given
    PROVE  given \in Kept <=>
             /\ DOMAIN given \subseteq Sweep!Works /\ IsFiniteSet(DOMAIN given)
             /\ Sweep!Ranked(given)
<1>1. ASSUME given \in Kept
      PROVE  /\ DOMAIN given \subseteq Sweep!Works /\ IsFiniteSet(DOMAIN given)
             /\ Sweep!Ranked(given)
  BY <1>1 DEF Kept
<1>2. ASSUME DOMAIN given \subseteq Sweep!Works, IsFiniteSet(DOMAIN given), Sweep!Ranked(given)
      PROVE  given \in Kept
  <2>1. given \in [DOMAIN given -> 1 .. Cardinality(DOMAIN given)]
    BY <1>2, RankedMeans
  <2>2. Cardinality(DOMAIN given) \in Nat
    BY <1>2, FS_CardinalityType
  <2>3. given \in [DOMAIN given -> Nat]
    BY <2>1, <2>2
  <2> QED
    BY <1>2, <2>3 DEF Kept
<1> QED
  BY <1>1, <1>2

LEMMA NoneKept == Sweep!First({}) \in Kept
<1> DEFINE none == Sweep!First({})
<1>1. DOMAIN none = {} /\ none \in [{} -> 1 .. Cardinality({})]
  BY DEF Sweep!First
<1> HIDE DEF none
<1>2. IsFiniteSet(DOMAIN none) /\ Sweep!Ranked(none)
  <2>1. /\ \A t, u \in DOMAIN none : none[t] = none[u] => t = u
        /\ none \in [DOMAIN none -> 1 .. Cardinality(DOMAIN none)]
    BY <1>1
  <2>2. Sweep!Ranked(none)
    BY <1>1, <2>1, RankedMeans
  <2> QED
    BY <1>1, <2>2, FS_EmptySet
<1> QED
  BY <1>1, <1>2, KeptFacts DEF none

LEMMA OneKept == ASSUME NEW t \in Sweep!Works PROVE Sweep!First({t}) \in Kept
<1> DEFINE one == Sweep!First({t})
<1>1. DOMAIN one = {t} /\ one \in [{t} -> 1 .. 1] /\ \A u \in {t} : u = t
  BY DEF Sweep!First
<1>2. IsFiniteSet({t}) /\ Cardinality({t}) = 1
  BY FS_Singleton
<1> HIDE DEF one
<1>3. Sweep!Ranked(one)
  <2>1. \A u, v \in DOMAIN one : one[u] = one[v] => u = v
    BY <1>1
  <2>2. one \in [DOMAIN one -> 1 .. Cardinality(DOMAIN one)]
    BY <1>1, <1>2
  <2> QED
    BY <1>1, <2>1, <2>2, RankedMeans
<1> QED
  BY <1>1, <1>2, <1>3, KeptFacts DEF one

\* Whatever is left out, the rest is ranked as it was.
LEMMA OnlyKept ==
    ASSUME NEW given \in Kept, NEW titles
    PROVE  /\ Sweep!Only(given, titles) \in Kept
           /\ DOMAIN Sweep!Only(given, titles) = DOMAIN given \cap titles
<1> DEFINE kept == DOMAIN given \cap titles
           before(t) == {u \in kept : given[u] <= given[t]}
           only == Sweep!Only(given, titles)
<1>1. only = [t \in kept |-> Cardinality(before(t))]
  BY CountsAlike DEF Sweep!Only
<1>2. /\ kept \subseteq Sweep!Works /\ IsFiniteSet(kept) /\ Cardinality(kept) \in Nat
      /\ \A t \in kept : given[t] \in Nat
      /\ \A t, u \in kept : given[t] = given[u] => t = u
  <2>1. DOMAIN given \subseteq Sweep!Works /\ IsFiniteSet(DOMAIN given) /\ Sweep!Ranked(given)
    BY KeptFacts
  <2>2. kept \in SUBSET DOMAIN given
    OBVIOUS
  <2>3. IsFiniteSet(kept)
    BY <2>1, <2>2, FS_Subset
  <2> QED
    BY <2>1, <2>2, <2>3, FS_CardinalityType, RankedMeans DEF Kept
<1> HIDE DEF kept, only
<1>3. ASSUME NEW t \in kept
      PROVE  IsFiniteSet(before(t)) /\ Cardinality(before(t)) \in 1 .. Cardinality(kept)
  <2>1. before(t) \in SUBSET kept /\ t \in before(t)
    BY <1>2
  <2>2. IsFiniteSet(before(t)) /\ Cardinality(before(t)) <= Cardinality(kept)
    BY <1>2, <2>1, FS_Subset
  <2>3. Cardinality(before(t)) \in Nat /\ Cardinality(before(t)) # 0
    BY <2>1, <2>2, FS_CardinalityType, FS_EmptySet
  <2> QED
    BY <1>2, <2>2, <2>3
<1>4. ASSUME NEW t \in kept, NEW u \in kept, given[t] < given[u]
      PROVE  Cardinality(before(t)) # Cardinality(before(u))
  <2>1. before(t) \in SUBSET before(u)
    <3>1. ASSUME NEW v \in kept, given[v] <= given[t] PROVE given[v] <= given[u]
      <4>1. given[v] \in Nat /\ given[t] \in Nat /\ given[u] \in Nat
        BY <1>2
      <4> QED
        BY <1>4, <3>1, <4>1
    <3> QED
      BY <3>1
  <2>2. u \in before(u) /\ u \notin before(t)
    BY <1>2, <1>4
  <2> QED
    BY <1>3, <2>1, <2>2, FS_Subset
<1>5. ASSUME NEW t \in kept, NEW u \in kept, Cardinality(before(t)) = Cardinality(before(u))
      PROVE  t = u
  <2>1. ~(given[t] < given[u]) /\ ~(given[u] < given[t])
    BY <1>4, <1>5
  <2>2. given[t] \in Nat /\ given[u] \in Nat
    BY <1>2
  <2> QED
    BY <1>2, <2>1, <2>2
<1>6. DOMAIN only = kept /\ only \in [kept -> 1 .. Cardinality(kept)]
  BY <1>1, <1>3
<1>7. \A t, u \in kept : only[t] = only[u] => t = u
  BY <1>1, <1>5
<1>8. only \in Kept
  <2>1. Sweep!Ranked(only)
    BY <1>6, <1>7, RankedMeans
  <2> QED
    BY <1>2, <1>6, <2>1, KeptFacts
<1> QED
  BY <1>6, <1>8 DEF kept, only

\* A new answer is the last in rank.
LEMMA StampKept ==
    ASSUME verdicts \in Kept, NEW t \in Sweep!Works, Sweep!Stamp(t)
    PROVE  verdicts' \in Kept /\ DOMAIN verdicts' = Sweep!Known \cup {t}
<1> DEFINE others == Sweep!Only(verdicts, Sweep!Known \ {t})
           n == Cardinality(DOMAIN others)
           known == Sweep!Known \cup {t}
<1>1. others \in Kept /\ DOMAIN others = Sweep!Known \ {t}
  BY OnlyKept DEF Sweep!Known
<1> HIDE DEF others
<1>2. /\ DOMAIN others \subseteq Sweep!Works /\ IsFiniteSet(DOMAIN others)
      /\ Sweep!Ranked(others)
  BY <1>1, KeptFacts
<1>3. n \in Nat
  BY <1>2, FS_CardinalityType
<1>4. known = DOMAIN others \cup {t} /\ t \notin DOMAIN others
  BY <1>1
<1>5. IsFiniteSet(known) /\ Cardinality(known) = n + 1
  BY <1>2, <1>4, FS_AddElement
<1>6. /\ verdicts' = [u \in known |-> IF u = t THEN n + 1 ELSE others[u]]
  BY CountsAlike DEF Sweep!Stamp, others
<1> HIDE DEF n, known
<1>7. \A u \in known \ {t} : others[u] \in 1 .. n
  BY <1>2, <1>4, RankedMeans DEF n
<1>8. DOMAIN verdicts' = known /\ verdicts' \in [known -> 1 .. Cardinality(known)]
  BY <1>3, <1>5, <1>6, <1>7
<1>9. \A u, v \in known : verdicts'[u] = verdicts'[v] => u = v
  BY <1>2, <1>3, <1>4, <1>6, <1>7, RankedMeans
<1>10. Sweep!Ranked(verdicts')
  BY <1>8, <1>9, RankedMeans
<1> QED
  BY <1>2, <1>4, <1>5, <1>8, <1>10, KeptFacts DEF known

\* A sweep's fields, and the record an action makes of it.
LEMMA SweepFields ==
    ASSUME NEW w \in Sweeps
    PROVE  /\ w.pc \in {"idle", "cut", "films", "series", "queue", "choose", "episode",
                        "release", "save", "rename"}
           /\ w.titles \in SUBSET Sweep!Works /\ w.refused \in BOOLEAN
           /\ w.downloading \in SUBSET Sweep!Works /\ w.about \in SUBSET Sweep!Works
           /\ w.saved \in Kept
  BY DEF Sweeps

LEMMA RestingFacts ==
    /\ Sweep!Idle \in Sweeps /\ Sweep!Idle.pc = "idle"
    /\ Sweep!Idle.titles = {} /\ Sweep!Idle.downloading = {}
    /\ Sweep!Cut \in Sweeps /\ Sweep!Cut.pc = "cut"
<1>1. /\ Sweep!Idle \in Sweeps /\ Sweep!Idle.pc = "idle"
      /\ Sweep!Idle.titles = {} /\ Sweep!Idle.downloading = {}
  BY NoneKept DEF Sweep!Idle, Sweeps
<1>2. Sweep!Cut \in Sweeps /\ Sweep!Cut.pc = "cut"
  BY <1>1 DEF Sweep!Cut, Sweeps
<1> QED
  BY <1>1, <1>2

LEMMA InitSweep == Sweep!Init => SweepInv
<1> SUFFICES ASSUME Sweep!Init PROVE SweepInv
  OBVIOUS
<1>1. /\ wanted \subseteq Sweep!Works /\ queued = {} /\ verdicts = file /\ sweep = Sweep!Idle
      /\ file \in {Sweep!First({})} \cup {Sweep!First({t}) : t \in Sweep!Works}
  BY DEF Sweep!Init
<1>2. file \in Kept
  BY <1>1, NoneKept, OneKept
<1> QED
  BY <1>1, <1>2, RestingFacts DEF SweepInv, SweepTypes, Doubted, Sweep!Resting, Sweep!At

\* The titles and queues change.
LEMMA WorldSweep == ASSUME SweepInv, Sweep!World PROVE SweepInv'
<1>1. UNCHANGED <<verdicts, file, sweep>>
  BY DEF Sweep!World
<1>2. wanted' \cup queued' \subseteq Sweep!Works
  BY DEF SweepInv, SweepTypes, Sweep!World, Sweep!Wanted, Sweep!Grabbed, Sweep!DownloadFails,
         Sweep!Arrives, Sweep!Changes
<1>3. SweepTypes'
  BY <1>1, <1>2 DEF SweepInv, SweepTypes
<1>4. Doubted'
  <2>1. doubt' = IF Sweep!Resting THEN {}
                 ELSE doubt \cup (Sweep!Works \ wanted') \cup queued'
    BY DEF Sweep!World, Sweep!Notice
  <2>2. CASE Sweep!Resting
    BY <1>1, <2>2 DEF Doubted, Sweep!Resting, Sweep!At
  <2>3. CASE ~Sweep!Resting
    BY <1>1, <2>1, <2>3 DEF SweepInv, Doubted, Sweep!Resting, Sweep!At, Sweep!NotLive
  <2> QED
    BY <2>2, <2>3
<1> QED
  BY <1>3, <1>4 DEF SweepInv

\* A step that leaves the titles and queues alone.
LEMMA SweepStep ==
    ASSUME SweepInv, UNCHANGED <<wanted, queued>>, verdicts' \in Kept, file' \in Kept,
           sweep' \in Sweeps, doubt \subseteq doubt',
           \/ sweep'.pc \in {"idle", "cut"}
           \/ /\ ~Sweep!Resting /\ sweep'.downloading \subseteq doubt'
              /\ sweep'.pc \in {"series", "queue", "choose"} => Films \ sweep'.titles \subseteq doubt'
              /\ sweep'.pc \in {"queue", "choose"} => Series \ sweep'.titles \subseteq doubt'
    PROVE  SweepInv'
<1>1. SweepTypes'
  BY DEF SweepInv, SweepTypes
<1>2. Doubted'
  BY DEF SweepInv, Doubted, Sweep!Resting, Sweep!At, Sweep!NotLive
<1> QED
  BY <1>1, <1>2 DEF SweepInv

LEMMA ForgetSweep ==
    ASSUME SweepInv, NEW t \in Sweep!Works, Sweep!Forget(t)
    PROVE  SweepInv' /\ \A u \in Sweep!Known : u \in Sweep!Known' \/ u \in forgetting \ forgetting'
<1>1. /\ t \in forgetting /\ verdicts' = Sweep!Only(verdicts, Sweep!Known \ {t})
      /\ forgetting' = forgetting \ {t}
      /\ UNCHANGED <<wanted, queued, file, sweep, doubt>>
  BY DEF Sweep!Forget, Sweep!arrs
<1>2. verdicts' \in Kept /\ DOMAIN verdicts' = Sweep!Known \ {t}
  BY <1>1, OnlyKept DEF SweepInv, SweepTypes, Sweep!Known
<1>3. SweepInv'
  BY <1>1, <1>2
     DEF SweepInv, SweepTypes, Doubted, Sweep!Resting, Sweep!At, Sweep!NotLive
<1> QED
  BY <1>1, <1>2, <1>3 DEF Sweep!Known

LEMMA StartSweep == ASSUME SweepInv, Sweep!Start PROVE SweepInv'
<1>1. /\ sweep' = [Sweep!Idle EXCEPT !.pc = "films"] /\ doubt' = Sweep!NotLive
      /\ UNCHANGED <<wanted, queued, verdicts, file>>
  BY DEF Sweep!Start, Sweep!arrs
<1>2. sweep' \in Sweeps /\ sweep'.pc = "films" /\ sweep'.downloading = {}
  BY <1>1, RestingFacts DEF Sweeps
<1> QED
  BY <1>1, <1>2 DEF SweepInv, SweepTypes, Doubted, Sweep!NotLive, Sweep!Resting, Sweep!At

\* What a listing leaves out is not wanted, and so in doubt.
LEMMA ListsSweep ==
    ASSUME SweepInv, Sweep!ListFilms \/ Sweep!ListSeries
    PROVE  SweepInv' /\ UNCHANGED verdicts
<1> DEFINE titles == IF Sweep!At("films") THEN Films ELSE Series
           next == IF Sweep!At("films") THEN "series" ELSE "queue"
           listed == sweep.titles \cup (wanted \cap titles)
<1>1. /\ sweep.pc = "films" \/ sweep.pc = "series"
      /\ sweep' = [sweep EXCEPT !.pc = next, !.titles = listed]
      /\ UNCHANGED <<wanted, queued, verdicts, file, doubt>>
  BY DEF Sweep!ListFilms, Sweep!ListSeries, Sweep!Lists, Sweep!arrs, Sweep!At
<1>2. /\ sweep \in Sweeps /\ verdicts \in Kept /\ file \in Kept
      /\ wanted \subseteq Sweep!Works /\ Doubted
  BY DEF SweepInv, SweepTypes
<1>3. listed \in SUBSET Sweep!Works /\ next \in {"series", "queue"}
  BY <1>2, SweepFields
<1>4. /\ ~Sweep!Resting /\ Films \ wanted \subseteq doubt /\ Series \ wanted \subseteq doubt
      /\ sweep.downloading \subseteq doubt
  BY <1>1, <1>2 DEF Doubted, Sweep!Resting, Sweep!At, Sweep!NotLive, Sweep!Works
<1>5. /\ Films \ listed \subseteq doubt
      /\ next = "queue" => Series \ listed \subseteq doubt
  BY <1>1, <1>2, <1>4 DEF Doubted, Sweep!At
<1> HIDE DEF listed, next
<1>6. /\ sweep' \in Sweeps /\ sweep'.pc = next /\ sweep'.titles = listed
      /\ sweep'.downloading = sweep.downloading
  BY <1>1, <1>2, <1>3 DEF Sweeps
<1> QED
  BY <1>1, <1>2, <1>3, <1>4, <1>5, <1>6, SweepStep

LEMMA RefuseSweep ==
    ASSUME SweepInv, Sweep!RefuseListing
    PROVE  SweepInv' /\ UNCHANGED verdicts
<1> DEFINE titles == IF Sweep!At("films") THEN Films ELSE Series
           next == IF Sweep!At("films") THEN "series" ELSE "queue"
<1>1. /\ sweep.pc = "films" \/ sweep.pc = "series"
      /\ sweep' = [sweep EXCEPT !.pc = next, !.refused = TRUE]
      /\ doubt' = doubt \cup titles
      /\ UNCHANGED <<wanted, queued, verdicts, file>>
  BY DEF Sweep!RefuseListing, Sweep!Refused, Sweep!arrs, Sweep!At
<1>2. sweep \in Sweeps /\ verdicts \in Kept /\ file \in Kept /\ Doubted
  BY DEF SweepInv, SweepTypes
<1>3. next \in {"series", "queue"}
  OBVIOUS
<1>4. ~Sweep!Resting /\ sweep.downloading \subseteq doubt
  BY <1>1, <1>2 DEF Doubted, Sweep!Resting, Sweep!At
<1>5. /\ Films \ sweep.titles \subseteq doubt'
      /\ next = "queue" => Series \ sweep.titles \subseteq doubt'
  BY <1>1, <1>2 DEF Doubted, Sweep!At
<1>6. doubt \subseteq doubt'
  BY <1>1
<1> HIDE DEF next
<1>7. /\ sweep' \in Sweeps /\ sweep'.pc = next /\ sweep'.titles = sweep.titles
      /\ sweep'.downloading = sweep.downloading
  BY <1>1, <1>2, <1>3 DEF Sweeps
<1> QED
  BY <1>1, <1>2, <1>3, <1>4, <1>5, <1>6, <1>7, SweepStep

LEMMA QueueSweep ==
    ASSUME SweepInv, Sweep!SeriesQueue
    PROVE  SweepInv' /\ UNCHANGED verdicts
<1>1. PICK downloading \in {queued \cap Series, {}} :
        sweep' = [sweep EXCEPT !.pc = "choose", !.downloading = downloading]
  BY DEF Sweep!SeriesQueue
<1>2. /\ sweep.pc = "queue" /\ UNCHANGED <<wanted, queued, verdicts, file, doubt>>
      /\ SweepTypes /\ Doubted
  BY DEF Sweep!SeriesQueue, Sweep!At, Sweep!arrs, SweepInv
<1>3. downloading \in SUBSET Sweep!Works /\ downloading \subseteq queued
  BY <1>1, <1>2 DEF SweepTypes
<1>4. /\ sweep' \in Sweeps /\ sweep'.pc = "choose" /\ sweep'.titles = sweep.titles
      /\ sweep'.downloading = downloading
  BY <1>1, <1>2, <1>3 DEF Sweeps, SweepTypes
<1>5. /\ ~Sweep!Resting /\ downloading \subseteq doubt
      /\ Films \ sweep.titles \subseteq doubt /\ Series \ sweep.titles \subseteq doubt
  BY <1>2, <1>3 DEF Doubted, Sweep!Resting, Sweep!At, Sweep!NotLive
<1> QED
  BY <1>2, <1>4, <1>5, SweepStep DEF SweepTypes

\* What the purge forgets was missed in a listing, or its number downloads.
LEMMA ChooseSweep ==
    ASSUME SweepInv, Sweep!Choose
    PROVE  /\ SweepInv'
           /\ \A t \in Sweep!Known \ Sweep!Known' : \E d \in doubt : TmdbId[d] = TmdbId[t]
<1>1. PICK downloading \in {sweep.downloading \cup (queued \cap Films), sweep.downloading} :
        LET live == {t \in sweep.titles : \A d \in downloading : TmdbId[d] # TmdbId[t]}
        IN  /\ Sweep!Purge(live)
            /\ IF live = {} THEN sweep' = Sweep!Idle
               ELSE \E t \in Sweep!Stalest(live) :
                      sweep' = [Sweep!Idle EXCEPT
                                  !.pc = IF t \in Series THEN "episode" ELSE "release",
                                  !.about = {t}]
  BY DEF Sweep!Choose
<1> DEFINE live == {t \in sweep.titles : \A d \in downloading : TmdbId[d] # TmdbId[t]}
<1>2. /\ sweep.pc = "choose" /\ UNCHANGED <<wanted, queued, file, doubt>>
      /\ SweepTypes /\ Doubted /\ sweep.titles \in SUBSET Sweep!Works
  BY SweepFields DEF Sweep!Choose, Sweep!At, Sweep!arrs, SweepInv, SweepTypes
<1>3. verdicts' \in Kept /\ DOMAIN verdicts' = DOMAIN verdicts \cap live
  BY <1>1, <1>2, OnlyKept DEF Sweep!Purge, SweepTypes
<1>4. /\ ~Sweep!Resting /\ downloading \subseteq doubt
      /\ Films \ sweep.titles \subseteq doubt /\ Series \ sweep.titles \subseteq doubt
  BY <1>1, <1>2 DEF Doubted, Sweep!Resting, Sweep!At, Sweep!NotLive
<1>5. sweep' \in Sweeps /\ sweep'.pc \in {"idle", "episode", "release"} /\ sweep'.downloading = {}
  <2>1. CASE live = {}
    BY <1>1, <2>1, RestingFacts
  <2>2. CASE live # {}
    <3>1. PICK t \in Sweep!Stalest(live) :
            sweep' = [Sweep!Idle EXCEPT !.pc = IF t \in Series THEN "episode" ELSE "release",
                                        !.about = {t}]
      BY <1>1, <2>2
    <3>2. t \in Sweep!Works
      BY <1>2, <3>1 DEF Sweep!Stalest
    <3> DEFINE pc == IF t \in Series THEN "episode" ELSE "release"
    <3>3. pc \in {"episode", "release"} /\ sweep' = [Sweep!Idle EXCEPT !.pc = pc, !.about = {t}]
      BY <3>1
    <3> HIDE DEF pc
    <3> QED
      BY <3>2, <3>3, RestingFacts DEF Sweeps
  <2> QED
    BY <2>1, <2>2
<1>6. SweepInv'
  BY <1>2, <1>3, <1>4, <1>5, SweepStep DEF SweepTypes
<1>7. ASSUME NEW t \in DOMAIN verdicts, t \notin live
      PROVE  \E d \in doubt : TmdbId[d] = TmdbId[t]
  <2>1. t \in Sweep!Works
    BY <1>2, KeptFacts DEF SweepTypes
  <2>2. CASE t \in sweep.titles
    BY <1>4, <1>7, <2>2
  <2>3. CASE t \notin sweep.titles
    BY <1>4, <2>1, <2>3 DEF Sweep!Works
  <2> QED
    BY <2>2, <2>3
<1> QED
  BY <1>3, <1>6, <1>7 DEF Sweep!Known

\* From the choice to the end of a sweep the listings are of no account.
LEMMA AnsweringSweep ==
    ASSUME SweepInv, UNCHANGED <<wanted, queued, doubt>>, verdicts' \in Kept, file' \in Kept,
           sweep' \in Sweeps,
           \/ sweep'.pc \in {"idle", "cut"}
           \/ /\ ~Sweep!Resting
              /\ sweep'.pc \in {"release", "save", "rename"} /\ sweep'.downloading \subseteq doubt
    PROVE  SweepInv'
  BY SweepStep

LEMMA EpisodeSweep ==
    ASSUME SweepInv, Sweep!Episode
    PROVE  SweepInv' /\ UNCHANGED verdicts
<1>1. /\ sweep.pc = "episode" /\ sweep' = [sweep EXCEPT !.pc = "release"]
      /\ UNCHANGED <<wanted, queued, verdicts, file, doubt>>
      /\ verdicts \in Kept /\ file \in Kept /\ sweep \in Sweeps /\ Doubted
  BY DEF Sweep!Episode, Sweep!At, Sweep!arrs, SweepInv, SweepTypes
<1>2. sweep' \in Sweeps /\ sweep'.pc = "release" /\ sweep'.downloading = sweep.downloading
  BY <1>1 DEF Sweeps
<1>3. ~Sweep!Resting /\ sweep.downloading \subseteq doubt
  BY <1>1 DEF Doubted, Sweep!Resting, Sweep!At
<1> QED
  BY <1>1, <1>2, <1>3, AnsweringSweep

LEMMA AnsweredSweep ==
    ASSUME SweepInv, NEW t \in Sweep!Works, Sweep!Answered(t)
    PROVE  SweepInv' /\ Sweep!Known \subseteq Sweep!Known'
<1>1. /\ sweep.pc = "release" /\ Sweep!Stamp(t) /\ sweep' = [Sweep!Idle EXCEPT !.pc = "save"]
      /\ UNCHANGED <<wanted, queued, file, doubt>> /\ verdicts \in Kept /\ file \in Kept
  BY DEF Sweep!Answered, Sweep!At, Sweep!arrs, SweepInv, SweepTypes
<1>2. sweep' \in Sweeps /\ sweep'.pc = "save" /\ sweep'.downloading = {}
  BY <1>1, RestingFacts DEF Sweeps
<1>3. verdicts' \in Kept /\ DOMAIN verdicts' = DOMAIN verdicts \cup {t}
  BY <1>1, StampKept DEF Sweep!Known
<1>4. ~Sweep!Resting
  BY <1>1 DEF Sweep!Resting, Sweep!At
<1>5. SweepInv'
  BY <1>1, <1>2, <1>3, <1>4, AnsweringSweep
<1> QED
  BY <1>3, <1>5 DEF Sweep!Known

LEMMA SavingSweep ==
    ASSUME SweepInv, Sweep!Unanswered \/ Sweep!Write \/ Sweep!Rename \/ Sweep!Fails
    PROVE  SweepInv' /\ UNCHANGED verdicts
<1>1. /\ verdicts \in Kept /\ file \in Kept /\ sweep \in Sweeps /\ Doubted
      /\ UNCHANGED <<wanted, queued, verdicts, doubt>>
  BY DEF Sweep!Unanswered, Sweep!Write, Sweep!Rename, Sweep!Fails, Sweep!arrs,
         SweepInv, SweepTypes
<1>2. file' \in Kept
  BY <1>1, SweepFields DEF Sweep!Unanswered, Sweep!Write, Sweep!Rename, Sweep!Fails
<1>3. CASE Sweep!Unanswered \/ Sweep!Rename \/ Sweep!Fails
  <2>1. sweep' \in Sweeps /\ sweep'.pc \in {"idle", "cut"}
    BY <1>3, RestingFacts DEF Sweep!Unanswered, Sweep!Rename, Sweep!Fails
  <2> QED
    BY <1>1, <1>2, <2>1, AnsweringSweep
<1>4. CASE Sweep!Write
  <2>1. sweep.pc = "save" /\ sweep' = [sweep EXCEPT !.pc = "rename", !.saved = verdicts]
    BY <1>4 DEF Sweep!Write, Sweep!At
  <2>2. sweep' \in Sweeps /\ sweep'.pc = "rename" /\ sweep'.downloading = sweep.downloading
    BY <1>1, <2>1 DEF Sweeps
  <2>3. ~Sweep!Resting /\ sweep.downloading \subseteq doubt
    BY <1>1, <2>1 DEF Doubted, Sweep!Resting, Sweep!At
  <2> QED
    BY <1>1, <1>2, <2>2, <2>3, AnsweringSweep
<1> QED
  BY <1>3, <1>4

LEMMA RestartSweep == ASSUME SweepInv, Sweep!Restart PROVE SweepInv'
<1>1. /\ verdicts' = file /\ sweep' = Sweep!Cut /\ file \in Kept
      /\ UNCHANGED <<wanted, queued, file, doubt>>
  BY DEF Sweep!Restart, Sweep!arrs, SweepInv, SweepTypes
<1> QED
  BY <1>1, RestingFacts, AnsweringSweep

\* A step keeps the invariant and forgets only what is gone.
LEMMA StepSweep ==
    ASSUME SweepInv, [Sweep!Next]_(Sweep!vars)
    PROVE  /\ SweepInv'
           /\ \A t \in Sweep!Known \ Sweep!Known' :
                \/ \E d \in doubt : TmdbId[d] = TmdbId[t]
                \/ t \in forgetting \ forgetting' \/ Sweep!Restart
<1> DEFINE Kind == /\ SweepInv'
                   /\ \A t \in Sweep!Known \ Sweep!Known' :
                        \/ \E d \in doubt : TmdbId[d] = TmdbId[t]
                        \/ t \in forgetting \ forgetting' \/ Sweep!Restart
<1>1. ASSUME Sweep!World PROVE Kind
  BY <1>1, WorldSweep DEF Sweep!World, Sweep!Known
<1>2. ASSUME NEW t \in Sweep!Works, Sweep!Forget(t) PROVE Kind
  BY <1>2, ForgetSweep
<1>3. ASSUME NEW t \in Sweep!Works, Sweep!Answered(t) PROVE Kind
  BY <1>3, AnsweredSweep
<1>4. ASSUME Sweep!Start PROVE Kind
  BY <1>4, StartSweep DEF Sweep!Start, Sweep!Known
<1>5. ASSUME \/ Sweep!ListFilms \/ Sweep!ListSeries \/ Sweep!RefuseListing \/ Sweep!SeriesQueue
             \/ Sweep!Episode \/ Sweep!Unanswered \/ Sweep!Write \/ Sweep!Rename \/ Sweep!Fails
      PROVE  Kind
  BY <1>5, ListsSweep, RefuseSweep, QueueSweep, EpisodeSweep, SavingSweep DEF Sweep!Known
<1>6. ASSUME Sweep!Choose PROVE Kind
  BY <1>6, ChooseSweep
<1>7. ASSUME Sweep!Restart PROVE Kind
  BY <1>7, RestartSweep
<1>8. ASSUME UNCHANGED Sweep!vars PROVE Kind
  BY <1>8
     DEF Sweep!vars, Sweep!arrs, SweepInv, SweepTypes, Doubted, Sweep!Resting, Sweep!At,
         Sweep!NotLive, Sweep!Known
<1> HIDE DEF Kind
<1>9. Kind
  BY <1>1, <1>2, <1>3, <1>4, <1>5, <1>6, <1>7, <1>8 DEF Sweep!Next
<1> QED
  BY <1>9 DEF Kind

THEOREM SweepInvariance == Sweep!Spec => []SweepInv
<1>1. SweepInv /\ [Sweep!Next]_(Sweep!vars) => SweepInv'
  BY StepSweep
<1> QED
  BY <1>1, InitSweep, PTL DEF Sweep!Spec

\* The sweep forgets only titles that are gone or downloading, and a request only
\* its own, whatever happens to the titles and queues while it reads them
\* (sweepOne).
THEOREM OnlyGone == Sweep!Spec => OnlyGoneAreForgotten
<1>1. SweepInv /\ [Sweep!Next]_(Sweep!vars) =>
        [\A t \in Sweep!Works :
           t \in Sweep!Known /\ t \notin Sweep!Known' =>
             \/ \E d \in doubt : TmdbId[d] = TmdbId[t]
             \/ t \in forgetting \ forgetting'
             \/ Sweep!Restart]_(Sweep!vars)
  BY StepSweep
<1> QED
  BY <1>1, SweepInvariance, PTL DEF Sweep!Spec, OnlyGoneAreForgotten, Sweep!OnlyGoneAreForgotten

-----------------------------------------------------------------------------

\* Both components keep the types of their variables, and the verdicts kept are
\* ranked without ties, whatever the constants are.
THEOREM TypesKept == Both => []TypesOK
<1>1. OwnInv => TypeOK
  BY DEF OwnInv
<1>2. SweepInv => Sweep!TypeOK
  BY KeptFacts, SweepFields DEF SweepInv, SweepTypes, Sweep!TypeOK, Sweep!Known
<1> QED
  BY <1>1, <1>2, OwnInvariance, SweepInvariance, PTL DEF Both, TypesOK
=============================================================================
