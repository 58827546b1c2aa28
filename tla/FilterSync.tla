----------------------------- MODULE FilterSync -----------------------------
(***************************************************************************)
(* Making Jellyfin hide what the filter store says (jellylab-push):        *)
(* runFilterSync admits one run at a time and goes round again for a       *)
(* request that arrives meanwhile; a pass of it is syncContentFilters,     *)
(* which stamps a marker for each hidden keyword on the titles that carry  *)
(* it and puts each person's markers in their Jellyfin BlockedTags.        *)
(*                                                                         *)
(* The store appears as what hiddenIdsFor makes of it, one keyword set per *)
(* person.  A marker tag is its keyword.  Every await of a pass is a step, *)
(* and each may fail; a Jellyfin write that took effect before its answer  *)
(* was lost is the write followed by the failure.                          *)
(***************************************************************************)
EXTENDS Naturals, FiniteSets

CONSTANTS
    People,         \* Jellyfin users
    Librarian,      \* the first administrator: the library is read as them
    Items,          \* movies and series with a TMDB id
    Keywords,       \* TMDB keyword ids, and the marker of each
    KeywordsOf,     \* the keywords Seerr gives for each item
    HandTags,       \* tags an administrator may block by hand in Jellyfin
    EditsMidRun,    \* whether such an edit may fall inside a run
    MaxSaves        \* bound on how often the store changes

ASSUME LibrarianAssumption == Librarian \in People
ASSUME KeywordsOfAssumption == KeywordsOf \in [Items -> SUBSET Keywords]
ASSUME HandTagsAssumption == HandTags \cap Keywords = {}
ASSUME EditsMidRunAssumption == EditsMidRun \in BOOLEAN
ASSUME MaxSavesAssumption == MaxSaves \in Nat

VARIABLES
    hidden,     \* the store: keywords hidden from each person
    saves,      \* how often it has changed
    library,    \* the items in Jellyfin
    tags,       \* the markers on each item
    blocked,    \* each user's BlockedTags
    byHand,     \* history: the tags last blocked by hand for each user
    cached,     \* items whose keywords are in the keyword cache
    busy,       \* filterSyncBusy
    again,      \* filterSyncAgain
    run         \* the pass in progress

worldVars == <<hidden, saves, library, tags, blocked, byHand, cached>>
vars == <<worldVars, busy, again, run>>

-----------------------------------------------------------------------------
(* A pass.                                                                 *)

PCs == {"idle", "load", "users", "items", "keywords", "stamp", "policies"}

Run == [ pc: PCs,
         wanted: [People -> SUBSET Keywords],               \* byJellyfinId
         users: [People -> SUBSET (Keywords \cup HandTags)], \* jfUsers
         tags: [Items -> SUBSET Keywords],                  \* items, as listed
         lookups: SUBSET Items,   \* titles still to ask Seerr about
         known: SUBSET Items,     \* keywordsOf has an entry
         gone: SUBSET Items,      \* and the entry comes from a 404
         stamps: SUBSET Items,    \* titles still to compare
         policies: SUBSET People, \* users still to compare
         lifted: BOOLEAN,         \* librarianLifted
         librarianHad: SUBSET Keywords ] \* history: the librarian's markers
                                         \* when the pass listed the users

NoRun == [ pc |-> "idle",
           wanted |-> [p \in People |-> {}],
           users |-> [p \in People |-> {}],
           tags |-> [i \in Items |-> {}],
           lookups |-> {}, known |-> {}, gone |-> {}, stamps |-> {}, policies |-> {},
           lifted |-> FALSE, librarianHad |-> {} ]

At(pc) == run.pc = pc

\* The keywords anybody is hidden from.
UnionOf(wanted) == UNION {wanted[p] : p \in People}

\* The keywords a pass goes by for an item: what Seerr gave, and none for a
\* title it answered 404 for.
Told(i) == IF i \in run.known \ run.gone THEN KeywordsOf[i] ELSE {}

\* The markers a pass wants on an item, from the keywords it has found out.
Want(i) == Told(i) \cap UnionOf(run.wanted)

\* Jellyfin hides an item from a user who blocks one of its tags.
Hides(p, i) == tags[i] \cap blocked[p] # {}

Init ==
    /\ hidden = [p \in People |-> {}]
    /\ saves = 0
    /\ library \in SUBSET Items
    /\ tags = [i \in Items |-> {}]
    /\ blocked = [p \in People |-> {}]
    /\ byHand = [p \in People |-> {}]
    /\ cached = {}
    /\ busy = FALSE
    /\ again = FALSE
    /\ run = NoRun

-----------------------------------------------------------------------------
(* runFilterSync.                                                          *)

StartPass ==
    /\ again' = FALSE
    /\ run' = [NoRun EXCEPT !.pc = "load"]

\* A request mid-run is queued.
RequestSync ==
    IF busy THEN again' = TRUE /\ UNCHANGED <<busy, run>>
            ELSE busy' = TRUE /\ StartPass

\* The timer, or an administrator's POST /filters/apply.
Tick ==
    /\ RequestSync
    /\ UNCHANGED worldVars

\* PUT /filters/content/:id - the change is stored and a sync asked for.
Save(p, keywords) ==
    /\ saves < MaxSaves
    /\ saves' = saves + 1
    /\ hidden' = [hidden EXCEPT ![p] = keywords]
    /\ RequestSync
    /\ UNCHANGED <<library, tags, blocked, byHand, cached>>

Leave == busy' = FALSE /\ run' = NoRun /\ UNCHANGED again

Through == At("policies") /\ run.policies = {}

\* The pass is over: go round again if somebody asked meanwhile.
EndPass ==
    /\ Through
    /\ IF again THEN StartPass /\ UNCHANGED busy ELSE Leave
    /\ UNCHANGED worldVars

\* Any await of the pass throws: a store that cannot be read, Jellyfin or the
\* network failing.  The finally block releases the run.
PassFails ==
    /\ busy
    /\ ~At("keywords") /\ ~Through
    /\ Leave
    /\ UNCHANGED worldVars

-----------------------------------------------------------------------------
(* syncContentFilters.                                                     *)

LoadContent ==
    /\ At("load")
    /\ run' = [run EXCEPT !.pc = "users", !.wanted = hidden]
    /\ UNCHANGED <<worldVars, busy, again>>

ListUsers ==
    /\ At("users")
    /\ run' = [run EXCEPT !.pc = "items", !.users = blocked,
                          !.librarianHad = blocked[Librarian] \cap Keywords]
    /\ UNCHANGED <<worldVars, busy, again>>

\* Mutant: Only titles no earlier pass knows are gone through.
ListNewItems ==
    /\ At("items")
    /\ run' = [run EXCEPT
                 !.tags = [i \in Items |-> IF i \in library THEN tags[i] ELSE {}],
                 !.stamps = library \ cached,
                 !.pc = IF UnionOf(run.wanted) = {} THEN "stamp" ELSE "keywords",
                 !.lookups = IF UnionOf(run.wanted) = {} THEN {} ELSE library]
    /\ UNCHANGED <<worldVars, busy, again>>

\* Keywords only matter while somebody is filtered.
ListItems ==
    /\ At("items")
    /\ run' = [run EXCEPT
                 !.tags = [i \in Items |-> IF i \in library THEN tags[i] ELSE {}],
                 !.stamps = library,
                 !.pc = IF UnionOf(run.wanted) = {} THEN "stamp" ELSE "keywords",
                 !.lookups = IF UnionOf(run.wanted) = {} THEN {} ELSE library]
    /\ UNCHANGED <<worldVars, busy, again>>

\* titleKeywords: Seerr gives the keywords, now or remembered from before.
\* What is remembered ages at any time: an entry may be used or asked again.
LookUp(i) ==
    /\ At("keywords")
    /\ i \in run.lookups
    /\ cached' = cached \cup {i}
    /\ run' = [run EXCEPT !.lookups = @ \ {i}, !.known = @ \cup {i}]
    /\ UNCHANGED <<hidden, saves, library, tags, blocked, byHand, busy, again>>

\* Seerr answers 404, now or remembered: the title counts as keyword-free.
LookUpGone(i) ==
    /\ At("keywords")
    /\ i \in run.lookups
    /\ cached' = cached \cup {i}
    /\ run' = [run EXCEPT !.lookups = @ \ {i}, !.known = @ \cup {i}, !.gone = @ \cup {i}]
    /\ UNCHANGED <<hidden, saves, library, tags, blocked, byHand, busy, again>>

\* Seerr fails otherwise on a title that is not in the cache.
LookUpFails(i) ==
    /\ At("keywords")
    /\ i \in run.lookups \ cached
    /\ run' = [run EXCEPT !.lookups = @ \ {i}]
    /\ UNCHANGED <<worldVars, busy, again>>

LookUpsDone ==
    /\ At("keywords")
    /\ run.lookups = {}
    /\ run' = [run EXCEPT !.pc = "stamp"]
    /\ UNCHANGED <<worldVars, busy, again>>

\* Mutant: A failed lookup counts as no keywords.
UndecidedMeansNone(i) == FALSE

\* Keywords unknown: leave the item exactly as it is.
Undecided(i) == UnionOf(run.wanted) # {} /\ i \notin run.known

NeedsStamp(i) == ~Undecided(i) /\ run.tags[i] # Want(i)

SkipItem(i) ==
    /\ At("stamp")
    /\ i \in run.stamps
    /\ ~NeedsStamp(i)
    /\ run' = [run EXCEPT !.stamps = @ \ {i}]
    /\ UNCHANGED <<worldVars, busy, again>>

\* Mutant: The librarian's policy is changed in the pass's copy only.
LiftOnlyTheCopy ==
    /\ At("stamp")
    /\ \E i \in run.stamps : NeedsStamp(i)
    /\ ~run.lifted
    /\ run' = [run EXCEPT !.lifted = TRUE, !.users[Librarian] = @ \ Keywords]
    /\ UNCHANGED <<worldVars, busy, again>>

\* Before the first item that has to be read, the librarian's own markers are
\* taken off, in Jellyfin and in the pass's copy.
LiftLibrarian ==
    /\ At("stamp")
    /\ \E i \in run.stamps : NeedsStamp(i)
    /\ ~run.lifted
    /\ LET keep == run.users[Librarian] \ Keywords IN
         /\ blocked' = IF keep = run.users[Librarian] THEN blocked
                       ELSE [blocked EXCEPT ![Librarian] = keep]
         /\ run' = [run EXCEPT !.lifted = TRUE, !.users[Librarian] = keep]
    /\ UNCHANGED <<hidden, saves, library, tags, byHand, cached, busy, again>>

\* The user-scoped read answers 404 for an item hidden from the librarian.
Readable(i) == ~Hides(Librarian, i)

\* The whole item is sent back with Tags computed from the listing.
Stamp(i) ==
    /\ At("stamp")
    /\ i \in run.stamps
    /\ NeedsStamp(i)
    /\ run.lifted
    /\ Readable(i)
    /\ tags' = [tags EXCEPT ![i] = Want(i)]
    /\ run' = [run EXCEPT !.stamps = @ \ {i}]
    /\ UNCHANGED <<hidden, saves, library, blocked, byHand, cached, busy, again>>

StampsDone ==
    /\ At("stamp")
    /\ run.stamps = {}
    /\ run' = [run EXCEPT !.pc = "policies", !.policies = People]
    /\ UNCHANGED <<worldVars, busy, again>>

\* Mutant: The librarian is left out.
PolicySkipsAdministrators(p) ==
    /\ At("policies")
    /\ p \in run.policies
    /\ blocked' = IF p = Librarian THEN blocked
                  ELSE [blocked EXCEPT ![p] = (run.users[p] \ Keywords) \cup run.wanted[p]]
    /\ run' = [run EXCEPT !.policies = @ \ {p}]
    /\ UNCHANGED <<hidden, saves, library, tags, byHand, cached, busy, again>>

\* Mutant: The whole list is replaced by markers.
PolicyDropsTheRest(p) ==
    /\ At("policies")
    /\ p \in run.policies
    /\ blocked' = [blocked EXCEPT ![p] = run.wanted[p]]
    /\ run' = [run EXCEPT !.policies = @ \ {p}]
    /\ UNCHANGED <<hidden, saves, library, tags, byHand, cached, busy, again>>

\* Only this service's markers are managed; what else the listing had is kept.
Policy(p) ==
    /\ At("policies")
    /\ p \in run.policies
    /\ LET next == (run.users[p] \ Keywords) \cup run.wanted[p] IN
         blocked' = IF next = run.users[p] THEN blocked
                    ELSE [blocked EXCEPT ![p] = next]
    /\ run' = [run EXCEPT !.policies = @ \ {p}]
    /\ UNCHANGED <<hidden, saves, library, tags, byHand, cached, busy, again>>

-----------------------------------------------------------------------------
(* The world around the sync.                                              *)

NewTitle(i) ==
    /\ i \notin library
    /\ library' = library \cup {i}
    /\ UNCHANGED <<hidden, saves, tags, blocked, byHand, cached, busy, again, run>>

\* An administrator changes a person's blocked tags in Jellyfin itself.
EditByHand(p, t) ==
    /\ EditsMidRun \/ ~busy
    /\ t # byHand[p]
    /\ byHand' = [byHand EXCEPT ![p] = t]
    /\ blocked' = [blocked EXCEPT ![p] = (@ \cap Keywords) \cup t]
    /\ UNCHANGED <<hidden, saves, library, tags, cached, busy, again, run>>

\* jellylab-push restarts; the keyword cache keeps what it had saved.
Restart ==
    /\ busy' = FALSE
    /\ again' = FALSE
    /\ run' = NoRun
    /\ \E kept \in SUBSET cached : cached' = kept
    /\ UNCHANGED <<hidden, saves, library, tags, blocked, byHand>>

Next ==
    \/ Tick
    \/ \E p \in People, keywords \in SUBSET Keywords : Save(p, keywords)
    \/ EndPass
    \/ PassFails
    \/ LoadContent
    \/ ListUsers
    \/ ListItems
    \/ \E i \in Items :
         \/ LookUp(i)
         \/ LookUpGone(i)
         \/ LookUpFails(i)
         \/ SkipItem(i)
         \/ Stamp(i)
         \/ NewTitle(i)
    \/ LookUpsDone
    \/ LiftLibrarian
    \/ StampsDone
    \/ \E p \in People : Policy(p)
    \/ \E p \in People, t \in SUBSET HandTags : EditByHand(p, t)
    \/ Restart

Spec == Init /\ [][Next]_vars

\* The next step of a pass other than a failure.
PassStep ==
    \/ LoadContent \/ ListUsers \/ ListItems \/ LookUpsDone \/ LiftLibrarian
    \/ StampsDone \/ EndPass
    \/ \E i \in Items : LookUp(i) \/ LookUpGone(i) \/ SkipItem(i) \/ Stamp(i)
    \/ \E p \in People : Policy(p)

\* Every request the pass makes is answered in the end, and the timer fires
\* every FILTER_SYNC_MS.  For Jellyfin this is assumed: jellyfin() sets no timeout,
\* and a pass left waiting keeps all others from starting.
FairSpec == Spec /\ WF_vars(PassStep) /\ WF_vars(Tick /\ ~busy)

-----------------------------------------------------------------------------
(* Properties.                                                             *)

TypeOK ==
    /\ hidden \in [People -> SUBSET Keywords]
    /\ saves \in 0 .. MaxSaves
    /\ library \in SUBSET Items
    /\ tags \in [Items -> SUBSET Keywords]
    /\ blocked \in [People -> SUBSET (Keywords \cup HandTags)]
    /\ byHand \in [People -> SUBSET HandTags]
    /\ cached \in SUBSET Items
    /\ busy \in BOOLEAN
    /\ again \in BOOLEAN
    /\ run \in Run

\* The pass in progress hides i from p through keyword k, and it is hidden so.
HeldHidden(p, i, k) ==
    k \in run.wanted[p] \cap KeywordsOf[i] \cap tags[i] \cap blocked[p]

\* A pass never uncovers a title it means to hide, not even for a moment and
\* not when a lookup fails: as long as a keyword stays hidden from somebody,
\* whatever else the pass changes, titles stamped with it stay out of sight
\* (syncContentFilters).  Two exceptions, both the code's: the librarian, lifted
\* while stamping, and a title whose lookup ended in a 404, which titleKeywords
\* takes for a title without keywords, so that its markers are cleared.
PassNeverUncovers ==
    [][\A p \in People \ {Librarian}, i \in Items \ run.gone, k \in Keywords :
         busy /\ busy' /\ HeldHidden(p, i, k) => k \in tags'[i] \cap blocked'[p]]_vars

\* A pass that reaches its end has made Jellyfin agree with the store it
\* loaded and with what Seerr said: for every person, the librarian included,
\* every title looked up is hidden exactly if Seerr gave one of their keywords
\* for it.  A title it answered 404 for is shown to everybody.
PassEnforces ==
    Through =>
        \A p \in People :
            /\ blocked[p] \cap Keywords = run.wanted[p]
            /\ \A i \in run.known : Hides(p, i) <=> Told(i) \cap run.wanted[p] # {}

\* Stamping never meets an item hidden from the administrator it reads as:
\* such a read answers 404, and the item could never be stamped or cleared again.
LibrarianCanRead ==
    At("stamp") /\ run.lifted => \A i \in Items : Readable(i)

\* What an administrator blocked by hand is left where it is.
ByHandIsKept == \A p \in People : blocked[p] \ Keywords = byHand[p]

\* A request that found a run in progress is still going to be served.
QueuedIsServed == again => busy

\* A run that stops has given the librarian back the markers it took off.
LibrarianRestored ==
    [][busy /\ ~busy' => run.librarianHad \cap run.wanted[Librarian] \subseteq blocked'[Librarian]]_vars

Enforced ==
    \A p \in People, i \in library : Hides(p, i) <=> KeywordsOf[i] \cap hidden[p] # {}

\* Once the store stops changing, passes get through and every look-up gives
\* the title's keywords, no 404 among them, Jellyfin comes to hide exactly what
\* the store says, new titles included, and stays so.
Converges ==
    <>[][hidden' = hidden /\ (busy /\ ~busy' => Through)
            /\ \A i \in Items : ~LookUpFails(i) /\ ~LookUpGone(i)]_vars
        => <>[]Enforced

=============================================================================
