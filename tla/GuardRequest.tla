---------------------------- MODULE GuardRequest ----------------------------
(***************************************************************************)
(* seerr-guard's handling of a request (guard.mjs): who is asking, what is *)
(* hidden from them, what Seerr answers, and which keywords the titles in  *)
(* that answer carry.  Keywords come from a cache of verdicts; an unknown  *)
(* one is looked up, at most Limit at a time, and the request waits for it *)
(* no longer than its budget.                                              *)
(*                                                                         *)
(* One action is at most one turn of the event loop, so a freed slot goes  *)
(* to the lookup that waited longest before anybody else runs.  Whatever   *)
(* currentStore answers is the store of that moment: how its copy ages is  *)
(* GuardStore's subject.  The guard is enforcing, not in shadow mode, and  *)
(* a title TMDB does not have is one without keywords.                     *)
(***************************************************************************)
EXTENDS Naturals, SequencesExt

CONSTANTS
    Requests,   \* requests in progress
    Users,      \* Seerr accounts
    Managers,   \* those with MANAGE_USERS
    Anonymous,  \* a caller without a session
    Titles,     \* title keys, movie:603
    Keywords,   \* TMDB keyword ids
    KeywordsOf, \* what Seerr's detail endpoint says each title carries
    Unknown,    \* no verdict
    Limit       \* lookups at a time

ASSUME UsersAssumption == Managers \subseteq Users /\ Anonymous \notin Users
ASSUME TitlesAssumption == KeywordsOf \in [Titles -> SUBSET Keywords]
ASSUME FiniteAssumption == IsFiniteSet(Titles)   \* a catalogue is finite
ASSUME UnknownAssumption == \A known \in SUBSET Keywords : known # Unknown
ASSUME LimitAssumption == Limit \in Nat \ {0}

VARIABLES
    filters,    \* hiddenSet of each account in the store
    storeOk,    \* whether the store can be read
    verdicts,   \* the keywords known of each title
    expired,    \* verdicts past their ttl
    fetching,   \* lookups that hold a slot
    waiting,    \* lookups that wait for one, oldest first
    req         \* each request's local state

world == <<filters, storeOk>>
cache == <<verdicts, expired>>
slots == <<fetching, waiting>>
vars == <<world, cache, slots, req>>

-----------------------------------------------------------------------------
(* A request.  A "list" is filtered row by row, a "gate" is refused or     *)
(* passed on by the one title it is about, a "sub" is a gate and then a    *)
(* list, a "detail" names its own keywords.                                *)

Kinds == {"list", "gate", "sub", "detail"}
PCs == {"idle", "new", "known", "upstream", "ask", "waiting", "answered"}

Request == [ pc: PCs,
             kind: Kinds,
             who: Users \cup {Anonymous},
             about: SUBSET Titles,      \* the titles to decide: the one in its
                                        \* path or body, or the rows of Seerr's answer
             hidden: SUBSET Keywords,   \* ctx.hidden
             due: SUBSET Keywords,      \* history: what the store hid from them
             awaits: SUBSET Titles,     \* lookups it is waiting for
             shown: SUBSET Titles ]     \* what the caller got to see

Idle == [ pc |-> "idle", kind |-> "list", who |-> Anonymous,
          about |-> {}, hidden |-> {}, due |-> {}, awaits |-> {}, shown |-> {} ]

Init ==
    /\ filters \in [Users -> SUBSET Keywords]
    /\ storeOk \in BOOLEAN
    /\ verdicts = [t \in Titles |-> Unknown]
    /\ expired = {}
    /\ fetching = {}
    /\ waiting = <<>>
    /\ req = [r \in Requests |-> Idle]

At(r, pc) == req[r].pc = pc

Update(r, new) == req' = [req EXCEPT ![r] = new]

\* The request is over but for what the caller saw.
Answer(r, titles) ==
    [req[r] EXCEPT !.pc = "answered", !.kind = "list", !.about = {}, !.shown = titles]

-----------------------------------------------------------------------------
(* Lookups.                                                                *)

InFlight == fetching \cup ToSet(waiting)

\* limited(): the first ones take the free slots, the others queue up.
StartLookups(titles) ==
    LET free == Limit - Cardinality(fetching)
    IN  \E order \in SetToSeqs(titles) :
          LET n == IF free < Len(order) THEN free ELSE Len(order)
          IN  /\ fetching' = fetching \cup ToSet(SubSeq(order, 1, n))
              /\ waiting' = waiting \o SubSeq(order, n + 1, Len(order))

\* Mutant: Nobody is woken.
ReleaseWakesNobody(t) == fetching' = fetching \ {t} /\ UNCHANGED waiting

\* The slot of t goes to the lookup that waited longest.
Release(t) ==
    IF waiting = <<>>
      THEN fetching' = fetching \ {t} /\ UNCHANGED waiting
      ELSE /\ fetching' = (fetching \ {t}) \cup {Head(waiting)}
           /\ waiting' = Tail(waiting)

\* Those who waited for t go on, whatever became of it.
Settled(t) == req' = [r \in Requests |-> [req[r] EXCEPT !.awaits = @ \ {t}]]

\* Mutant: What is no keyword id is kept too.
RememberJunk(t) ==
    /\ verdicts' = [verdicts EXCEPT ![t] = KeywordsOf[t] \cup {Unknown}]
    /\ expired' = expired \ {t}

Remember(t) ==
    /\ verdicts' = [verdicts EXCEPT ![t] = KeywordsOf[t]]
    /\ expired' = expired \ {t}

LookupAnswers(t) ==
    /\ t \in fetching
    /\ Remember(t)
    /\ Release(t)
    /\ Settled(t)
    /\ UNCHANGED world

\* Seerr fails, does not name keywords, or is not heard of in time; what was
\* known before stays.
LookupFails(t) ==
    /\ t \in fetching
    /\ Release(t)
    /\ Settled(t)
    /\ UNCHANGED <<world, cache>>

Expire(t) ==
    /\ verdicts[t] # Unknown
    /\ expired' = expired \cup {t}
    /\ UNCHANGED <<world, verdicts, slots, req>>

\* verdictOf: an expired verdict is used, and refreshed in the background.
ToRefresh(titles) == (titles \cap expired) \ InFlight

UnknownOf(titles) == {t \in titles : verdicts[t] = Unknown}

\* makeHider: an unchecked title is hidden.
Visible(r, t) == verdicts[t] # Unknown /\ verdicts[t] \cap req[r].hidden = {}

-----------------------------------------------------------------------------
(* handle() and the handlers.                                              *)

Arrive(r, who, kind, about) ==
    /\ At(r, "idle")
    /\ Cardinality(about) = IF kind = "list" THEN 0 ELSE 1
    /\ Update(r, [Idle EXCEPT !.pc = "new", !.who = who, !.kind = kind, !.about = about])
    /\ UNCHANGED <<world, cache, slots>>

\* resolveUser: Seerr says who it is.  An anonymous caller is Seerr's to refuse.
Identify(r) ==
    /\ At(r, "new")
    /\ Update(r, IF req[r].who = Anonymous THEN Answer(r, Titles)
                                           ELSE [req[r] EXCEPT !.pc = "known"])
    /\ UNCHANGED <<world, cache, slots>>

\* Seerr could not say who is asking: 503.
Unidentified(r) ==
    /\ At(r, "new")
    /\ Update(r, Answer(r, {}))
    /\ UNCHANGED <<world, cache, slots>>

\* Without a store a manager is let through and everybody else is refused.
StoreUnavailable(r) ==
    /\ At(r, "known")
    /\ ~storeOk
    /\ Update(r, [Answer(r, IF req[r].who \in Managers THEN Titles ELSE {})
                    EXCEPT !.due = filters[req[r].who]])
    /\ UNCHANGED <<world, cache, slots>>

Unfiltered(r) ==
    /\ At(r, "known")
    /\ storeOk
    /\ filters[req[r].who] = {}
    /\ Update(r, Answer(r, Titles))
    /\ UNCHANGED <<world, cache, slots>>

Filtered(r) ==
    /\ At(r, "known")
    /\ storeOk
    /\ filters[req[r].who] # {}
    /\ Update(r, [req[r] EXCEPT !.hidden = filters[req[r].who],
                                !.due = filters[req[r].who],
                                !.pc = IF req[r].kind \in {"gate", "sub"}
                                         THEN "ask" ELSE "upstream"])
    /\ UNCHANGED <<world, cache, slots>>

\* listResponse: Seerr's answer, with the rows it happens to have.
List(r, rows) ==
    /\ At(r, "upstream")
    /\ req[r].kind = "list"
    /\ Update(r, [req[r] EXCEPT !.pc = "ask", !.about = rows])
    /\ UNCHANGED <<world, cache, slots>>

\* titleResponse: the answer names its own keywords, which are kept for
\* everyone, and is decided from itself.
Detail(r) ==
    /\ At(r, "upstream")
    /\ req[r].kind = "detail"
    /\ \E t \in req[r].about :
         /\ Remember(t)
         /\ Update(r, Answer(r, IF KeywordsOf[t] \cap req[r].hidden = {} THEN {t} ELSE {}))
    /\ UNCHANGED <<world, slots>>

\* A Seerr that no longer sends keywords: decided from the verdict, if any.
DetailWithoutKeywords(r) ==
    /\ At(r, "upstream")
    /\ req[r].kind = "detail"
    /\ StartLookups(ToRefresh(req[r].about))
    /\ Update(r, Answer(r, {t \in req[r].about : Visible(r, t)}))
    /\ UNCHANGED <<world, cache>>

\* Seerr answers with an error, which is relayed.
UpstreamFails(r) ==
    /\ At(r, "upstream")
    /\ Update(r, Answer(r, {}))
    /\ UNCHANGED <<world, cache, slots>>

\* ensureVerdicts and titleHidden: whatever is unknown is looked up, unless
\* that is already under way.
Ask(r) ==
    /\ At(r, "ask")
    /\ Update(r, [req[r] EXCEPT !.pc = "waiting", !.awaits = UnknownOf(req[r].about)])
    /\ StartLookups((UnknownOf(req[r].about) \ InFlight) \cup ToRefresh(req[r].about))
    /\ UNCHANGED <<world, cache>>

\* Mutant: A request waits as long as its lookups take.
BudgetNeverOver(r) == FALSE

\* The lookups go on without the request.
BudgetOver(r) ==
    /\ At(r, "waiting")
    /\ req[r].awaits # {}
    /\ Update(r, [req[r] EXCEPT !.awaits = {}])
    /\ UNCHANGED <<world, cache, slots>>

\* Mutant: What is not known by now is let through.
DecideOpen(r) ==
    /\ At(r, "waiting")
    /\ req[r].awaits = {}
    /\ StartLookups(ToRefresh(req[r].about))
    /\ LET visible == {t \in req[r].about : verdicts[t] = Unknown \/ Visible(r, t)} IN
         Update(r, IF req[r].kind = "sub" /\ visible # {}
                     THEN [req[r] EXCEPT !.pc = "upstream", !.kind = "list", !.about = {}]
                     ELSE Answer(r, visible))
    /\ UNCHANGED <<world, cache>>

Decide(r) ==
    /\ At(r, "waiting")
    /\ req[r].awaits = {}
    /\ StartLookups(ToRefresh(req[r].about))
    /\ LET visible == {t \in req[r].about : Visible(r, t)} IN
         Update(r, IF req[r].kind = "sub" /\ visible # {}
                     THEN [req[r] EXCEPT !.pc = "upstream", !.kind = "list", !.about = {}]
                     ELSE Answer(r, visible))
    /\ UNCHANGED <<world, cache>>

Finish(r) ==
    /\ At(r, "answered")
    /\ Update(r, Idle)
    /\ UNCHANGED <<world, cache, slots>>

-----------------------------------------------------------------------------
FiltersChange ==
    /\ filters' \in [Users -> SUBSET Keywords]
    /\ UNCHANGED <<storeOk, cache, slots, req>>

StoreChanges ==
    /\ storeOk' = ~storeOk
    /\ UNCHANGED <<filters, cache, slots, req>>

\* The guard restarts with the verdicts it had saved.
Restart ==
    /\ \E kept \in SUBSET Titles :
         /\ verdicts' = [t \in Titles |-> IF t \in kept THEN verdicts[t] ELSE Unknown]
         /\ expired' = expired \cap kept
    /\ fetching' = {}
    /\ waiting' = <<>>
    /\ req' = [r \in Requests |-> Idle]
    /\ UNCHANGED world

Next ==
    \/ \E r \in Requests :
         \/ \E who \in Users \cup {Anonymous}, kind \in Kinds, about \in SUBSET Titles :
              Arrive(r, who, kind, about)
         \/ Identify(r)
         \/ Unidentified(r)
         \/ StoreUnavailable(r)
         \/ Unfiltered(r)
         \/ Filtered(r)
         \/ \E rows \in SUBSET Titles : List(r, rows)
         \/ Detail(r)
         \/ DetailWithoutKeywords(r)
         \/ UpstreamFails(r)
         \/ Ask(r)
         \/ BudgetOver(r)
         \/ Decide(r)
         \/ Finish(r)
    \/ \E t \in Titles : LookupAnswers(t) \/ LookupFails(t) \/ Expire(t)
    \/ FiltersChange
    \/ StoreChanges
    \/ Restart

Spec == Init /\ [][Next]_vars

\* What the guard does about a request, other than wait for Seerr's answer to
\* what it forwarded.
RequestStep(r) ==
    \/ Identify(r) \/ Unidentified(r) \/ StoreUnavailable(r) \/ Unfiltered(r) \/ Filtered(r)
    \/ Ask(r) \/ BudgetOver(r) \/ Decide(r)

\* Asking who is there has a timeout, and so has the wait for lookups: the
\* budget.  fetchUpstream has none, so nothing is assumed of List, Detail,
\* DetailWithoutKeywords and UpstreamFails, nor of the lookups.
Fairness == \A r \in Requests : WF_vars(RequestStep(r))

FairSpec == Spec /\ Fairness

-----------------------------------------------------------------------------
(* Properties.                                                             *)

TypeOK ==
    /\ filters \in [Users -> SUBSET Keywords]
    /\ storeOk \in BOOLEAN
    /\ verdicts \in [Titles -> {Unknown} \cup SUBSET Keywords]
    /\ expired \in SUBSET Titles
    /\ fetching \in SUBSET Titles
    /\ waiting \in Seq(Titles)
    /\ req \in [Requests -> Request]

\* Nobody is shown a title that carries a keyword the store hid from them when
\* it was asked: not while the title is unchecked, not when a lookup fails or
\* comes too late, not when Seerr cannot say who is asking.  A manager may be,
\* while there is no store to ask (handle and the handlers).
NothingHiddenIsShown ==
    \A r \in Requests :
        At(r, "answered") /\ req[r].who \in Users =>
            \/ \A t \in req[r].shown : KeywordsOf[t] \cap req[r].due = {}
            \/ req[r].who \in Managers /\ req[r].hidden = {}

\* The limiter keeps its books: a title is looked up once at a time, never more
\* than Limit are, none waits while a slot is free, and no request waits for a
\* lookup that is not under way (limited, lookup).
SlotsAccounted ==
    /\ IsInjective(waiting)
    /\ ToSet(waiting) \cap fetching = {}
    /\ Cardinality(fetching) <= Limit
    /\ waiting # <<>> => Cardinality(fetching) = Limit
    /\ \A r \in Requests : req[r].awaits \subseteq InFlight

\* Every request is answered, however long its lookups hang (ensureVerdicts,
\* titleHidden), unless the guard restarts or Seerr never answers what the guard
\* forwarded to it for this request, which is the one wait without a timeout
\* (fetchUpstream).
EveryRequestIsAnswered ==
    \A r \in Requests :
        At(r, "new") ~> At(r, "answered") \/ At(r, "idle") \/ []At(r, "upstream")

LookupsEnd == \A t \in Titles : WF_vars(LookupAnswers(t) \/ LookupFails(t))

\* A lookup that has to wait for a slot gets one, since every lookup has a
\* timeout, though none need ever succeed (limited, lookup).
QueuedGetsASlot ==
    LookupsEnd => \A t \in Titles : t \in ToSet(waiting) ~> t \notin ToSet(waiting)

=============================================================================
