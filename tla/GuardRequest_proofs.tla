------------------------- MODULE GuardRequest_proofs -------------------------
(***************************************************************************)
(* Proofs about GuardRequest, for any accounts, titles, keywords, limit    *)
(* and number of requests in progress.  What is shown depends on the       *)
(* verdicts alone, so its invariant says nothing of the limiter; the       *)
(* limiter's books come after, with an invariant of their own.             *)
(***************************************************************************)
EXTENDS GuardRequest, FiniteSetTheorems, SequenceTheorems, TLAPS

RequestTypes ==
    /\ filters \in [Users -> SUBSET Keywords]
    /\ verdicts \in [Titles -> {Unknown} \cup SUBSET Keywords]
    /\ req \in [Requests -> Request]

\* A verdict is what the title carries.
VerdictsRight == \A t \in Titles : verdicts[t] # Unknown => verdicts[t] = KeywordsOf[t]

\* A request being filtered is filtered by what the store hid from its caller.
SnapshotRight(w) ==
    w.pc \in {"upstream", "ask", "waiting"} => w.hidden = w.due

ShownRight(w) ==
    w.pc = "answered" /\ w.who \in Users =>
        \/ \A t \in w.shown : KeywordsOf[t] \cap w.due = {}
        \/ w.who \in Managers /\ w.hidden = {}

\* Nothing is hidden from a caller whose filter has not been asked for.
FreshRight(w) == w.pc \in {"new", "known"} => w.hidden = {} /\ w.due = {}

\* Whoever gets past resolveUser has an account.
KnownRight(w) == w.pc = "known" => w.who \in Users

RequestRight(w) == SnapshotRight(w) /\ ShownRight(w) /\ FreshRight(w) /\ KnownRight(w)

Inv == RequestTypes /\ VerdictsRight /\ \A r \in Requests : RequestRight(req[r])

-----------------------------------------------------------------------------
LEMMA IdleRight == Idle \in Request /\ RequestRight(Idle)
  BY UsersAssumption
     DEF Idle, Request, PCs, Kinds, RequestRight, SnapshotRight, ShownRight, FreshRight, KnownRight

LEMMA AnswerType ==
    ASSUME NEW r \in Requests, req[r] \in Request, NEW titles \in SUBSET Titles
    PROVE  /\ Answer(r, titles) \in Request
           /\ Answer(r, titles).pc = "answered"
           /\ Answer(r, titles).shown = titles
           /\ Answer(r, titles).who = req[r].who
           /\ Answer(r, titles).due = req[r].due
           /\ Answer(r, titles).hidden = req[r].hidden
  BY DEF Answer, Request, PCs, Kinds

LEMMA InitInv == Init => Inv
<1> SUFFICES ASSUME Init PROVE Inv
  OBVIOUS
<1>1. RequestTypes
  BY IdleRight DEF Init, RequestTypes
<1>2. VerdictsRight
  BY DEF Init, VerdictsRight
<1> QED
  BY <1>1, <1>2, IdleRight DEF Init, Inv

\* A step of one request, from what it leaves in that request's record.
LEMMA RequestMoves ==
    ASSUME Inv, NEW r \in Requests, NEW new \in Request, Update(r, new),
           RequestRight(new), UNCHANGED filters,
           verdicts' \in [Titles -> {Unknown} \cup SUBSET Keywords], VerdictsRight'
    PROVE  Inv'
<1>1. RequestTypes'
  BY DEF Inv, RequestTypes, Update
<1>2. ASSUME NEW q \in Requests PROVE RequestRight(req'[q])
  <2>1. CASE q = r
    BY <2>1 DEF Update, Inv, RequestTypes
  <2>2. CASE q # r
    <3>1. req'[q] = req[q]
      BY <2>2 DEF Update, Inv, RequestTypes
    <3> QED
      BY <3>1 DEF Inv
  <2> QED
    BY <2>1, <2>2
<1> QED
  BY <1>1, <1>2 DEF Inv

\* The same when the verdicts stay as they are.
LEMMA RequestMovesOnly ==
    ASSUME Inv, NEW r \in Requests, NEW new \in Request, Update(r, new),
           RequestRight(new), UNCHANGED <<filters, verdicts>>
    PROVE  Inv'
<1>1. VerdictsRight' /\ verdicts' \in [Titles -> {Unknown} \cup SUBSET Keywords]
  BY DEF Inv, VerdictsRight, RequestTypes
<1> QED
  BY <1>1, RequestMoves

LEMMA RememberRight ==
    ASSUME Inv, NEW t \in Titles, Remember(t)
    PROVE  /\ VerdictsRight'
           /\ verdicts' \in [Titles -> {Unknown} \cup SUBSET Keywords]
  BY TitlesAssumption DEF Remember, Inv, RequestTypes, VerdictsRight

\* A lookup that ends changes no request but for what it waits for.
LEMMA SettledRight ==
    ASSUME Inv, NEW t \in Titles, Settled(t)
    PROVE  req' \in [Requests -> Request] /\ \A r \in Requests : RequestRight(req'[r])
<1> SUFFICES ASSUME NEW r \in Requests
             PROVE  req'[r] \in Request /\ RequestRight(req'[r])
  BY DEF Settled
<1>1. req'[r] = [req[r] EXCEPT !.awaits = req[r].awaits \ {t}]
  BY DEF Settled
<1>2. req[r] \in Request /\ RequestRight(req[r])
  BY DEF Inv, RequestTypes
<1>3. req'[r] \in Request
  BY <1>1, <1>2 DEF Request
<1>4. /\ req'[r].pc = req[r].pc /\ req'[r].who = req[r].who /\ req'[r].due = req[r].due
      /\ req'[r].hidden = req[r].hidden /\ req'[r].shown = req[r].shown
  BY <1>1, <1>2 DEF Request
<1> QED
  BY <1>2, <1>3, <1>4 DEF RequestRight, SnapshotRight, ShownRight, FreshRight, KnownRight

\* Visible titles carry nothing that is hidden from the caller.
LEMMA VisibleRight ==
    ASSUME Inv, NEW r \in Requests, NEW t \in Titles, Visible(r, t)
    PROVE  KeywordsOf[t] \cap req[r].hidden = {}
  BY DEF Inv, VerdictsRight, Visible

\* Answering a request that is being filtered with titles fit for it.
LEMMA AnswerRight ==
    ASSUME Inv, NEW r \in Requests, NEW titles \in SUBSET Titles,
           At(r, "upstream") \/ At(r, "waiting"),
           \A t \in titles : KeywordsOf[t] \cap req[r].hidden = {}
    PROVE  Answer(r, titles) \in Request /\ RequestRight(Answer(r, titles))
<1>1. req[r] \in Request /\ req[r].hidden = req[r].due
  BY DEF Inv, RequestTypes, RequestRight, SnapshotRight, At
<1> QED
  BY <1>1, AnswerType DEF RequestRight, SnapshotRight, ShownRight, FreshRight, KnownRight

-----------------------------------------------------------------------------
(* The steps, grouped by what they touch.                                  *)

LEMMA IdentifyInv ==
    ASSUME Inv, NEW r \in Requests, Identify(r) \/ Unidentified(r)
    PROVE  Inv'
<1>0. /\ req[r] \in Request /\ RequestRight(req[r]) /\ req[r].pc = "new"
      /\ UNCHANGED <<filters, verdicts>>
  BY DEF Inv, RequestTypes, Identify, Unidentified, At, world, cache
<1>1. CASE Identify(r) /\ req[r].who = Anonymous
  <2> DEFINE new == Answer(r, Titles)
  <2>1. new \in Request /\ RequestRight(new)
    BY <1>0, <1>1, AnswerType, UsersAssumption
       DEF RequestRight, SnapshotRight, ShownRight, FreshRight, KnownRight
  <2>2. Update(r, new)
    BY <1>1 DEF Identify
  <2> QED
    BY <1>0, <2>1, <2>2, RequestMovesOnly
<1>2. CASE Identify(r) /\ req[r].who # Anonymous
  <2> DEFINE new == [req[r] EXCEPT !.pc = "known"]
  <2>1. new \in Request /\ RequestRight(new)
    <3>1. req[r].who \in Users
      BY <1>0, <1>2 DEF Request
    <3>2. new \in Request
      BY <1>0 DEF Request, PCs
    <3>3. /\ new.pc = "known" /\ new.who = req[r].who
          /\ new.hidden = req[r].hidden /\ new.due = req[r].due
      BY <1>0 DEF Request
    <3> QED
      BY <1>0, <3>1, <3>2, <3>3
         DEF RequestRight, SnapshotRight, ShownRight, FreshRight, KnownRight
  <2>2. Update(r, new)
    BY <1>2 DEF Identify
  <2> QED
    BY <1>0, <2>1, <2>2, RequestMovesOnly
<1>3. CASE Unidentified(r)
  <2> DEFINE new == Answer(r, {})
  <2>1. new \in Request /\ RequestRight(new)
    BY <1>0, AnswerType
       DEF RequestRight, SnapshotRight, ShownRight, FreshRight, KnownRight
  <2>2. Update(r, new)
    BY <1>3 DEF Unidentified
  <2> QED
    BY <1>0, <2>1, <2>2, RequestMovesOnly
<1> QED
  BY <1>1, <1>2, <1>3

\* Without a store.
LEMMA StoreUnavailableInv ==
    ASSUME Inv, NEW r \in Requests, StoreUnavailable(r)
    PROVE  Inv'
<1> DEFINE titles == IF req[r].who \in Managers THEN Titles ELSE {}
           answer == Answer(r, titles)
           new == [answer EXCEPT !.due = filters[req[r].who]]
<1>0. /\ req[r] \in Request /\ RequestRight(req[r]) /\ req[r].pc = "known"
      /\ UNCHANGED <<filters, verdicts>> /\ Update(r, new)
  BY DEF Inv, RequestTypes, StoreUnavailable, At, world, cache
<1>1. /\ answer \in Request /\ answer.pc = "answered" /\ answer.shown = titles
      /\ answer.who = req[r].who /\ answer.hidden = {}
  BY <1>0, AnswerType DEF RequestRight, FreshRight
<1>2. filters[req[r].who] \in SUBSET Keywords
  BY <1>0 DEF Inv, RequestTypes, RequestRight, KnownRight
<1> HIDE DEF answer
<1>3. new \in Request
  BY <1>1, <1>2 DEF Request
<1>4. /\ new.pc = "answered" /\ new.shown = titles
      /\ new.who = req[r].who /\ new.hidden = {}
  BY <1>1 DEF Request
<1> HIDE DEF new
<1>5. RequestRight(new)
  BY <1>4 DEF RequestRight, SnapshotRight, ShownRight, FreshRight, KnownRight
<1> QED
  BY <1>0, <1>3, <1>5, RequestMovesOnly

\* With one: the caller's filter is taken from it.
LEMMA FilteredInv ==
    ASSUME Inv, NEW r \in Requests, Unfiltered(r) \/ Filtered(r)
    PROVE  Inv'
<1>0. /\ req[r] \in Request /\ RequestRight(req[r]) /\ req[r].pc = "known"
      /\ UNCHANGED <<filters, verdicts>>
  BY DEF Inv, RequestTypes, Unfiltered, Filtered, At, world, cache
<1>1. CASE Unfiltered(r)
  <2> DEFINE new == Answer(r, Titles)
  <2>1. new \in Request /\ RequestRight(new)
    BY <1>0, AnswerType DEF RequestRight, SnapshotRight, ShownRight, FreshRight, KnownRight
  <2>2. Update(r, new)
    BY <1>1 DEF Unfiltered
  <2> QED
    BY <1>0, <2>1, <2>2, RequestMovesOnly
<1>2. CASE Filtered(r)
  <2> DEFINE next == IF req[r].kind \in {"gate", "sub"} THEN "ask" ELSE "upstream"
             mine == filters[req[r].who]
             new == [req[r] EXCEPT !.hidden = mine, !.due = mine, !.pc = next]
  <2>1. mine \in SUBSET Keywords
    BY <1>0 DEF Inv, RequestTypes, RequestRight, KnownRight
  <2>2. next \in {"ask", "upstream"}
    OBVIOUS
  <2>3. Update(r, new)
    BY <1>2 DEF Filtered
  <2> HIDE DEF next, mine
  <2>4. new \in Request
    BY <1>0, <2>1, <2>2 DEF Request, PCs
  <2>5. new.pc = next /\ new.hidden = mine /\ new.due = mine
    BY <1>0 DEF Request
  <2> HIDE DEF new
  <2>6. RequestRight(new)
    BY <2>2, <2>5 DEF RequestRight, SnapshotRight, ShownRight, FreshRight, KnownRight
  <2> QED
    BY <1>0, <2>3, <2>4, <2>6, RequestMovesOnly
<1> QED
  BY <1>1, <1>2

\* A request being filtered stays so, whatever it is to decide or waits for.
LEMMA StaysFiltered ==
    ASSUME Inv, NEW r \in Requests, NEW new \in Request,
           req[r].pc \in {"upstream", "ask", "waiting"},
           new.pc \in {"upstream", "ask", "waiting"},
           new.hidden = req[r].hidden, new.due = req[r].due
    PROVE  RequestRight(new)
  BY DEF Inv, RequestRight, SnapshotRight, ShownRight, FreshRight, KnownRight

\* Seerr's answer to a title's page.
LEMMA DetailInv ==
    ASSUME Inv, NEW r \in Requests, Detail(r) \/ DetailWithoutKeywords(r)
    PROVE  Inv'
<1>0. /\ req[r] \in Request /\ At(r, "upstream") /\ UNCHANGED filters
      /\ verdicts \in [Titles -> {Unknown} \cup SUBSET Keywords] /\ VerdictsRight
  BY DEF Inv, RequestTypes, Detail, DetailWithoutKeywords, world
<1>1. req[r].about \in SUBSET Titles
  BY <1>0 DEF Request
<1>2. CASE Detail(r)
  <2>1. PICK t \in req[r].about :
          /\ Remember(t)
          /\ Update(r, Answer(r, IF KeywordsOf[t] \cap req[r].hidden = {} THEN {t} ELSE {}))
    BY <1>2 DEF Detail
  <2> DEFINE titles == IF KeywordsOf[t] \cap req[r].hidden = {} THEN {t} ELSE {}
             new == Answer(r, titles)
  <2>2. t \in Titles /\ titles \in SUBSET Titles
    BY <1>1
  <2>3. \A u \in titles : KeywordsOf[u] \cap req[r].hidden = {}
    OBVIOUS
  <2>4. Update(r, new)
    BY <2>1
  <2> HIDE DEF titles
  <2>5. new \in Request /\ RequestRight(new)
    BY <1>0, <2>2, <2>3, AnswerRight
  <2>6. VerdictsRight' /\ verdicts' \in [Titles -> {Unknown} \cup SUBSET Keywords]
    BY <2>1, <2>2, RememberRight
  <2> QED
    BY <1>0, <2>4, <2>5, <2>6, RequestMoves
<1>3. CASE DetailWithoutKeywords(r)
  <2> DEFINE titles == {t \in req[r].about : Visible(r, t)}
             new == Answer(r, titles)
  <2>1. titles \in SUBSET Titles /\ \A u \in titles : KeywordsOf[u] \cap req[r].hidden = {}
    BY <1>1, VisibleRight
  <2>2. Update(r, new) /\ UNCHANGED verdicts
    BY <1>3 DEF DetailWithoutKeywords, cache
  <2> HIDE DEF titles
  <2>3. new \in Request /\ RequestRight(new)
    BY <1>0, <2>1, AnswerRight
  <2> QED
    BY <1>0, <2>2, <2>3, RequestMovesOnly
<1> QED
  BY <1>2, <1>3

\* Seerr's answer to anything else.
LEMMA UpstreamInv ==
    ASSUME Inv, NEW r \in Requests,
           UpstreamFails(r) \/ \E rows \in SUBSET Titles : List(r, rows)
    PROVE  Inv'
<1>0. /\ req[r] \in Request /\ At(r, "upstream") /\ req[r].pc = "upstream"
      /\ UNCHANGED <<filters, verdicts>>
  BY DEF Inv, RequestTypes, UpstreamFails, List, At, world, cache
<1>1. CASE UpstreamFails(r)
  <2>1. Update(r, Answer(r, {}))
    BY <1>1 DEF UpstreamFails
  <2>2. Answer(r, {}) \in Request /\ RequestRight(Answer(r, {}))
    BY <1>0, AnswerRight
  <2> QED
    BY <1>0, <2>1, <2>2, RequestMovesOnly
<1>2. ASSUME NEW rows \in SUBSET Titles, List(r, rows) PROVE Inv'
  <2> DEFINE new == [req[r] EXCEPT !.pc = "ask", !.about = rows]
  <2>1. new \in Request
    BY <1>0 DEF Request, PCs
  <2>2. new.pc = "ask" /\ new.hidden = req[r].hidden /\ new.due = req[r].due
    BY <1>0 DEF Request
  <2>3. Update(r, new)
    BY <1>2 DEF List
  <2> HIDE DEF new
  <2>4. RequestRight(new)
    BY <1>0, <2>1, <2>2, StaysFiltered
  <2> QED
    BY <1>0, <2>1, <2>3, <2>4, RequestMovesOnly
<1> QED
  BY <1>1, <1>2

\* Waiting for verdicts, for as long as it takes or the budget lasts.
LEMMA WaitInv ==
    ASSUME Inv, NEW r \in Requests, Ask(r) \/ BudgetOver(r)
    PROVE  Inv'
<1>0. /\ req[r] \in Request /\ req[r].pc \in {"ask", "waiting"}
      /\ UNCHANGED <<filters, verdicts>>
  BY DEF Inv, RequestTypes, Ask, BudgetOver, At, world, cache
<1>1. CASE Ask(r)
  <2> DEFINE unknown == UnknownOf(req[r].about)
             new == [req[r] EXCEPT !.pc = "waiting", !.awaits = unknown]
  <2>1. unknown \in SUBSET Titles
    BY <1>0 DEF UnknownOf, Request
  <2>2. Update(r, new)
    BY <1>1 DEF Ask
  <2> HIDE DEF unknown
  <2>3. new \in Request
    BY <1>0, <2>1 DEF Request, PCs
  <2>4. new.pc = "waiting" /\ new.hidden = req[r].hidden /\ new.due = req[r].due
    BY <1>0 DEF Request
  <2> HIDE DEF new
  <2>5. RequestRight(new)
    BY <1>0, <2>3, <2>4, StaysFiltered
  <2> QED
    BY <1>0, <2>2, <2>3, <2>5, RequestMovesOnly
<1>2. CASE BudgetOver(r)
  <2> DEFINE new == [req[r] EXCEPT !.awaits = {}]
  <2>1. new \in Request
    BY <1>0 DEF Request
  <2>2. new.pc = req[r].pc /\ new.hidden = req[r].hidden /\ new.due = req[r].due
    BY <1>0 DEF Request
  <2>3. Update(r, new)
    BY <1>2 DEF BudgetOver
  <2> HIDE DEF new
  <2>4. RequestRight(new)
    BY <1>0, <2>1, <2>2, StaysFiltered
  <2> QED
    BY <1>0, <2>1, <2>3, <2>4, RequestMovesOnly
<1> QED
  BY <1>1, <1>2

\* The decision itself: only visible titles are shown, and a gate that lets the
\* request pass leaves it being filtered.
LEMMA DecideInv ==
    ASSUME Inv, NEW r \in Requests, Decide(r)
    PROVE  Inv'
<1> DEFINE visible == {t \in req[r].about : Visible(r, t)}
           passed == [req[r] EXCEPT !.pc = "upstream", !.kind = "list", !.about = {}]
           goes == req[r].kind = "sub" /\ visible # {}
<1>0. /\ req[r] \in Request /\ At(r, "waiting") /\ req[r].pc = "waiting"
      /\ UNCHANGED <<filters, verdicts>>
      /\ Update(r, IF goes THEN passed ELSE Answer(r, visible))
  BY DEF Inv, RequestTypes, Decide, At, world, cache
<1>1. CASE goes
  <2>1. passed \in Request
    BY <1>0 DEF Request, PCs, Kinds
  <2>2. passed.pc = "upstream" /\ passed.hidden = req[r].hidden /\ passed.due = req[r].due
    BY <1>0 DEF Request
  <2>3. Update(r, passed)
    BY <1>0, <1>1
  <2> HIDE DEF passed
  <2>4. RequestRight(passed)
    BY <1>0, <2>1, <2>2, StaysFiltered
  <2> QED
    BY <1>0, <2>1, <2>3, <2>4, RequestMovesOnly
<1>2. CASE ~goes
  <2>1. visible \in SUBSET Titles /\ \A t \in visible : KeywordsOf[t] \cap req[r].hidden = {}
    BY <1>0, VisibleRight DEF Request
  <2>2. Update(r, Answer(r, visible))
    BY <1>0, <1>2
  <2> HIDE DEF visible
  <2>3. Answer(r, visible) \in Request /\ RequestRight(Answer(r, visible))
    BY <1>0, <2>1, AnswerRight
  <2> QED
    BY <1>0, <2>2, <2>3, RequestMovesOnly
<1> QED
  BY <1>1, <1>2

\* A request comes, and goes.
LEMMA ComeAndGoInv ==
    ASSUME Inv, NEW r \in Requests, NEW who \in Users \cup {Anonymous}, NEW kind \in Kinds,
           NEW about \in SUBSET Titles, Arrive(r, who, kind, about) \/ Finish(r)
    PROVE  Inv'
<1>0. UNCHANGED <<filters, verdicts>>
  BY DEF Arrive, Finish, world, cache
<1>1. CASE Arrive(r, who, kind, about)
  <2> DEFINE new == [Idle EXCEPT !.pc = "new", !.who = who, !.kind = kind, !.about = about]
  <2>1. new \in Request
    BY IdleRight DEF Request, PCs
  <2>2. new.pc = "new" /\ new.hidden = {} /\ new.due = {}
    BY DEF Idle
  <2>3. Update(r, new)
    BY <1>1 DEF Arrive
  <2> HIDE DEF new
  <2>4. RequestRight(new)
    BY <2>2 DEF RequestRight, SnapshotRight, ShownRight, FreshRight, KnownRight
  <2> QED
    BY <1>0, <2>1, <2>3, <2>4, RequestMovesOnly
<1>2. CASE Finish(r)
  BY <1>0, <1>2, IdleRight, RequestMovesOnly DEF Finish
<1> QED
  BY <1>1, <1>2

LEMMA LookupInv ==
    ASSUME Inv, NEW t \in Titles, LookupAnswers(t) \/ LookupFails(t) \/ Expire(t)
    PROVE  Inv'
<1>0. UNCHANGED filters
  BY DEF LookupAnswers, LookupFails, Expire, world
<1>1. CASE LookupAnswers(t)
  BY <1>0, <1>1, RememberRight, SettledRight DEF LookupAnswers, Inv, RequestTypes
<1>2. CASE LookupFails(t)
  BY <1>0, <1>2, SettledRight DEF LookupFails, cache, Inv, RequestTypes, VerdictsRight
<1>3. CASE Expire(t)
  BY <1>0, <1>3 DEF Expire, Inv, RequestTypes, VerdictsRight
<1> QED
  BY <1>1, <1>2, <1>3

\* A restart keeps some verdicts and no request.
LEMMA RestartInv ==
    ASSUME Inv, Restart
    PROVE  Inv'
<1>1. RequestTypes' /\ VerdictsRight'
  BY IdleRight DEF Inv, RequestTypes, VerdictsRight, Restart, world
<1>2. \A r \in Requests : RequestRight(req'[r])
  BY IdleRight DEF Restart
<1> QED
  BY <1>1, <1>2 DEF Inv

\* The store changes under a request, or is lost and found.
LEMMA WorldInv ==
    ASSUME Inv, FiltersChange \/ StoreChanges
    PROVE  Inv'
  BY DEF Inv, RequestTypes, VerdictsRight, FiltersChange, StoreChanges, cache

LEMMA StepInv == Inv /\ [Next]_vars => Inv'
<1> SUFFICES ASSUME Inv, [Next]_vars PROVE Inv'
  OBVIOUS
<1>1. ASSUME NEW r \in Requests, NEW who \in Users \cup {Anonymous}, NEW kind \in Kinds,
             NEW about \in SUBSET Titles, Arrive(r, who, kind, about)
      PROVE  Inv'
  BY <1>1, ComeAndGoInv
<1>2. ASSUME NEW r \in Requests, Identify(r) \/ Unidentified(r) PROVE Inv'
  BY <1>2, IdentifyInv
<1>3. ASSUME NEW r \in Requests, StoreUnavailable(r) PROVE Inv'
  BY <1>3, StoreUnavailableInv
<1>4. ASSUME NEW r \in Requests, Unfiltered(r) \/ Filtered(r) PROVE Inv'
  BY <1>4, FilteredInv
<1>5. ASSUME NEW r \in Requests, UpstreamFails(r) \/ \E rows \in SUBSET Titles : List(r, rows)
      PROVE  Inv'
  BY <1>5, UpstreamInv
<1>6. ASSUME NEW r \in Requests, Detail(r) \/ DetailWithoutKeywords(r) PROVE Inv'
  BY <1>6, DetailInv
<1>7. ASSUME NEW r \in Requests, Ask(r) \/ BudgetOver(r) PROVE Inv'
  BY <1>7, WaitInv
<1>8. ASSUME NEW r \in Requests, Decide(r) PROVE Inv'
  BY <1>8, DecideInv
<1>9. ASSUME NEW r \in Requests, Finish(r) PROVE Inv'
  <2>1. "list" \in Kinds /\ {} \in SUBSET Titles
    BY DEF Kinds
  <2> QED
    BY <1>9, <2>1, ComeAndGoInv
<1>10. ASSUME NEW t \in Titles, LookupAnswers(t) \/ LookupFails(t) \/ Expire(t) PROVE Inv'
  BY <1>10, LookupInv
<1>11. CASE FiltersChange \/ StoreChanges
  BY <1>11, WorldInv
<1>12. CASE Restart
  BY <1>12, RestartInv
<1>13. CASE UNCHANGED vars
  BY <1>13 DEF vars, world, cache, Inv, RequestTypes, VerdictsRight
<1> QED
  BY <1>1, <1>2, <1>3, <1>4, <1>5, <1>6, <1>7, <1>8, <1>9, <1>10, <1>11, <1>12, <1>13
     DEF Next

\* The invariant holds of every behaviour of the guard.
THEOREM Invariance == Spec => []Inv
  BY InitInv, StepInv, PTL DEF Spec

-----------------------------------------------------------------------------
\* Whoever is answered is shown no title that carries what the store hid from
\* them when it was asked, but for a manager while there was no store (handle
\* and the handlers it calls, guard.mjs).
THEOREM NothingHidden == Spec => []NothingHiddenIsShown
<1>1. Inv => NothingHiddenIsShown
  BY DEF Inv, RequestRight, ShownRight, NothingHiddenIsShown, At
<1> QED
  BY <1>1, Invariance, PTL

-----------------------------------------------------------------------------
(* The limiter's books.                                                    *)

LEMMA FiniteTitles ==
    ASSUME NEW S \in SUBSET Titles
    PROVE  IsFiniteSet(S) /\ Cardinality(S) \in Nat
  BY FiniteAssumption, FS_Subset, FS_CardinalityType

\* An order of some titles names each of them once.
LEMMA OrderFacts ==
    ASSUME NEW S \in SUBSET Titles, NEW order \in SetToSeqs(S)
    PROVE  /\ order \in Seq(Titles)
           /\ Len(order) = Cardinality(S)
           /\ IsInjective(order)
           /\ ToSet(order) = S
<1> DEFINE n == Cardinality(S)
<1>1. IsFiniteSet(S) /\ n \in Nat
  BY FiniteTitles
<1>2. order \in [1..n -> S] /\ \A i, j \in 1..n : i # j => order[i] # order[j]
  BY DEF SetToSeqs
<1>3. order \in Seq(Titles) /\ Len(order) = n
  BY <1>1, <1>2
<1>4. IsInjective(order)
  BY <1>2 DEF IsInjective
<1>5. order \in Injection(1..n, S)
  BY <1>2, <1>4 DEF Injection
<1>6. Cardinality(1..n) = n
  BY <1>1, FS_Interval
<1>7. order \in Surjection(1..n, S)
  BY <1>1, <1>5, <1>6, FS_Injection
<1>8. ToSet(order) = S
  BY <1>2, <1>7 DEF Surjection, ToSet
<1> QED
  BY <1>3, <1>4, <1>8

\* Cut in two, it shares the titles out between the parts.
LEMMA CutFacts ==
    ASSUME NEW order \in Seq(Titles), IsInjective(order), NEW n \in 0 .. Len(order)
    PROVE  LET first == SubSeq(order, 1, n)
               rest == SubSeq(order, n + 1, Len(order))
           IN  /\ first \in Seq(Titles) /\ rest \in Seq(Titles)
               /\ Len(rest) = Len(order) - n
               /\ IsInjective(rest)
               /\ ToSet(first) \cup ToSet(rest) = ToSet(order)
               /\ ToSet(first) \cap ToSet(rest) = {}
               /\ Cardinality(ToSet(first)) = n
<1> DEFINE first == SubSeq(order, 1, n)
           rest == SubSeq(order, n + 1, Len(order))
<1>1. Len(order) \in Nat /\ DOMAIN order = 1 .. Len(order) /\ n \in Nat
  BY LenProperties
<1>2. /\ first \in Seq(Titles) /\ Len(first) = n
      /\ \A i \in 1 .. n : first[i] = order[i]
  <2>1. \A i \in 1 .. n : order[i] \in Titles
    BY <1>1, ElementOfSeq
  <2> QED
    BY <1>1, <2>1, SubSeqProperties
<1>3. /\ rest \in Seq(Titles) /\ Len(rest) = Len(order) - n
      /\ \A i \in 1 .. Len(order) - n : rest[i] = order[n + i]
  <2>1. \A i \in n + 1 .. Len(order) : order[i] \in Titles
    BY <1>1, ElementOfSeq
  <2>2. /\ rest \in Seq(Titles)
        /\ Len(rest) = IF n + 1 <= Len(order) THEN Len(order) - (n + 1) + 1 ELSE 0
        /\ \A i \in 1 .. Len(order) - (n + 1) + 1 : rest[i] = order[n + 1 + i - 1]
    BY <1>1, <2>1, SubSeqProperties
  <2> QED
    BY <1>1, <2>2
<1> HIDE DEF first, rest
<1>4. DOMAIN first = 1 .. n /\ DOMAIN rest = 1 .. Len(order) - n
  BY <1>2, <1>3, LenProperties
<1>5. \A i, j \in 1 .. Len(order) : order[i] = order[j] => i = j
  BY <1>1 DEF IsInjective
<1>6. IsInjective(rest)
  BY <1>1, <1>3, <1>4, <1>5 DEF IsInjective
<1>7. ToSet(first) = {order[i] : i \in 1 .. n}
  BY <1>2, <1>4 DEF ToSet
<1>8. ToSet(rest) = {order[i] : i \in n + 1 .. Len(order)}
  <2>1. ASSUME NEW i \in n + 1 .. Len(order)
        PROVE  i - n \in 1 .. Len(order) - n /\ rest[i - n] = order[i]
    <3>1. i - n \in 1 .. Len(order) - n /\ n + (i - n) = i
      BY <1>1
    <3> QED
      BY <1>3, <3>1
  <2>2. ASSUME NEW i \in 1 .. Len(order) - n
        PROVE  n + i \in n + 1 .. Len(order) /\ rest[i] = order[n + i]
    BY <1>1, <1>3
  <2>3. ToSet(rest) = {rest[i] : i \in 1 .. Len(order) - n}
    BY <1>4 DEF ToSet
  <2> QED
    BY <2>1, <2>2, <2>3
<1>9. ToSet(order) = {order[i] : i \in 1 .. Len(order)}
  BY <1>1 DEF ToSet
<1>10. ToSet(first) \cup ToSet(rest) = ToSet(order)
  BY <1>1, <1>7, <1>8, <1>9
<1>11. ToSet(first) \cap ToSet(rest) = {}
  BY <1>1, <1>5, <1>7, <1>8
<1>12. Cardinality(ToSet(first)) = n
  <2>1. first \in Surjection(1 .. n, ToSet(first))
    BY <1>2, <1>4, LenProperties DEF Surjection, ToSet
  <2>2. IsInjective(first)
    BY <1>1, <1>2, <1>4, <1>5 DEF IsInjective
  <2>3. first \in Injection(1 .. n, ToSet(first))
    BY <2>1, <2>2 DEF Injection, Surjection
  <2>4. IsFiniteSet(1 .. n) /\ Cardinality(1 .. n) = n
    BY <1>1, FS_Interval
  <2>5. Cardinality(ToSet(first)) = Cardinality(1 .. n)
    BY <2>1, <2>3, <2>4, FS_Surjection
  <2> QED
    BY <2>4, <2>5
<1> QED
  BY <1>2, <1>3, <1>6, <1>10, <1>11, <1>12 DEF first, rest

\* A queue that grows by titles it does not hold.
LEMMA QueueFacts ==
    ASSUME NEW s \in Seq(Titles), NEW t \in Seq(Titles), IsInjective(s), IsInjective(t),
           ToSet(s) \cap ToSet(t) = {}
    PROVE  /\ s \o t \in Seq(Titles)
           /\ IsInjective(s \o t)
           /\ ToSet(s \o t) = ToSet(s) \cup ToSet(t)
           /\ s \o t # <<>> => s # <<>> \/ Len(t) > 0
<1>1. /\ Len(s) \in Nat /\ DOMAIN s = 1 .. Len(s)
      /\ Len(t) \in Nat /\ DOMAIN t = 1 .. Len(t)
  BY LenProperties
<1>2. /\ s \o t \in Seq(Titles) /\ Len(s \o t) = Len(s) + Len(t)
      /\ \A i \in 1 .. Len(s) + Len(t) :
           (s \o t)[i] = IF i <= Len(s) THEN s[i] ELSE t[i - Len(s)]
  BY ConcatProperties
<1> DEFINE q == s \o t
<1>3. DOMAIN q = 1 .. Len(s) + Len(t)
  BY <1>2, LenProperties
<1>4. q # <<>> => s # <<>> \/ Len(t) > 0
  BY <1>1, ConcatEmptySeq, EmptySeq
<1> HIDE DEF q
<1>5. \A i \in 1 .. Len(s) + Len(t) : q[i] = IF i <= Len(s) THEN s[i] ELSE t[i - Len(s)]
  BY <1>2 DEF q
<1>6. \A i \in 1 .. Len(s) + Len(t) : IF i <= Len(s) THEN i \in DOMAIN s
                                                     ELSE i - Len(s) \in DOMAIN t
  BY <1>1
<1>7. ToSet(q) = ToSet(s) \cup ToSet(t)
  <2>1. ASSUME NEW i \in DOMAIN s PROVE i \in DOMAIN q /\ q[i] = s[i]
    BY <1>1, <1>3, <1>5
  <2>2. ASSUME NEW i \in DOMAIN t PROVE Len(s) + i \in DOMAIN q /\ q[Len(s) + i] = t[i]
    BY <1>1, <1>3, <1>5
  <2>3. ASSUME NEW i \in DOMAIN q PROVE q[i] \in ToSet(s) \cup ToSet(t)
    BY <1>3, <1>5, <1>6 DEF ToSet
  <2> QED
    BY <2>1, <2>2, <2>3 DEF ToSet
<1>8. IsInjective(q)
  <2>1. SUFFICES ASSUME NEW a \in 1 .. Len(s) + Len(t), NEW b \in 1 .. Len(s) + Len(t),
                        q[a] = q[b]
                 PROVE  a = b
    BY <1>3 DEF IsInjective
  <2>2. CASE a <= Len(s) /\ b <= Len(s)
    BY <1>5, <1>6, <2>1, <2>2 DEF IsInjective
  <2>3. CASE a > Len(s) /\ b > Len(s)
    <3>1. t[a - Len(s)] = t[b - Len(s)] /\ a - Len(s) \in DOMAIN t /\ b - Len(s) \in DOMAIN t
      BY <1>1, <1>5, <1>6, <2>1, <2>3
    <3>2. a - Len(s) = b - Len(s)
      BY <3>1 DEF IsInjective
    <3> QED
      BY <1>1, <3>2
  <2>4. CASE a <= Len(s) /\ b > Len(s)
    <3>1. s[a] = t[b - Len(s)] /\ a \in DOMAIN s /\ b - Len(s) \in DOMAIN t
      BY <1>1, <1>5, <1>6, <2>1, <2>4
    <3> QED
      BY <3>1 DEF ToSet
  <2>5. CASE a > Len(s) /\ b <= Len(s)
    <3>1. t[a - Len(s)] = s[b] /\ b \in DOMAIN s /\ a - Len(s) \in DOMAIN t
      BY <1>1, <1>5, <1>6, <2>1, <2>5
    <3> QED
      BY <3>1 DEF ToSet
  <2> QED
    BY <1>1, <2>2, <2>3, <2>4, <2>5
<1> QED
  BY <1>2, <1>4, <1>7, <1>8 DEF q

\* Taking the oldest lookup from the queue.
LEMMA HeadFacts ==
    ASSUME NEW s \in Seq(Titles), s # <<>>, IsInjective(s)
    PROVE  /\ Head(s) \in Titles
           /\ Tail(s) \in Seq(Titles)
           /\ IsInjective(Tail(s))
           /\ ToSet(Tail(s)) = ToSet(s) \ {Head(s)}
           /\ Head(s) \in ToSet(s)
<1>1. /\ Len(s) \in Nat \ {0} /\ DOMAIN s = 1 .. Len(s)
  BY LenProperties, EmptySeq
<1> DEFINE rest == Tail(s)
<1>2. /\ Head(s) \in Titles /\ Head(s) = s[1]
      /\ rest \in Seq(Titles) /\ Len(rest) = Len(s) - 1
      /\ \A i \in 1 .. Len(rest) : rest[i] = s[i + 1]
  BY HeadTailProperties
<1>3. DOMAIN rest = 1 .. Len(s) - 1
  BY <1>2, LenProperties
<1> HIDE DEF rest
<1>4. \A i \in DOMAIN rest : i + 1 \in DOMAIN s /\ rest[i] = s[i + 1] /\ i + 1 # 1
  BY <1>1, <1>2, <1>3
<1>5. \A i \in DOMAIN s : i # 1 => i - 1 \in DOMAIN rest /\ rest[i - 1] = s[i]
  <2>1. SUFFICES ASSUME NEW i \in DOMAIN s, i # 1
                 PROVE  i - 1 \in DOMAIN rest /\ rest[i - 1] = s[i]
    OBVIOUS
  <2>2. i - 1 \in DOMAIN rest /\ (i - 1) + 1 = i
    BY <1>1, <1>3, <2>1
  <2> QED
    BY <1>4, <2>2
<1>6. \A i, j \in DOMAIN s : s[i] = s[j] => i = j
  BY DEF IsInjective
<1>7. IsInjective(rest)
  BY <1>1, <1>3, <1>4, <1>6 DEF IsInjective
<1>8. 1 \in DOMAIN s /\ Head(s) \in ToSet(s)
  BY <1>1, <1>2 DEF ToSet
<1>9. ToSet(rest) = ToSet(s) \ {Head(s)}
  <2>1. ASSUME NEW i \in DOMAIN rest PROVE rest[i] \in ToSet(s) \ {Head(s)}
    BY <1>2, <1>4, <1>6, <1>8 DEF ToSet
  <2>2. ASSUME NEW i \in DOMAIN s, s[i] # Head(s) PROVE s[i] \in ToSet(rest)
    BY <1>2, <1>5, <2>2 DEF ToSet
  <2> QED
    BY <2>1, <2>2 DEF ToSet
<1> QED
  BY <1>2, <1>7, <1>8, <1>9 DEF rest

-----------------------------------------------------------------------------
\* What the books say of the limiter alone.
SlotsRight ==
    /\ fetching \in SUBSET Titles
    /\ waiting \in Seq(Titles)
    /\ IsInjective(waiting)
    /\ ToSet(waiting) \cap fetching = {}
    /\ Cardinality(fetching) <= Limit
    /\ waiting # <<>> => Cardinality(fetching) = Limit

\* New lookups take the free slots and queue up for the rest.
LEMMA StartRight ==
    ASSUME SlotsRight, NEW titles \in SUBSET Titles, titles \cap InFlight = {},
           StartLookups(titles)
    PROVE  SlotsRight' /\ InFlight' = InFlight \cup titles
<1> DEFINE free == Limit - Cardinality(fetching)
<1>1. /\ IsFiniteSet(fetching) /\ Cardinality(fetching) \in Nat /\ Limit \in Nat
      /\ IsFiniteSet(titles) /\ Cardinality(titles) \in Nat /\ free \in Nat
  BY FiniteTitles, LimitAssumption DEF SlotsRight
<1>2. PICK order \in SetToSeqs(titles) :
        LET n == IF free < Len(order) THEN free ELSE Len(order)
        IN  /\ fetching' = fetching \cup ToSet(SubSeq(order, 1, n))
            /\ waiting' = waiting \o SubSeq(order, n + 1, Len(order))
  BY DEF StartLookups
<1> DEFINE n == IF free < Len(order) THEN free ELSE Len(order)
           first == SubSeq(order, 1, n)
           rest == SubSeq(order, n + 1, Len(order))
<1>3. /\ order \in Seq(Titles) /\ Len(order) \in Nat
      /\ IsInjective(order) /\ ToSet(order) = titles
  BY <1>1, OrderFacts
<1>4. n \in 0 .. Len(order) /\ n <= free /\ (Len(order) - n > 0 => n = free)
  BY <1>1, <1>3
<1>5. fetching' = fetching \cup ToSet(first) /\ waiting' = waiting \o rest
  BY <1>2
<1> HIDE DEF n
<1>6. /\ first \in Seq(Titles) /\ rest \in Seq(Titles) /\ Len(rest) = Len(order) - n
      /\ IsInjective(rest)
      /\ ToSet(first) \cup ToSet(rest) = titles /\ ToSet(first) \cap ToSet(rest) = {}
      /\ Cardinality(ToSet(first)) = n
  BY <1>3, <1>4, CutFacts
<1> HIDE DEF first, rest
<1>7. /\ waiting' \in Seq(Titles) /\ IsInjective(waiting')
      /\ ToSet(waiting') = ToSet(waiting) \cup ToSet(rest)
      /\ waiting' # <<>> => waiting # <<>> \/ Len(rest) > 0
  BY <1>5, <1>6, QueueFacts DEF SlotsRight, InFlight
<1>8. /\ IsFiniteSet(ToSet(first)) /\ fetching \cap ToSet(first) = {}
      /\ ToSet(first) \in SUBSET Titles
  <2>1. ToSet(first) \in SUBSET Titles
    BY <1>6
  <2>2. fetching \cap ToSet(first) = {}
    BY <1>6 DEF InFlight
  <2>3. IsFiniteSet(ToSet(first))
    BY <2>1, FiniteTitles
  <2> QED
    BY <2>1, <2>2, <2>3
<1>9. Cardinality(fetching') = Cardinality(fetching) + n
  <2>1. Cardinality(fetching \cup ToSet(first))
          = Cardinality(fetching) + Cardinality(ToSet(first)) - Cardinality({})
    BY <1>1, <1>8, FS_Union
  <2>2. n \in Nat /\ Cardinality({}) = 0
    BY <1>3, <1>4, FS_EmptySet
  <2> QED
    BY <1>1, <1>5, <1>6, <2>1, <2>2
<1>10. fetching' \in SUBSET Titles /\ ToSet(waiting') \cap fetching' = {}
  BY <1>5, <1>6, <1>7, <1>8 DEF SlotsRight, InFlight
<1>11. Cardinality(fetching') <= Limit
  BY <1>1, <1>4, <1>9
<1>12. waiting' # <<>> => Cardinality(fetching') = Limit
  BY <1>1, <1>4, <1>6, <1>7, <1>9 DEF SlotsRight
<1>13. InFlight' = InFlight \cup titles
  BY <1>5, <1>6, <1>7 DEF InFlight
<1> QED
  BY <1>7, <1>10, <1>11, <1>12, <1>13 DEF SlotsRight

\* A lookup that ends hands its slot on, and only it is no longer in flight.
LEMMA ReleaseRight ==
    ASSUME SlotsRight, NEW t \in fetching, Release(t)
    PROVE  SlotsRight' /\ InFlight' = InFlight \ {t}
<1>1. /\ IsFiniteSet(fetching) /\ Cardinality(fetching) \in Nat /\ Limit \in Nat
      /\ IsFiniteSet(fetching \ {t}) /\ Cardinality(fetching \ {t}) = Cardinality(fetching) - 1
  BY FiniteTitles, LimitAssumption, FS_RemoveElement DEF SlotsRight
<1>2. CASE waiting = <<>>
  <2>1. fetching' = fetching \ {t} /\ waiting' = waiting
    BY <1>2 DEF Release
  <2>2. Cardinality(fetching') <= Limit
    BY <1>1, <2>1 DEF SlotsRight
  <2>3. InFlight' = InFlight \ {t}
    BY <2>1 DEF SlotsRight, InFlight
  <2> QED
    BY <1>2, <2>1, <2>2, <2>3 DEF SlotsRight
<1>3. CASE waiting # <<>>
  <2>1. fetching' = (fetching \ {t}) \cup {Head(waiting)} /\ waiting' = Tail(waiting)
    BY <1>3 DEF Release
  <2>2. /\ Head(waiting) \in Titles /\ Tail(waiting) \in Seq(Titles)
        /\ IsInjective(Tail(waiting)) /\ Head(waiting) \in ToSet(waiting)
        /\ ToSet(Tail(waiting)) = ToSet(waiting) \ {Head(waiting)}
    BY <1>3, HeadFacts DEF SlotsRight
  <2>3. Head(waiting) \notin fetching \ {t}
    BY <2>2 DEF SlotsRight
  <2>4. Cardinality(fetching') = Cardinality(fetching \ {t}) + 1
    BY <1>1, <2>1, <2>3, FS_AddElement
  <2>5. Cardinality(fetching') = Limit
    BY <1>1, <1>3, <2>4 DEF SlotsRight
  <2>6. fetching' \in SUBSET Titles /\ ToSet(waiting') \cap fetching' = {}
    BY <2>1, <2>2 DEF SlotsRight
  <2>7. InFlight' = InFlight \ {t}
    BY <2>1, <2>2 DEF SlotsRight, InFlight
  <2> QED
    BY <1>1, <2>1, <2>2, <2>5, <2>6, <2>7 DEF SlotsRight
<1> QED
  BY <1>2, <1>3

-----------------------------------------------------------------------------
\* The books and the requests that wait by them.
Books ==
    /\ storeOk \in BOOLEAN
    /\ expired \in SUBSET Titles
    /\ SlotsRight
    /\ \A r \in Requests : req[r].awaits \subseteq InFlight

LEMMA InitBooks == Init => Books
<1> SUFFICES ASSUME Init PROVE Books
  OBVIOUS
<1>1. fetching = {} /\ waiting = <<>> /\ waiting \in Seq(Titles) /\ DOMAIN waiting = {}
  BY DEF Init
<1>2. SlotsRight
  BY <1>1, FS_EmptySet, LimitAssumption DEF SlotsRight, IsInjective
<1>3. \A r \in Requests : req[r].awaits = {}
  BY DEF Init, Idle
<1> QED
  BY <1>2, <1>3 DEF Init, Books

\* A step of one request after which nothing is looked up less than before.
LEMMA RequestBooks ==
    ASSUME Inv, Books, NEW r \in Requests, NEW new, Update(r, new),
           SlotsRight', InFlight \subseteq InFlight', new.awaits \subseteq InFlight',
           UNCHANGED storeOk, expired' \in SUBSET Titles
    PROVE  Books'
<1>1. ASSUME NEW q \in Requests PROVE req'[q].awaits \subseteq InFlight'
  <2>1. CASE q = r
    BY <2>1 DEF Update, Inv, RequestTypes
  <2>2. CASE q # r
    BY <2>2 DEF Update, Books
  <2> QED
    BY <2>1, <2>2
<1> QED
  BY <1>1 DEF Books

\* One that leaves the limiter alone and waits for no more than it did.
LEMMA QuietBooks ==
    ASSUME Inv, Books, NEW r \in Requests, NEW new, Update(r, new), UNCHANGED slots,
           new.awaits \subseteq req[r].awaits,
           UNCHANGED storeOk, expired' \in SUBSET Titles
    PROVE  Books'
<1>1. SlotsRight' /\ InFlight' = InFlight
  BY DEF Books, slots, SlotsRight, InFlight
<1>2. new.awaits \subseteq InFlight'
  BY <1>1 DEF Books
<1> QED
  BY <1>1, <1>2, RequestBooks

\* One that starts lookups and waits for no others than those in flight.
LEMMA StartBooks ==
    ASSUME Inv, Books, NEW r \in Requests, NEW new, Update(r, new),
           NEW titles \in SUBSET Titles, titles \cap InFlight = {}, StartLookups(titles),
           new.awaits \subseteq InFlight \cup titles,
           UNCHANGED <<storeOk, expired>>
    PROVE  Books'
<1>1. SlotsRight' /\ InFlight' = InFlight \cup titles
  BY StartRight DEF Books
<1> QED
  BY <1>1, RequestBooks DEF Books

LEMMA AnswerAwaits ==
    ASSUME NEW r \in Requests, req[r] \in Request, NEW titles \in SUBSET Titles
    PROVE  Answer(r, titles).awaits = req[r].awaits
  BY DEF Answer, Request

\* The requests' steps that look nothing up.
LEMMA QuietSteps ==
    ASSUME Inv, Books, NEW r \in Requests,
           \/ \E who \in Users \cup {Anonymous}, kind \in Kinds, about \in SUBSET Titles :
                Arrive(r, who, kind, about)
           \/ Identify(r) \/ Unidentified(r) \/ StoreUnavailable(r)
           \/ Unfiltered(r) \/ Filtered(r)
           \/ \E rows \in SUBSET Titles : List(r, rows)
           \/ UpstreamFails(r) \/ BudgetOver(r) \/ Finish(r)
    PROVE  Books'
<1>0. req[r] \in Request /\ expired \in SUBSET Titles
  BY DEF Inv, RequestTypes, Books
<1> DEFINE Quiet(new) == new.awaits \subseteq req[r].awaits
           Rest == UNCHANGED <<world, cache, slots>>
<1>1. ASSUME NEW new, Update(r, new), Quiet(new), Rest PROVE Books'
  BY <1>0, <1>1, QuietBooks DEF world, cache
<1>2. Quiet(Idle)
  BY DEF Idle
<1>3. ASSUME NEW titles \in SUBSET Titles PROVE Quiet(Answer(r, titles))
  BY <1>0, AnswerAwaits
<1>4. ASSUME NEW who \in Users \cup {Anonymous}, NEW kind \in Kinds, NEW about \in SUBSET Titles,
             Arrive(r, who, kind, about)
      PROVE  Books'
  <2> DEFINE new == [Idle EXCEPT !.pc = "new", !.who = who, !.kind = kind, !.about = about]
  <2>1. Update(r, new) /\ Quiet(new) /\ Rest
    BY <1>4 DEF Arrive, Idle
  <2> QED
    BY <1>1, <2>1
<1>5. CASE Identify(r)
  <2> DEFINE new == IF req[r].who = Anonymous THEN Answer(r, Titles)
                                              ELSE [req[r] EXCEPT !.pc = "known"]
  <2>1. Quiet(new)
    BY <1>0, <1>3 DEF Request
  <2>2. Update(r, new) /\ Rest
    BY <1>5 DEF Identify
  <2> QED
    BY <1>1, <2>1, <2>2
<1>6. CASE Unidentified(r)
  BY <1>1, <1>3, <1>6 DEF Unidentified
<1>7. CASE StoreUnavailable(r)
  <2> DEFINE titles == IF req[r].who \in Managers THEN Titles ELSE {}
             new == [Answer(r, titles) EXCEPT !.due = filters[req[r].who]]
  <2>1. Update(r, new) /\ Rest
    BY <1>7 DEF StoreUnavailable
  <2>2. Answer(r, titles) \in Request /\ Quiet(Answer(r, titles))
    BY <1>0, <1>3, AnswerType
  <2>3. Quiet(new)
    BY <2>2 DEF Request
  <2> QED
    BY <1>1, <2>1, <2>3
<1>8. CASE Unfiltered(r)
  BY <1>1, <1>3, <1>8 DEF Unfiltered
<1>9. CASE Filtered(r)
  <2> DEFINE new == [req[r] EXCEPT !.hidden = filters[req[r].who],
                                   !.due = filters[req[r].who],
                                   !.pc = IF req[r].kind \in {"gate", "sub"}
                                            THEN "ask" ELSE "upstream"]
  <2>1. Update(r, new) /\ Rest
    BY <1>9 DEF Filtered
  <2>2. Quiet(new)
    BY <1>0 DEF Request
  <2> QED
    BY <1>1, <2>1, <2>2
<1>10. ASSUME NEW rows \in SUBSET Titles, List(r, rows) PROVE Books'
  <2> DEFINE new == [req[r] EXCEPT !.pc = "ask", !.about = rows]
  <2>1. Update(r, new) /\ Rest /\ Quiet(new)
    BY <1>0, <1>10 DEF List, Request
  <2> QED
    BY <1>1, <2>1
<1>11. CASE UpstreamFails(r)
  BY <1>1, <1>3, <1>11 DEF UpstreamFails
<1>12. CASE BudgetOver(r)
  <2> DEFINE new == [req[r] EXCEPT !.awaits = {}]
  <2>1. Update(r, new) /\ Rest /\ Quiet(new)
    BY <1>0, <1>12 DEF BudgetOver, Request
  <2> QED
    BY <1>1, <2>1
<1>13. CASE Finish(r)
  BY <1>1, <1>2, <1>13 DEF Finish
<1> QED
  BY <1>4, <1>5, <1>6, <1>7, <1>8, <1>9, <1>10, <1>11, <1>12, <1>13

\* Those that may.
LEMMA AskingSteps ==
    ASSUME Inv, Books, NEW r \in Requests,
           Detail(r) \/ DetailWithoutKeywords(r) \/ Ask(r) \/ Decide(r)
    PROVE  Books'
<1>0. /\ req[r] \in Request /\ req[r].about \in SUBSET Titles /\ expired \in SUBSET Titles
      /\ req[r].awaits \subseteq InFlight
  BY DEF Inv, RequestTypes, Books, Request
<1> DEFINE refresh == ToRefresh(req[r].about)
<1>1. refresh \in SUBSET Titles /\ refresh \cap InFlight = {}
  BY <1>0 DEF ToRefresh
<1>2. CASE Detail(r)
  <2>1. PICK t \in req[r].about :
          /\ Remember(t)
          /\ Update(r, Answer(r, IF KeywordsOf[t] \cap req[r].hidden = {} THEN {t} ELSE {}))
    BY <1>2 DEF Detail
  <2> DEFINE titles == IF KeywordsOf[t] \cap req[r].hidden = {} THEN {t} ELSE {}
  <2>2. titles \in SUBSET Titles
    BY <1>0
  <2>3. Answer(r, titles).awaits = req[r].awaits
    BY <1>0, <2>2, AnswerAwaits
  <2>4. UNCHANGED slots /\ UNCHANGED storeOk /\ expired' \in SUBSET Titles
    BY <1>0, <1>2, <2>1 DEF Detail, Remember, world
  <2> QED
    BY <2>1, <2>3, <2>4, QuietBooks
<1>3. CASE DetailWithoutKeywords(r)
  <2> DEFINE titles == {t \in req[r].about : Visible(r, t)}
  <2>1. Answer(r, titles).awaits = req[r].awaits
    BY <1>0, AnswerAwaits
  <2>2. /\ Update(r, Answer(r, titles)) /\ StartLookups(refresh)
        /\ UNCHANGED <<storeOk, expired>>
    BY <1>3 DEF DetailWithoutKeywords, world, cache
  <2> QED
    BY <1>0, <1>1, <2>1, <2>2, StartBooks
<1>4. CASE Ask(r)
  <2> DEFINE unknown == UnknownOf(req[r].about)
             new == [req[r] EXCEPT !.pc = "waiting", !.awaits = unknown]
             titles == (unknown \ InFlight) \cup refresh
  <2>1. unknown \in SUBSET Titles
    BY <1>0 DEF UnknownOf
  <2>2. Update(r, new) /\ StartLookups(titles) /\ UNCHANGED <<storeOk, expired>>
    BY <1>4 DEF Ask, world, cache
  <2> HIDE DEF unknown, refresh
  <2>3. titles \in SUBSET Titles /\ titles \cap InFlight = {}
    BY <1>1, <2>1
  <2>4. new.awaits \subseteq InFlight \cup titles
    BY <1>0 DEF Request
  <2> QED
    BY <2>2, <2>3, <2>4, StartBooks
<1>5. CASE Decide(r)
  <2> DEFINE visible == {t \in req[r].about : Visible(r, t)}
             new == IF req[r].kind = "sub" /\ visible # {}
                      THEN [req[r] EXCEPT !.pc = "upstream", !.kind = "list", !.about = {}]
                      ELSE Answer(r, visible)
  <2>1. Update(r, new) /\ StartLookups(refresh) /\ UNCHANGED <<storeOk, expired>>
    BY <1>5 DEF Decide, world, cache
  <2>2. Answer(r, visible).awaits = req[r].awaits
    BY <1>0, AnswerAwaits
  <2>3. new.awaits = req[r].awaits
    BY <1>0, <2>2 DEF Request
  <2> QED
    BY <1>0, <1>1, <2>1, <2>3, StartBooks
<1> QED
  BY <1>2, <1>3, <1>4, <1>5

\* A lookup ends: only those that waited for it lose sight of it.
LEMMA LookupBooks ==
    ASSUME Inv, Books, NEW t \in Titles, LookupAnswers(t) \/ LookupFails(t) \/ Expire(t)
    PROVE  Books'
<1>1. CASE LookupAnswers(t) \/ LookupFails(t)
  <2>1. t \in fetching /\ Release(t) /\ Settled(t) /\ UNCHANGED storeOk
    BY <1>1 DEF LookupAnswers, LookupFails, world
  <2>2. SlotsRight' /\ InFlight' = InFlight \ {t}
    BY <2>1, ReleaseRight DEF Books
  <2>3. expired' \in SUBSET Titles
    BY <1>1 DEF LookupAnswers, LookupFails, Remember, cache, Books
  <2>4. ASSUME NEW r \in Requests PROVE req'[r].awaits \subseteq InFlight'
    <3>1. req[r] \in Request /\ req[r].awaits \subseteq InFlight
      BY DEF Inv, RequestTypes, Books
    <3>2. req'[r] = [req[r] EXCEPT !.awaits = req[r].awaits \ {t}]
      BY <2>1 DEF Settled
    <3>3. req'[r].awaits = req[r].awaits \ {t}
      BY <3>1, <3>2 DEF Request
    <3> QED
      BY <2>2, <3>1, <3>3
  <2> QED
    BY <2>1, <2>2, <2>3, <2>4 DEF Books
<1>2. CASE Expire(t)
  BY <1>2 DEF Expire, Books, world, slots, SlotsRight, InFlight
<1> QED
  BY <1>1, <1>2

\* A restart empties the limiter and ends every request.
LEMMA RestartBooks ==
    ASSUME Inv, Books, Restart
    PROVE  Books'
<1>1. fetching' = {} /\ waiting' = <<>> /\ waiting' \in Seq(Titles) /\ DOMAIN waiting' = {}
  BY DEF Restart
<1>2. SlotsRight'
  BY <1>1, FS_EmptySet, LimitAssumption DEF SlotsRight, IsInjective
<1>3. \A r \in Requests : req'[r].awaits = {}
  BY DEF Restart, Idle
<1> QED
  BY <1>2, <1>3 DEF Restart, Books, world

LEMMA StepBooks == Inv /\ Books /\ [Next]_vars => Books'
<1> SUFFICES ASSUME Inv, Books, [Next]_vars PROVE Books'
  OBVIOUS
<1>1. ASSUME NEW r \in Requests,
             \/ \E who \in Users \cup {Anonymous}, kind \in Kinds, about \in SUBSET Titles :
                  Arrive(r, who, kind, about)
             \/ Identify(r) \/ Unidentified(r) \/ StoreUnavailable(r)
             \/ Unfiltered(r) \/ Filtered(r)
             \/ \E rows \in SUBSET Titles : List(r, rows)
             \/ UpstreamFails(r) \/ BudgetOver(r) \/ Finish(r)
      PROVE  Books'
  BY <1>1, QuietSteps
<1>2. ASSUME NEW r \in Requests, Detail(r) \/ DetailWithoutKeywords(r) \/ Ask(r) \/ Decide(r)
      PROVE  Books'
  BY <1>2, AskingSteps
<1>3. ASSUME NEW t \in Titles, LookupAnswers(t) \/ LookupFails(t) \/ Expire(t) PROVE Books'
  BY <1>3, LookupBooks
<1>4. CASE FiltersChange \/ StoreChanges
  BY <1>4 DEF FiltersChange, StoreChanges, Books, cache, slots, SlotsRight, InFlight
<1>5. CASE Restart
  BY <1>5, RestartBooks
<1>6. CASE UNCHANGED vars
  BY <1>6 DEF vars, world, cache, slots, Books, SlotsRight, InFlight
<1> QED
  BY <1>1, <1>2, <1>3, <1>4, <1>5, <1>6 DEF Next

\* The books hold beside the invariant above, which they need for the types.
THEOREM BooksInvariance == Spec => [](Inv /\ Books)
<1>1. Init => Inv /\ Books
  BY InitInv, InitBooks
<1>2. Inv /\ Books /\ [Next]_vars => (Inv /\ Books)'
  BY StepInv, StepBooks
<1> QED
  BY <1>1, <1>2, PTL DEF Spec

\* Every variable keeps its type: a verdict is a set of keywords or none.
THEOREM TypeCorrect == Spec => []TypeOK
<1>1. Inv /\ Books => TypeOK
  BY DEF Inv, RequestTypes, Books, SlotsRight, TypeOK
<1> QED
  BY <1>1, BooksInvariance, PTL

\* The limiter keeps its books, whatever asks for lookups and however they end
\* (limited, lookup, ensureVerdicts, titleHidden): never more than Limit at a
\* time, no title twice, nothing queued beside a free slot, and no request waits
\* for a lookup that is not under way.
THEOREM BooksKept == Spec => []SlotsAccounted
<1>1. Books => SlotsAccounted
  BY DEF Books, SlotsRight, SlotsAccounted
<1> QED
  BY <1>1, BooksInvariance, PTL

=============================================================================
