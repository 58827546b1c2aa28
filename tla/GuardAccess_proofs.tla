-------------------------- MODULE GuardAccess_proofs --------------------------
(***************************************************************************)
(* GuardAccess for any accounts, permissions, requests and times.  What is *)
(* remembered of an account is never older than its entry's age and the    *)
(* time Seerr may have taken to answer, in whatever order the answers      *)
(* came: that bound is inductive, and both properties rest on it.          *)
(***************************************************************************)
EXTENDS GuardAccess, TLAPS

\* Seerr says now what it says now.
SaidNow == \A p \in People, how \in Ways : since[p][Identity(p, how)] = 0

\* What is remembered is at most Patience older than it looks.
RememberedLately ==
    \A how \in Ways, p \in People :
        cache[how][p] # None =>
            since[p][cache[how][p].user] <= cache[how][p].age + Patience

\* Of a request k that has asked Seerr: what the answer will say was so then.
AnswerIsLate(k) ==
    k.asked # None =>
        /\ \/ k.pc \in {"gate", "who"}
           \/ k.pc = "subject" /\ k.ask.about # k.ask.who
        /\ since[IF k.pc = "subject" THEN k.ask.about ELSE k.ask.who][k.asked.user]
             <= k.asked.age

\* Of one past its identification: the caller has an account, and had it lately.
IsIdentified(k) ==
    k.pc \in {"subject", "forward", "put"} => k.user \in Powers /\ k.user \in k.held

\* Of one about to change a filter: by what right.
IsEntitled(k) ==
    k.pc = "put" =>
        /\ k.apply = allowedChanges(k.user, k.ask.about = k.ask.who, k.ask.wants)
        /\ k.ask.about = k.ask.who \/ k.managed

CallOK(k) == k \in Call /\ AnswerIsLate(k) /\ IsIdentified(k) /\ IsEntitled(k)

Inv ==
    /\ TypeOK
    /\ SaidNow
    /\ RememberedLately
    /\ \A c \in Calls : CallOK(call[c])

-----------------------------------------------------------------------------
(* Types.                                                                  *)

LEMMA IdentityType ==
    ASSUME TypeOK, NEW p \in People, NEW how \in Ways
    PROVE  Identity(p, how) \in Identities
BY DEF TypeOK, Identity, Identities

LEMMA NothingType == Nothing \in Changes
<1>1. Nothing \in [{} -> BOOLEAN]
  BY DEF Nothing
<1>2. {} \in SUBSET Fields
  OBVIOUS
<1> QED BY <1>1, <1>2 DEF Changes

LEMMA AllowedType ==
    ASSUME NEW i, NEW own \in BOOLEAN, NEW wants \in Changes
    PROVE  allowedChanges(i, own, wants) \in Changes
<1>1. PICK fields \in SUBSET Fields : wants \in [fields -> BOOLEAN]
  BY DEF Changes
<1> DEFINE kept == {g \in DOMAIN wants : \/ hasPermission(i, "MANAGE_USERS")
                                         \/ g = "hideAdult" /\ own}
<1>2. kept \in SUBSET Fields /\ kept \subseteq fields
  BY <1>1
<1>3. allowedChanges(i, own, wants) \in [kept -> BOOLEAN]
  BY <1>1, <1>2 DEF allowedChanges
<1> HIDE DEF kept
<1> QED BY <1>2, <1>3 DEF Changes

LEMMA MergedType ==
    ASSUME NEW entry \in [Fields -> BOOLEAN], NEW changes \in Changes
    PROVE  Merged(entry, changes) \in [Fields -> BOOLEAN]
<1>1. PICK fields \in SUBSET Fields : changes \in [fields -> BOOLEAN]
  BY DEF Changes
<1> QED BY <1>1 DEF Merged

LEMMA IdleOK == CallOK(Idle)
<1>1. Idle.ask \in AskType
  BY AsksAssumption DEF Idle
<1>2. Idle \in Call
  BY <1>1, NothingType DEF Idle, Call, PCs, Identities
<1> QED BY <1>2 DEF CallOK, AnswerIsLate, IsIdentified, IsEntitled, Idle

THEOREM InitInv == Init => Inv
<1> SUFFICES ASSUME Init PROVE Inv
  OBVIOUS
<1>1. \A p \in People, how \in Ways : Identity(p, how) \in Identities
  BY DEF Init, Identity, Identities
<1>2. Window \in Nat
  BY TimesAssumption DEF Window
<1>3. TypeOK
  BY <1>1, <1>2, IdleOK DEF Init, TypeOK, Entry, CallOK
<1>4. SaidNow
  BY <1>1 DEF Init, SaidNow
<1>5. RememberedLately
  BY DEF Init, RememberedLately
<1> QED BY <1>3, <1>4, <1>5, IdleOK DEF Inv, Init

-----------------------------------------------------------------------------
(* A step of one request.                                                  *)

\* A step that changes one request, which stays in order.
LEMMA CallChanges ==
    ASSUME Inv, NEW c \in Calls, NEW k, CallOK(k), Update(c, k), UNCHANGED since
    PROVE  call' \in [Calls -> Call] /\ \A d \in Calls : CallOK(call[d])'
<1>1. call' \in [Calls -> Call]
  BY DEF Inv, TypeOK, Update, CallOK
<1>2. ASSUME NEW d \in Calls PROVE CallOK(call[d])'
  <2>1. call'[d] = IF d = c THEN k ELSE call[d]
    BY DEF Inv, TypeOK, Update
  <2>2. CallOK(call'[d])
    BY <2>1 DEF Inv
  <2> QED BY <2>2 DEF CallOK, AnswerIsLate, IsIdentified, IsEntitled
<1> QED BY <1>1, <1>2

\* The same, when it changes nothing else.
LEMMA OnlyCallChanges ==
    ASSUME Inv, NEW c \in Calls, NEW k, CallOK(k), Update(c, k),
           UNCHANGED <<seerr, cache, store, since>>
    PROVE  Inv'
<1>1. TypeOK'
  BY CallChanges DEF Inv, TypeOK, seerr
<1>2. SaidNow'
  BY DEF Inv, SaidNow, Identity, seerr
<1>3. RememberedLately'
  BY DEF Inv, RememberedLately
<1> QED BY <1>1, <1>2, <1>3, CallChanges DEF Inv

\* What is fresh was so less than Window ago.
LEMMA FreshIsLate ==
    ASSUME Inv, NEW how \in Ways, NEW p \in People, Fresh(cache[how][p])
    PROVE  /\ cache[how][p].user \in Identities
           /\ since[p][cache[how][p].user] < Window
<1>1. cache[how][p] \in Entry
  BY DEF Inv, TypeOK, Fresh
<1>2. cache[how][p].user \in Identities /\ cache[how][p].age \in Nat
  BY <1>1, TimesAssumption DEF Entry
<1>3. cache[how][p].age < Ttl
  BY <1>2, TimesAssumption DEF Fresh
<1>4. since[p][cache[how][p].user] <= cache[how][p].age + Patience
  BY DEF Inv, RememberedLately, Fresh
<1>5. since[p][cache[how][p].user] \in 0 .. Window /\ Window \in Nat
  BY <1>2, TimesAssumption DEF Inv, TypeOK, Window
<1> QED BY <1>2, <1>3, <1>4, <1>5, TimesAssumption DEF Window

LEMMA WhomType ==
    ASSUME Inv, NEW c \in Calls
    PROVE  Whom(c) \in People /\ How(c) \in Ways /\ Who(c) \in People /\ About(c) \in People
BY DEF Inv, TypeOK, Call, AskType, Whom, How, Who, About, Ways

\* What Seerr is about to answer was so less than Window ago.
LEMMA AnswerIsLately ==
    ASSUME Inv, NEW c \in Calls, call[c].asked # None
    PROVE  /\ call[c].asked.user \in Identities
           /\ since[Whom(c)][call[c].asked.user] <= Patience
           /\ since[Whom(c)][call[c].asked.user] < Window
<1>1. call[c].asked \in [user: Identities, age: 0 .. Patience]
  BY DEF Inv, TypeOK, Call
<1>2. since[Whom(c)][call[c].asked.user] <= call[c].asked.age
  BY DEF Inv, CallOK, AnswerIsLate, Whom, At, About, Who
<1>3. since[Whom(c)][call[c].asked.user] \in 0 .. Window
  BY <1>1, WhomType DEF Inv, TypeOK
<1> QED BY <1>1, <1>2, <1>3, TimesAssumption DEF Window

\* A request goes on in order once it is known who is meant.
LEMMA KnownOK ==
    ASSUME Inv, NEW c \in Calls, NEW i \in Identities, Resolving(c),
           since[Whom(c)][i] < Window
    PROVE  CallOK(Known(c, i))
<1> USE DEF At
<1>1. call[c] \in Call /\ CallOK(call[c])
  BY DEF Inv, TypeOK
<1>2. CASE call[c].pc = "gate"
  <2>1. CASE isPrivileged(i)
    <3>1. Known(c, i) = Idle
      BY <1>2, <2>1 DEF Known
    <3> QED BY <3>1, IdleOK
  <2>2. CASE ~isPrivileged(i)
    <3>1. Known(c, i) = [call[c] EXCEPT !.pc = "who", !.asked = None]
      BY <1>2, <2>2 DEF Known
    <3> QED BY <1>1, <3>1 DEF CallOK, Call, PCs, AnswerIsLate, IsIdentified, IsEntitled
  <2> QED BY <2>1, <2>2
<1>3. CASE call[c].pc = "who"
  <2>1. CASE i # Nobody /\ call[c].ask.kind = "settings"
    <3> DEFINE lately == {j \in Identities : since[Who(c)][j] < Window}
    <3>1. Known(c, i) = [call[c] EXCEPT !.pc = "subject", !.asked = None, !.user = i,
                           !.held = lately]
      BY <1>3, <2>1 DEF Known
    <3>2. i \in lately /\ i \in Powers /\ lately \in SUBSET Identities
      BY <1>3, <2>1 DEF Whom, Identities
    <3> HIDE DEF lately
    <3>3. Known(c, i) \in Call
      BY <1>1, <3>1, <3>2 DEF Call, PCs
    <3>4. /\ Known(c, i).pc = "subject" /\ Known(c, i).asked = None
          /\ Known(c, i).user = i /\ Known(c, i).held = lately
      BY <1>1, <3>1 DEF Call
    <3> QED BY <3>2, <3>3, <3>4 DEF CallOK, AnswerIsLate, IsIdentified, IsEntitled
  <2>2. CASE ~(i # Nobody /\ call[c].ask.kind = "settings")
    <3>1. Known(c, i) = Idle
      BY <1>3, <2>2 DEF Known
    <3> QED BY <3>1, IdleOK
  <2> QED BY <2>1, <2>2
<1>4. CASE call[c].pc = "subject"
  <2>1. Known(c, i) = [call[c] EXCEPT !.pc = "forward", !.asked = None,
                                      !.subject = i # Nobody]
    BY <1>4 DEF Known
  <2> QED BY <1>1, <1>4, <2>1 DEF CallOK, Call, PCs, AnswerIsLate, IsIdentified, IsEntitled
<1> QED BY <1>2, <1>3, <1>4 DEF Resolving

-----------------------------------------------------------------------------
(* The steps.                                                              *)

LEMMA TellsInv ==
    ASSUME Inv, NEW c \in Calls, Told(c)
    PROVE  Inv'
<1> DEFINE i == call[c].asked.user
<1>1. i \in Identities /\ since[Whom(c)][i] <= Patience /\ since[Whom(c)][i] < Window
  BY AnswerIsLately DEF Told
<1>2. Update(c, Known(c, i)) /\ CallOK(Known(c, i)) /\ UNCHANGED since
  BY <1>1, KnownOK DEF Told
<1>3. call' \in [Calls -> Call] /\ \A d \in Calls : CallOK(call[d])'
  <2> HIDE DEF i
  <2> QED BY <1>2, CallChanges
<1>4. Whom(c) \in People /\ How(c) \in Ways
  BY WhomType
<1>5. /\ cache' \in [Ways -> [People -> {None} \cup Entry]]
      /\ \A how \in Ways, p \in People :
           \/ cache'[how][p] = None
           \/ cache'[how][p] = cache[how][p]
           \/ how = How(c) /\ p = Whom(c) /\ cache'[how][p] = [user |-> i, age |-> 0]
  <2> DEFINE full == Cardinality({q \in People : cache[How(c)][q] # None}) > Room
             kept == [q \in People |-> IF full THEN None ELSE cache[How(c)][q]]
             new == [user |-> i, age |-> 0]
  <2>1. cache' = [cache EXCEPT ![How(c)] = [kept EXCEPT ![Whom(c)] = new]]
    BY DEF Told, Remember
  <2>2. new \in Entry
    BY <1>1, TimesAssumption DEF Entry
  <2>3. cache \in [Ways -> [People -> {None} \cup Entry]]
    BY DEF Inv, TypeOK
  <2>4. kept \in [People -> {None} \cup Entry]
    BY <1>4, <2>3
  <2>5. \A p \in People : kept[p] = None \/ kept[p] = cache[How(c)][p]
    OBVIOUS
  <2> HIDE DEF kept, new
  <2>6. cache' \in [Ways -> [People -> {None} \cup Entry]]
    BY <1>4, <2>1, <2>2, <2>3, <2>4
  <2>7. ASSUME NEW how \in Ways, NEW p \in People
        PROVE  \/ cache'[how][p] = None
               \/ cache'[how][p] = cache[how][p]
               \/ how = How(c) /\ p = Whom(c) /\ cache'[how][p] = new
    <3>1. CASE how # How(c)
      BY <2>1, <2>3, <3>1
    <3>2. CASE how = How(c)
      <4>1. cache'[how] = [kept EXCEPT ![Whom(c)] = new]
        BY <2>1, <2>3, <3>2
      <4> QED BY <2>4, <2>5, <3>2, <4>1
    <3> QED BY <3>1, <3>2
  <2> QED BY <2>6, <2>7 DEF new
<1>6. TypeOK'
  BY <1>3, <1>5 DEF Inv, TypeOK, Told, seerr
<1>7. SaidNow'
  BY DEF Inv, SaidNow, Identity, seerr, Told
<1>8. ASSUME NEW how \in Ways, NEW p \in People, cache'[how][p] # None
      PROVE  since'[p][cache'[how][p].user] <= cache'[how][p].age + Patience
  <2>1. CASE cache'[how][p] = cache[how][p]
    BY <1>2, <1>8, <2>1 DEF Inv, RememberedLately
  <2>2. CASE p = Whom(c) /\ cache'[how][p] = [user |-> i, age |-> 0]
    BY <1>1, <1>2, <2>2, TimesAssumption
  <2> QED BY <1>5, <1>8, <2>1, <2>2
<1>9. RememberedLately'
  BY <1>8 DEF RememberedLately
<1> QED BY <1>3, <1>6, <1>7, <1>9 DEF Inv

\* Everything else a request does.
LEMMA RequestInv ==
    ASSUME Inv, NEW c \in Calls,
           \/ \E ask \in Asks : Arrive(c, ask)
           \/ RelaySignIn(c) \/ UseRemembered(c) \/ Ask(c) \/ NotTold(c)
           \/ SubjectIsCaller(c) \/ Forward(c) \/ ForwardFails(c) \/ PutFails(c)
    PROVE  Inv'
<1> USE DEF At
<1>0. call[c] \in Call /\ CallOK(call[c])
  BY DEF Inv, TypeOK
<1>1. CASE \E ask \in Asks : Arrive(c, ask)
  <2>1. PICK ask \in Asks : Arrive(c, ask)
    BY <1>1
  <2> DEFINE k == [Idle EXCEPT !.ask = ask,
                               !.pc = IF ask.kind = "signin" THEN "signin"
                                      ELSE IF ask.relayed THEN "gate" ELSE "who"]
  <2>2. ask \in AskType /\ Idle \in Call
    BY AsksAssumption, IdleOK DEF CallOK
  <2>3. k \in Call
    BY <2>2 DEF Call, PCs
  <2>4. k.asked = None /\ k.pc \notin {"subject", "forward", "put"}
    BY <2>2 DEF Idle
  <2>5. CallOK(k)
    <3> HIDE DEF k
    <3> QED BY <2>3, <2>4 DEF CallOK, AnswerIsLate, IsIdentified, IsEntitled
  <2>6. Update(c, k) /\ UNCHANGED <<seerr, cache, store, since>>
    BY <2>1 DEF Arrive
  <2> HIDE DEF k
  <2> QED BY <2>5, <2>6, OnlyCallChanges
<1>2. CASE RelaySignIn(c) \/ ForwardFails(c) \/ PutFails(c)
  BY <1>2, IdleOK, OnlyCallChanges DEF RelaySignIn, ForwardFails, PutFails
<1>3. CASE UseRemembered(c)
  <2> DEFINE i == Remembered(c).user
  <2>1. i \in Identities /\ since[Whom(c)][i] < Window
    BY <1>3, FreshIsLate, WhomType DEF UseRemembered, Remembered
  <2>2. Update(c, Known(c, i)) /\ UNCHANGED <<seerr, cache, store, since>> /\ Resolving(c)
    BY <1>3 DEF UseRemembered
  <2> HIDE DEF i
  <2> QED BY <2>1, <2>2, KnownOK, OnlyCallChanges
<1>4. CASE Ask(c)
  <2> DEFINE said == [user |-> Identity(Whom(c), How(c)), age |-> 0]
             k == [call[c] EXCEPT !.asked = said]
  <2>1. Identity(Whom(c), How(c)) \in Identities
    BY WhomType, IdentityType DEF Inv
  <2>2. since[Whom(c)][Identity(Whom(c), How(c))] = 0
    BY WhomType DEF Inv, SaidNow
  <2>3. k \in Call
    BY <1>0, <2>1, TimesAssumption DEF Call
  <2>4. AnswerIsLate(k)
    <3>1. k.asked = said /\ k.pc = call[c].pc /\ k.ask = call[c].ask
      BY <1>0 DEF Call
    <3>2. Resolving(c)
      BY <1>4 DEF Ask
    <3> HIDE DEF k
    <3> QED BY <2>2, <3>1, <3>2 DEF AnswerIsLate, Resolving, Whom, Who, About
  <2>5. IsIdentified(k) /\ IsEntitled(k)
    BY <1>0 DEF CallOK, Call, IsIdentified, IsEntitled
  <2>6. Update(c, k) /\ UNCHANGED <<seerr, cache, store, since>>
    BY <1>4 DEF Ask
  <2> HIDE DEF k
  <2> QED BY <2>3, <2>4, <2>5, <2>6, OnlyCallChanges DEF CallOK
<1>5. CASE NotTold(c)
  <2>1. CASE call[c].pc = "subject"
    <3> DEFINE k == [call[c] EXCEPT !.pc = "forward", !.asked = None, !.subject = FALSE]
    <3>1. Update(c, k) /\ UNCHANGED <<seerr, cache, store, since>>
      BY <1>5, <2>1 DEF NotTold
    <3>2. CallOK(k)
      BY <1>0, <2>1 DEF CallOK, Call, PCs, AnswerIsLate, IsIdentified, IsEntitled
    <3> HIDE DEF k
    <3> QED BY <3>1, <3>2, OnlyCallChanges
  <2>2. CASE call[c].pc # "subject"
    BY <1>5, <2>2, IdleOK, OnlyCallChanges DEF NotTold
  <2> QED BY <2>1, <2>2
<1>6. CASE SubjectIsCaller(c)
  <2> DEFINE k == [call[c] EXCEPT !.pc = "forward", !.subject = TRUE]
  <2>1. Update(c, k) /\ UNCHANGED <<seerr, cache, store, since>>
    BY <1>6 DEF SubjectIsCaller
  <2>2. call[c].asked = None
    BY <1>0, <1>6 DEF SubjectIsCaller, CallOK, AnswerIsLate, About, Who
  <2>3. CallOK(k)
    BY <1>0, <1>6, <2>2 DEF SubjectIsCaller, CallOK, Call, PCs, AnswerIsLate, IsIdentified,
         IsEntitled
  <2> HIDE DEF k
  <2> QED BY <2>1, <2>3, OnlyCallChanges
<1>7. CASE Forward(c)
  <2> DEFINE apply == allowedChanges(call[c].user, About(c) = Who(c), call[c].ask.wants)
             k == [call[c] EXCEPT !.pc = "put", !.apply = apply, !.managed = SeerrManages(c)]
  <2>1. CASE apply # Nothing /\ call[c].subject /\ About(c) \in Linked
    <3>1. Update(c, k) /\ UNCHANGED <<seerr, cache, store, since>>
      BY <1>7, <2>1 DEF Forward
    <3>2. apply \in Changes
      BY <1>0, AllowedType DEF Call, AskType
    <3>3. SeerrManages(c) \in BOOLEAN
      BY DEF SeerrManages, hasPermission
    <3>4. About(c) = Who(c) \/ SeerrManages(c)
      BY <1>7 DEF Forward, SeerrAccepts
    <3>5. call[c].asked = None
      BY <1>0, <1>7 DEF Forward, CallOK, AnswerIsLate
    <3> HIDE DEF apply
    <3>6. k \in Call
      BY <1>0, <3>2, <3>3 DEF Call, PCs
    <3>7. /\ k.pc = "put" /\ k.apply = apply /\ k.managed = SeerrManages(c)
          /\ k.user = call[c].user /\ k.held = call[c].held /\ k.ask = call[c].ask
          /\ k.asked = None
      BY <1>0, <3>5 DEF Call
    <3> HIDE DEF k
    <3>8. AnswerIsLate(k) /\ IsIdentified(k)
      BY <1>0, <1>7, <3>7 DEF Forward, CallOK, AnswerIsLate, IsIdentified
    <3>9. IsEntitled(k)
      BY <3>4, <3>7 DEF IsEntitled, apply, About, Who
    <3> QED BY <3>1, <3>6, <3>8, <3>9, OnlyCallChanges DEF CallOK
  <2>2. CASE ~(apply # Nothing /\ call[c].subject /\ About(c) \in Linked)
    BY <1>7, <2>2, IdleOK, OnlyCallChanges DEF Forward
  <2> QED BY <2>1, <2>2
<1> QED BY <1>1, <1>2, <1>3, <1>4, <1>5, <1>6, <1>7

LEMMA StoresInv ==
    ASSUME Inv, NEW c \in Calls, PutStored(c)
    PROVE  Inv'
<1>1. call' \in [Calls -> Call] /\ \A d \in Calls : CallOK(call[d])'
  BY IdleOK, CallChanges DEF PutStored
<1>2. store' \in [Linked -> [Fields -> BOOLEAN]]
  <2>1. call[c].apply \in Changes
    BY DEF Inv, TypeOK, Call
  <2>2. \A p \in Linked : Merged(store[p], call[c].apply) \in [Fields -> BOOLEAN]
    BY <2>1, MergedType DEF Inv, TypeOK
  <2> QED BY <2>2 DEF PutStored, Inv, TypeOK
<1>3. TypeOK'
  BY <1>1, <1>2 DEF Inv, TypeOK, PutStored, seerr
<1>4. SaidNow' /\ RememberedLately'
  BY DEF Inv, SaidNow, RememberedLately, Identity, seerr, PutStored
<1> QED BY <1>1, <1>3, <1>4 DEF Inv

\* Seerr says something else from now on.  Whatever it said is as old as it was,
\* or is what it says now.
LEMMA NoticeInv ==
    ASSUME Inv, NEW p \in People, power' \in [People -> Powers],
           signedIn' \in SUBSET People, UNCHANGED <<cache, store, call>>,
           \A q \in People \ {p}, how \in Ways : Identity(q, how)' = Identity(q, how),
           Notice(p)
    PROVE  Inv'
<1>1. Window \in Nat
  BY TimesAssumption DEF Window
<1>2. since' \in [People -> [Identities -> 0 .. Window]]
  BY <1>1 DEF Inv, TypeOK, Notice
<1>3. \A q \in People, i \in Identities : since'[q][i] <= since[q][i]
  BY <1>1, <1>2 DEF Inv, TypeOK, Notice
<1>4. TypeOK'
  BY <1>2 DEF Inv, TypeOK
<1>5. ASSUME NEW q \in People, NEW how \in Ways PROVE since'[q][Identity(q, how)'] = 0
  <2>1. Identity(q, how)' \in Identities
    BY DEF Identity, Identities
  <2>2. CASE q = p
    BY <2>1, <2>2 DEF Inv, TypeOK, Notice
  <2>3. CASE q # p
    BY <2>1, <2>3 DEF Inv, TypeOK, SaidNow, Notice
  <2> QED BY <2>2, <2>3
<1>6. SaidNow'
  BY <1>5 DEF SaidNow
<1>7. ASSUME NEW how \in Ways, NEW q \in People, cache[how][q] # None
      PROVE  since'[q][cache[how][q].user] <= cache[how][q].age + Patience
  <2>1. cache[how][q] \in Entry
    BY <1>7 DEF Inv, TypeOK
  <2>2. cache[how][q].user \in Identities /\ cache[how][q].age \in Nat
    BY <2>1, TimesAssumption DEF Entry
  <2>3. since[q][cache[how][q].user] <= cache[how][q].age + Patience
    BY <1>7 DEF Inv, RememberedLately
  <2>4. /\ since[q][cache[how][q].user] \in 0 .. Window
        /\ since'[q][cache[how][q].user] \in 0 .. Window
        /\ since'[q][cache[how][q].user] <= since[q][cache[how][q].user]
    BY <1>2, <1>3, <2>2 DEF Inv, TypeOK
  <2> QED BY <1>1, <2>2, <2>3, <2>4, TimesAssumption
<1>8. RememberedLately'
  BY <1>7 DEF RememberedLately
<1>9. ASSUME NEW d \in Calls PROVE CallOK(call[d])'
  <2> DEFINE k == call[d]
             p0 == IF k.pc = "subject" THEN k.ask.about ELSE k.ask.who
  <2>1. CallOK(k)
    BY DEF Inv
  <2>2. k \in Call
    BY <2>1 DEF CallOK
  <2>3. CASE k.asked # None
    <3>1. k.asked \in [user: Identities, age: 0 .. Patience] /\ p0 \in People
      BY <2>2, <2>3 DEF Call, AskType
    <3>2. since[p0][k.asked.user] <= k.asked.age
      BY <2>1, <2>3 DEF CallOK, AnswerIsLate
    <3>3. /\ since[p0][k.asked.user] \in 0 .. Window
          /\ since'[p0][k.asked.user] \in 0 .. Window
          /\ since'[p0][k.asked.user] <= since[p0][k.asked.user]
      BY <1>2, <1>3, <3>1 DEF Inv, TypeOK
    <3>4. since'[p0][k.asked.user] <= k.asked.age
      BY <1>1, <3>1, <3>2, <3>3, TimesAssumption
    <3> QED BY <2>1, <3>4 DEF CallOK, AnswerIsLate, IsIdentified, IsEntitled
  <2>4. CASE k.asked = None
    BY <2>1, <2>4 DEF CallOK, AnswerIsLate, IsIdentified, IsEntitled
  <2> QED BY <2>3, <2>4
<1> QED BY <1>4, <1>6, <1>8, <1>9 DEF Inv

\* A tick: every answer, entry and permission is one older.
LEMMA TickInv ==
    ASSUME Inv, Tick
    PROVE  Inv'
<1>1. Window \in Nat /\ Ttl \in Nat /\ Patience \in Nat /\ Window = Ttl + Patience
  BY TimesAssumption DEF Window
<1>2. \A p \in People, how \in Ways : Identity(p, how)' = Identity(p, how)
  BY DEF Tick, seerr, Identity
<1>3. since' \in [People -> [Identities -> 0 .. Window]]
  BY <1>1 DEF Inv, TypeOK, Tick, Older
<1>4. ASSUME NEW p \in People, NEW i \in Identities
      PROVE  since'[p][i] <= since[p][i] + 1 /\ since'[p][i] \in 0 .. Window
             /\ since[p][i] \in 0 .. Window
  BY <1>1, <1>3 DEF Inv, TypeOK, Tick, Older
<1>5. SaidNow'
  <2> SUFFICES ASSUME NEW p \in People, NEW how \in Ways
               PROVE  since'[p][Identity(p, how)'] = 0
    BY DEF SaidNow
  <2>1. Identity(p, how) \in Identities
    BY IdentityType DEF Inv
  <2> QED BY <1>2, <2>1 DEF Tick
<1>6. /\ cache' \in [Ways -> [People -> {None} \cup Entry]]
      /\ \A how \in Ways, p \in People : cache'[how][p] # None =>
           /\ cache[how][p] \in Entry
           /\ cache'[how][p].user = cache[how][p].user
           /\ cache'[how][p].age = Older(cache[how][p].age, Ttl)
           /\ cache[how][p] # None
  <2>1. ASSUME NEW how \in Ways, NEW p \in People, cache[how][p] # None
        PROVE  /\ cache[how][p] \in Entry
               /\ [cache[how][p] EXCEPT !.age = Older(@, Ttl)] \in Entry
    BY <1>1, <2>1 DEF Inv, TypeOK, Entry, Older
  <2>2. \A how \in Ways, p \in People :
           cache'[how][p] = IF cache[how][p] = None THEN None
                            ELSE [cache[how][p] EXCEPT !.age = Older(@, Ttl)]
    BY DEF Tick
  <2>3. cache' \in [Ways -> [People -> {None} \cup Entry]]
    BY <2>1 DEF Tick
  <2>4. ASSUME NEW how \in Ways, NEW p \in People, cache'[how][p] # None
        PROVE  /\ cache[how][p] \in Entry
               /\ cache'[how][p].user = cache[how][p].user
               /\ cache'[how][p].age = Older(cache[how][p].age, Ttl)
               /\ cache[how][p] # None
    <3>1. /\ cache[how][p] # None
          /\ cache'[how][p] = [cache[how][p] EXCEPT !.age = Older(@, Ttl)]
      BY <2>2, <2>4
    <3>2. cache[how][p] \in Entry
      BY <2>1, <3>1
    <3> QED BY <3>1, <3>2 DEF Entry
  <2> QED BY <2>3, <2>4
<1>7. ASSUME NEW how \in Ways, NEW p \in People, cache'[how][p] # None
      PROVE  since'[p][cache'[how][p].user] <= cache'[how][p].age + Patience
  <2>1. cache[how][p].user \in Identities /\ cache[how][p].age \in 0 .. Ttl
    BY <1>6, <1>7 DEF Entry
  <2>2. since[p][cache[how][p].user] <= cache[how][p].age + Patience
    BY <1>6, <1>7 DEF Inv, RememberedLately
  <2>3. CASE cache[how][p].age < Ttl
    BY <1>1, <1>4, <1>6, <1>7, <2>1, <2>2, <2>3 DEF Older
  <2>4. CASE cache[how][p].age = Ttl
    BY <1>1, <1>4, <1>6, <1>7, <2>1, <2>4 DEF Older
  <2> QED BY <1>1, <2>1, <2>3, <2>4
<1>8. RememberedLately'
  BY <1>7 DEF RememberedLately
<1>9. ASSUME NEW d \in Calls PROVE CallOK(call[d])'
  <2>1. CallOK(call[d]) /\ call[d] \in Call
    BY DEF Inv, CallOK
  <2>2. CASE call[d].asked = None
    <3>1. call'[d] = call[d]
      BY <2>2 DEF Tick
    <3> QED BY <2>1, <2>2, <3>1 DEF CallOK, AnswerIsLate, IsIdentified, IsEntitled
  <2>3. CASE call[d].asked # None
    <3> DEFINE a == call[d].asked
               k == [call[d] EXCEPT !.asked.age = @ + 1]
               p0 == IF call[d].pc = "subject" THEN call[d].ask.about ELSE call[d].ask.who
    <3>1. a \in [user: Identities, age: 0 .. Patience] /\ p0 \in People
      BY <2>1, <2>3 DEF Call, AskType
    <3>2. a.age < Patience /\ call'[d] = k
      BY <2>3 DEF Tick
    <3>3. k.asked = [user |-> a.user, age |-> a.age + 1]
      BY <2>1, <3>1 DEF Call
    <3>4. k.asked \in [user: Identities, age: 0 .. Patience]
      BY <1>1, <3>1, <3>2, <3>3
    <3>5. /\ k.pc = call[d].pc /\ k.ask = call[d].ask /\ k.user = call[d].user
          /\ k.held = call[d].held /\ k.apply = call[d].apply /\ k.managed = call[d].managed
      BY <2>1 DEF Call
    <3>6. k \in Call
      BY <2>1, <3>4 DEF Call
    <3>7. since[p0][a.user] <= a.age
      BY <2>1, <2>3 DEF CallOK, AnswerIsLate
    <3>8. since'[p0][a.user] <= a.age + 1
      BY <1>1, <1>4, <3>1, <3>7
    <3>9. /\ \/ call[d].pc \in {"gate", "who"}
             \/ call[d].pc = "subject" /\ call[d].ask.about # call[d].ask.who
          /\ IsIdentified(call[d]) /\ IsEntitled(call[d])
      BY <2>1, <2>3 DEF CallOK, AnswerIsLate
    <3>10. k.asked.user = a.user /\ k.asked.age = a.age + 1
      BY <3>3
    <3> HIDE DEF k
    <3>11. /\ call'[d].pc = call[d].pc /\ call'[d].ask = call[d].ask
          /\ call'[d].asked.user = a.user /\ call'[d].asked.age = a.age + 1
          /\ since'[p0][a.user] <= a.age + 1
      BY <3>2, <3>5, <3>8, <3>10
    <3> HIDE DEF a
    <3>12. AnswerIsLate(call[d])'
      BY <3>9, <3>11 DEF AnswerIsLate
    <3>13. IsIdentified(k) /\ IsEntitled(k)
      BY <3>5, <3>9 DEF IsIdentified, IsEntitled
    <3>14. IsIdentified(call[d])' /\ IsEntitled(call[d])'
      BY <3>2, <3>13 DEF IsIdentified, IsEntitled
    <3> QED BY <3>2, <3>6, <3>12, <3>14 DEF CallOK
  <2> QED BY <2>2, <2>3
<1>10. TypeOK'
  <2>1. call' \in [Calls -> Call]
    BY <1>9 DEF CallOK, Tick
  <2> QED BY <1>3, <1>6, <2>1 DEF Inv, TypeOK, Tick, seerr
<1> QED BY <1>5, <1>8, <1>9, <1>10 DEF Inv

LEMMA RestartInv ==
    ASSUME Inv, Restart
    PROVE  Inv'
<1>1. \A d \in Calls : call'[d] = Idle
  BY DEF Restart
<1>2. \A d \in Calls : CallOK(call[d])'
  BY <1>1, IdleOK DEF CallOK, AnswerIsLate, IsIdentified, IsEntitled, Idle
<1>3. TypeOK'
  BY IdleOK DEF Inv, TypeOK, Restart, seerr, CallOK
<1>4. SaidNow' /\ RememberedLately'
  BY DEF Inv, SaidNow, RememberedLately, Identity, seerr, Restart
<1> QED BY <1>2, <1>3, <1>4 DEF Inv

THEOREM NextInv == Inv /\ [Next]_vars => Inv'
<1> SUFFICES ASSUME Inv, [Next]_vars PROVE Inv'
  OBVIOUS
<1>1. CASE \E c \in Calls : Told(c)
  BY <1>1, TellsInv
<1>2. CASE \E c \in Calls : PutStored(c)
  BY <1>2, StoresInv
<1>3. ASSUME NEW c \in Calls,
             \/ \E ask \in Asks : Arrive(c, ask)
             \/ RelaySignIn(c) \/ UseRemembered(c) \/ Ask(c) \/ NotTold(c)
             \/ SubjectIsCaller(c) \/ Forward(c) \/ ForwardFails(c) \/ PutFails(c)
      PROVE  Inv'
  BY <1>3, RequestInv
<1>4. ASSUME NEW p \in People, PowerChanges(p) PROVE Inv'
  <2>1. power' \in [People -> Powers] /\ \A q \in People \ {p} : power'[q] = power[q]
    BY <1>4 DEF PowerChanges, Inv, TypeOK
  <2>2. \A q \in People \ {p}, how \in Ways : Identity(q, how)' = Identity(q, how)
    BY <1>4, <2>1 DEF PowerChanges, Identity
  <2> QED BY <1>4, <2>1, <2>2, NoticeInv DEF PowerChanges, Inv, TypeOK
<1>5. ASSUME NEW p \in People, SignOut(p) PROVE Inv'
  <2>1. signedIn' \in SUBSET People /\ \A q \in People \ {p} : q \in signedIn' <=> q \in signedIn
    BY <1>5 DEF SignOut, Inv, TypeOK
  <2>2. \A q \in People \ {p}, how \in Ways : Identity(q, how)' = Identity(q, how)
    BY <1>5, <2>1 DEF SignOut, Identity
  <2> QED BY <1>5, <2>1, <2>2, NoticeInv DEF SignOut, Inv, TypeOK
<1>6. CASE Tick
  BY <1>6, TickInv
<1>7. CASE Restart
  BY <1>7, RestartInv
<1>8. CASE UNCHANGED vars
  BY <1>8 DEF vars, seerr, Inv, TypeOK, SaidNow, RememberedLately, Identity, CallOK,
     AnswerIsLate, IsIdentified, IsEntitled
<1> QED BY <1>1, <1>2, <1>3, <1>4, <1>5, <1>6, <1>7, <1>8 DEF Next

THEOREM InvHolds == Spec => []Inv
BY InitInv, NextInv, PTL DEF Spec

-----------------------------------------------------------------------------
(* The properties.                                                         *)

\* Every variable keeps its type, for any accounts, requests and times
\* (guard.mjs).
THEOREM TypeCorrect == Spec => []TypeOK
<1>1. Inv => TypeOK
  BY DEF Inv
<1> QED BY <1>1, InvHolds, PTL

\* What gets past the gate was, less than Window ago, an account that could not
\* change Seerr (handle, resolveUser, userById).
THEOREM RelayIsForPlainAccounts == Spec => HomeOnly
<1> DEFINE HomeOnlyStep ==
      \A c \in Calls :
         At(c, "gate") /\ call'[c].pc = "who" =>
             \E i \in Identities : ~isPrivileged(i) /\ since[Who(c)][i] < Window
<1>1. Inv /\ [Next]_vars => [HomeOnlyStep]_vars
  <2> SUFFICES ASSUME Inv, Next, NEW c \in Calls, At(c, "gate"), call'[c].pc = "who"
               PROVE  \E i \in Identities : ~isPrivileged(i) /\ since[Who(c)][i] < Window
    OBVIOUS
  <2> USE DEF At
  <2>1. call \in [Calls -> Call] /\ call[c] \in Call /\ Idle.pc = "idle"
    BY DEF Inv, TypeOK, Idle
  <2>2. Whom(c) = Who(c)
    BY DEF Whom
  <2>3. ASSUME NEW i \in Identities, Update(c, Known(c, i)) PROVE ~isPrivileged(i)
    <3>1. call'[c] = Known(c, i)
      BY <2>1, <2>3 DEF Update
    <3>2. isPrivileged(i) => Known(c, i) = Idle
      BY DEF Known
    <3> QED BY <2>1, <3>1, <3>2
  <2>4. CASE UseRemembered(c)
    <3>1. Fresh(cache[How(c)][Who(c)]) /\ Update(c, Known(c, cache[How(c)][Who(c)].user))
      BY <2>2, <2>4 DEF UseRemembered, Remembered
    <3> QED BY <2>3, <3>1, FreshIsLate, WhomType
  <2>5. CASE Told(c)
    <3>1. call[c].asked # None /\ Update(c, Known(c, call[c].asked.user))
      BY <2>5 DEF Told
    <3> QED BY <2>2, <2>3, <3>1, AnswerIsLately
  <2>6. ASSUME NEW d \in Calls, NEW k, Update(d, k), d # c PROVE FALSE
    BY <2>1, <2>6 DEF Update
  <2>7. ASSUME NEW d \in Calls,
               \/ \E ask \in Asks : Arrive(d, ask)
               \/ RelaySignIn(d) \/ UseRemembered(d) \/ Ask(d) \/ Told(d) \/ NotTold(d)
               \/ SubjectIsCaller(d) \/ Forward(d) \/ ForwardFails(d)
               \/ PutStored(d) \/ PutFails(d)
        PROVE  UseRemembered(c) \/ Told(c)
    <3>1. \E k : Update(d, k)
      BY <2>7 DEF Arrive, RelaySignIn, UseRemembered, Ask, Told, NotTold, SubjectIsCaller,
         Forward, ForwardFails, PutStored, PutFails
    <3>2. d = c
      BY <2>6, <3>1
    <3>3. ~Ask(c)
      BY <2>1 DEF Ask, Update, Call
    <3>4. ~NotTold(c)
      BY <2>1 DEF NotTold, Update
    <3> QED BY <2>7, <3>2, <3>3, <3>4 DEF Arrive, RelaySignIn, SubjectIsCaller, Forward,
           ForwardFails, PutStored, PutFails
  <2>8. ~Tick
    <3>1. call[c].asked = None => call'[c].pc = call[c].pc \/ ~Tick
      BY DEF Tick
    <3>2. [call[c] EXCEPT !.asked.age = @ + 1].pc = call[c].pc
      BY <2>1 DEF Call
    <3>3. call[c].asked # None => call'[c].pc = call[c].pc \/ ~Tick
      BY <3>2 DEF Tick
    <3> QED BY <3>1, <3>3
  <2>9. ~Restart
    BY <2>1 DEF Restart
  <2>10. \A p \in People : ~PowerChanges(p) /\ ~SignOut(p)
    BY DEF PowerChanges, SignOut
  <2> QED BY <2>4, <2>5, <2>7, <2>8, <2>9, <2>10 DEF Next
<1> QED BY <1>1, InvHolds, PTL DEF Spec, HomeOnly

\* Who changes a filter has the right to, as far as Seerr and the last Window
\* know (settingsResponse, allowedChanges).
THEOREM FiltersChangedByRight == Spec => ChangedByRight
<1> DEFINE ByRightStep ==
      \A p \in Linked : store'[p] # store[p] =>
         \E c \in Calls :
           /\ At(c, "put") /\ About(c) = p
           /\ Who(c) = p \/ call[c].managed
           /\ store'[p].blockedTags # store[p].blockedTags =>
                \E i \in call[c].held : hasPermission(i, "MANAGE_USERS")
<1>1. Inv /\ [Next]_vars => [ByRightStep]_vars
  <2> SUFFICES ASSUME Inv, Next, NEW p \in Linked, store'[p] # store[p]
               PROVE  \E c \in Calls :
                        /\ At(c, "put") /\ About(c) = p
                        /\ Who(c) = p \/ call[c].managed
                        /\ store'[p].blockedTags # store[p].blockedTags =>
                             \E i \in call[c].held : hasPermission(i, "MANAGE_USERS")
    OBVIOUS
  <2>1. PICK c \in Calls : PutStored(c)
    BY DEF Next, Arrive, RelaySignIn, UseRemembered, Ask, Told, NotTold, SubjectIsCaller,
       Forward, ForwardFails, PutFails, PowerChanges, SignOut, Tick, Restart
  <2>2. store' = [store EXCEPT ![About(c)] = Merged(store[About(c)], call[c].apply)]
    BY <2>1 DEF PutStored
  <2>3. About(c) = p /\ store'[p] = Merged(store[p], call[c].apply)
    BY <2>2 DEF Inv, TypeOK
  <2>4. CallOK(call[c]) /\ At(c, "put")
    BY <2>1 DEF Inv, PutStored
  <2>5. Who(c) = p \/ call[c].managed
    BY <2>3, <2>4 DEF CallOK, IsEntitled, At, About, Who
  <2>6. ASSUME store'[p].blockedTags # store[p].blockedTags
        PROVE  hasPermission(call[c].user, "MANAGE_USERS") /\ call[c].user \in call[c].held
    <3>1. "blockedTags" \in DOMAIN call[c].apply
      BY <2>3, <2>6 DEF Merged, Fields
    <3>2. call[c].apply = allowedChanges(call[c].user, About(c) = Who(c), call[c].ask.wants)
      BY <2>4 DEF CallOK, IsEntitled, At, About, Who
    <3> QED BY <2>4, <3>1, <3>2 DEF allowedChanges, CallOK, IsIdentified, At
  <2> QED BY <2>3, <2>4, <2>5, <2>6
<1> QED BY <1>1, InvHolds, PTL DEF Spec, ChangedByRight

=============================================================================
