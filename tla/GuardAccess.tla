---------------------------- MODULE GuardAccess ----------------------------
(***************************************************************************)
(* Who a request to seerr-guard is from and what they may do (guard.mjs,   *)
(* filter.mjs).  Seerr says who it is; the guard remembers the answer for  *)
(* a while, and decides by it whether to serve an account that came        *)
(* through the public relay and which filter settings it may change.       *)
(*                                                                         *)
(* Permissions are given and taken in Seerr at any moment.  Time passes in *)
(* ticks.  What of a request is filtered is GuardRequest's subject, how a  *)
(* change is read back GuardStore's.  The guard is not in shadow mode.     *)
(***************************************************************************)
EXTENDS Naturals, FiniteSets

CONSTANTS
    People,     \* Seerr accounts
    Linked,     \* those with a Jellyfin account
    Powers,     \* the sets of permissions an account may have
    Nobody,     \* what Seerr says of a session that is over
    None,       \* no entry in a cache
    Calls,      \* requests in progress
    Asks,       \* what they may ask for
    Ttl,        \* how long an account is remembered, 60 s
    NobodyTtl,  \* and a session without one, 10 s
    Patience,   \* how long Seerr may take to answer, 5 s
    Room        \* entries beyond which a cache is emptied, 5000

ASSUME LinkedAssumption == Linked \subseteq People
ASSUME PowersAssumption == Powers \subseteq SUBSET {"ADMIN", "MANAGE_SETTINGS", "MANAGE_USERS"}
ASSUME NobodyAssumption == Nobody \notin Powers
ASSUME TimesAssumption ==
    /\ Ttl \in Nat \ {0} /\ NobodyTtl \in 1 .. Ttl
    /\ Patience \in Nat /\ Room \in Nat

VARIABLES
    power,      \* in Seerr: each account's permissions
    signedIn,   \* in Seerr: the accounts whose session is not over yet
    cache,      \* sessions and usersById
    store,      \* each person's entry in the filter store
    call,       \* each request's local state
    since       \* history: ticks since Seerr last said this of an account

seerr == <<power, signedIn>>
vars == <<seerr, cache, store, call, since>>

Identities == Powers \cup {Nobody}
Fields == {"blockedTags", "hideAdult"}
Changes == UNION {[fields -> BOOLEAN] : fields \in SUBSET Fields}

\* For less than this an account is taken for what it is no more.
Window == Ttl + Patience

-----------------------------------------------------------------------------
(* filter.mjs.                                                             *)

hasPermission(identity, bit) ==
    identity \in Powers /\ ("ADMIN" \in identity \/ bit \in identity)

isPrivileged(identity) == identity \in Powers /\ identity # {}

\* What is imposed takes a manager; the switch is also one's own.
allowedChanges(actor, own, wants) ==
    [f \in {g \in DOMAIN wants : \/ hasPermission(actor, "MANAGE_USERS")
                                 \/ g = "hideAdult" /\ own} |-> wants[f]]

\* withPersonChange, in jellylab-push.
Merged(entry, changes) ==
    [f \in Fields |-> IF f \in DOMAIN changes THEN changes[f] ELSE entry[f]]

-----------------------------------------------------------------------------
(* A request.  "signin" is a sign-in through the relay, "settings" a POST  *)
(* of somebody's settings, "other" anything else that is not passed on     *)
(* unseen.                                                                 *)

Kinds == {"signin", "settings", "other"}
PCs == {"idle", "signin", "gate", "who", "subject", "forward", "put"}
Ways == {"session", "key"}

AskType == [ kind: Kinds,
             who: People,           \* whose session, or whom the API key acts as
             how: Ways,
             relayed: BOOLEAN,
             about: People,         \* whose settings
             wants: Changes ]

ASSUME AsksAssumption ==
    /\ Asks \subseteq AskType /\ Asks # {}
    /\ \A a \in Asks : a.kind = "signin" => a.relayed

Call == [ pc: PCs,
          ask: AskType,
          asked: {None} \cup [user: Identities, age: 0 .. Patience],
                                    \* what Seerr, asked that many ticks ago,
                                    \* is about to answer
          user: Identities,         \* what the caller was found to be
          subject: BOOLEAN,         \* whether the subject's account was found
          apply: Changes,
          held: SUBSET Identities,  \* history: what Seerr said of them less than
                                    \* Window before that
          managed: BOOLEAN ]        \* history: whether Seerr took the settings
                                    \* from them as a manager

Nothing == [f \in {} |-> TRUE]

At(c, pc) == call[c].pc = pc
Who(c) == call[c].ask.who
About(c) == call[c].ask.about
Update(c, new) == call' = [call EXCEPT ![c] = new]

\* The request is answered, or not yet made.
Idle == [ pc |-> "idle", ask |-> CHOOSE ask \in Asks : TRUE, asked |-> None, user |-> Nobody,
          subject |-> FALSE, apply |-> Nothing, held |-> {}, managed |-> FALSE ]

\* What Seerr would say now.
Identity(p, how) == IF how = "key" \/ p \in signedIn THEN power[p] ELSE Nobody

Entry == [user: Identities, age: 0 .. Ttl]

Init ==
    /\ power \in [People -> Powers]
    /\ signedIn \in SUBSET People
    /\ cache = [how \in Ways |-> [p \in People |-> None]]
    /\ store \in [Linked -> [Fields -> BOOLEAN]]
    /\ call = [c \in Calls |-> Idle]
    /\ since = [p \in People |-> [i \in Identities |->
                  IF i \in {Identity(p, how) : how \in Ways} THEN 0 ELSE Window]]

-----------------------------------------------------------------------------
(* resolveUser and userById.                                               *)

\* Whom the request at this point wants to know about, and by which cache.
Whom(c) == IF At(c, "subject") THEN About(c) ELSE Who(c)
How(c) == IF At(c, "subject") THEN "key" ELSE call[c].ask.how

Resolving(c) ==
    \/ At(c, "gate") \/ At(c, "who")
    \/ At(c, "subject") /\ About(c) # Who(c)

Remembered(c) == cache[How(c)][Whom(c)]

\* Mutant: What is remembered stays.
FreshForever(entry) == entry # None

Fresh(entry) ==
    /\ entry # None
    /\ entry.age < IF entry.user = Nobody THEN NobodyTtl ELSE Ttl

\* trimCache, and the new entry.
Remember(how, p, identity) ==
    LET full == Cardinality({q \in People : cache[how][q] # None}) > Room
        kept == [q \in People |-> IF full THEN None ELSE cache[how][q]]
    IN  cache' = [cache EXCEPT ![how] = [kept EXCEPT ![p] = [user |-> identity, age |-> 0]]]

\* What becomes of the request once it is known that who is i: at the gate, an
\* account that can change Seerr goes no further.
Known(c, i) ==
    CASE At(c, "gate") /\ isPrivileged(i) -> Idle
      [] At(c, "gate") /\ ~isPrivileged(i) ->
           [call[c] EXCEPT !.pc = "who", !.asked = None]
      [] At(c, "who") /\ i # Nobody /\ call[c].ask.kind = "settings" ->
           [call[c] EXCEPT !.pc = "subject", !.asked = None, !.user = i,
              !.held = {j \in Identities : since[Who(c)][j] < Window}]
      [] At(c, "who") /\ ~(i # Nobody /\ call[c].ask.kind = "settings") -> Idle
      [] At(c, "subject") ->
           [call[c] EXCEPT !.pc = "forward", !.asked = None, !.subject = i # Nobody]

UseRemembered(c) ==
    /\ Resolving(c)
    /\ call[c].asked = None
    /\ Fresh(Remembered(c))
    /\ Update(c, Known(c, Remembered(c).user))
    /\ UNCHANGED <<seerr, cache, store, since>>

\* Seerr is asked; what it answers it knows then.
Ask(c) ==
    /\ Resolving(c)
    /\ call[c].asked = None
    /\ ~Fresh(Remembered(c))
    /\ Update(c, [call[c] EXCEPT
                    !.asked = [user |-> Identity(Whom(c), How(c)), age |-> 0]])
    /\ UNCHANGED <<seerr, cache, store, since>>

Told(c) ==
    /\ Resolving(c)
    /\ call[c].asked # None
    /\ Remember(How(c), Whom(c), call[c].asked.user)
    /\ Update(c, Known(c, call[c].asked.user))
    /\ UNCHANGED <<seerr, store, since>>

\* Seerr fails or takes too long.  Nobody is let past the gate; settings are
\* Seerr's alone then, as the filter fields mean nothing to it; a subject that
\* cannot be found is left unknown.
NotTold(c) ==
    /\ Resolving(c)
    /\ call[c].asked # None
    /\ Update(c, IF At(c, "subject")
                   THEN [call[c] EXCEPT !.pc = "forward", !.asked = None, !.subject = FALSE]
                   ELSE Idle)
    /\ UNCHANGED <<seerr, cache, store, since>>

-----------------------------------------------------------------------------
(* handle() and the handlers.                                              *)

Arrive(c, ask) ==
    /\ At(c, "idle")
    /\ Update(c, [Idle EXCEPT !.ask = ask,
                              !.pc = IF ask.kind = "signin" THEN "signin"
                                     ELSE IF ask.relayed THEN "gate" ELSE "who"])
    /\ UNCHANGED <<seerr, cache, store, since>>

\* relaySignIn: Seerr opens a session and says whose it is.  The cookie of an
\* account that can change Seerr is kept back; what anybody else does with
\* theirs are requests of their own.
RelaySignIn(c) ==
    /\ At(c, "signin")
    /\ Update(c, Idle)
    /\ UNCHANGED <<seerr, cache, store, since>>

\* settingsResponse: the caller is the subject.
SubjectIsCaller(c) ==
    /\ At(c, "subject")
    /\ About(c) = Who(c)
    /\ Update(c, [call[c] EXCEPT !.pc = "forward", !.subject = TRUE])
    /\ UNCHANGED <<seerr, cache, store, since>>

\* Seerr lets people change their own profile and managers everybody's.
SeerrManages(c) == hasPermission(Identity(Who(c), call[c].ask.how), "MANAGE_USERS")

SeerrAccepts(c) ==
    /\ Identity(Who(c), call[c].ask.how) # Nobody
    /\ About(c) = Who(c) \/ SeerrManages(c)

\* Mutant: Whatever Seerr answers, the filter is changed.
ForwardDespite(c) ==
    /\ At(c, "forward")
    /\ LET apply == allowedChanges(call[c].user, About(c) = Who(c), call[c].ask.wants)
       IN  Update(c, IF apply # Nothing /\ call[c].subject /\ About(c) \in Linked
                       THEN [call[c] EXCEPT !.pc = "put", !.apply = apply,
                                            !.managed = SeerrManages(c)]
                       ELSE Idle)
    /\ UNCHANGED <<seerr, cache, store, since>>

\* Seerr is sent what is its own, and takes it.  Then the filter is changed as
\* far as the caller may, if there is a Jellyfin account to key it by.
Forward(c) ==
    /\ At(c, "forward")
    /\ SeerrAccepts(c)
    /\ LET apply == allowedChanges(call[c].user, About(c) = Who(c), call[c].ask.wants)
       IN  Update(c, IF apply # Nothing /\ call[c].subject /\ About(c) \in Linked
                       THEN [call[c] EXCEPT !.pc = "put", !.apply = apply,
                                            !.managed = SeerrManages(c)]
                       ELSE Idle)
    /\ UNCHANGED <<seerr, cache, store, since>>

\* Seerr refuses, or fails: its answer is passed on.
ForwardFails(c) ==
    /\ At(c, "forward")
    /\ Update(c, Idle)
    /\ UNCHANGED <<seerr, cache, store, since>>

\* jellylab-push stores the change, whether or not its answer arrives.
PutStored(c) ==
    /\ At(c, "put")
    /\ store' = [store EXCEPT ![About(c)] = Merged(@, call[c].apply)]
    /\ Update(c, Idle)
    /\ UNCHANGED <<seerr, cache, since>>

\* 502: saved in Seerr, but the filter could not be.
PutFails(c) ==
    /\ At(c, "put")
    /\ Update(c, Idle)
    /\ UNCHANGED <<seerr, cache, store, since>>

-----------------------------------------------------------------------------
(* Seerr, and time.                                                        *)

Notice(p) ==
    since' = [since EXCEPT ![p] = [i \in Identities |->
                 IF i \in {Identity(p, how)' : how \in Ways} THEN 0 ELSE @[i]]]

PowerChanges(p) ==
    /\ \E new \in Powers \ {power[p]} : power' = [power EXCEPT ![p] = new]
    /\ UNCHANGED <<signedIn, cache, store, call>>
    /\ Notice(p)

\* A session that is over stays over: who signs in again gets another.
SignOut(p) ==
    /\ p \in signedIn
    /\ signedIn' = signedIn \ {p}
    /\ UNCHANGED <<power, cache, store, call>>
    /\ Notice(p)

Older(age, limit) == IF age < limit THEN age + 1 ELSE limit

\* A request that has asked Seerr gives up before more than Patience goes by.
Tick ==
    /\ \A c \in Calls : call[c].asked # None => call[c].asked.age < Patience
    /\ call' = [c \in Calls |-> IF call[c].asked = None THEN call[c]
                                ELSE [call[c] EXCEPT !.asked.age = @ + 1]]
    /\ cache' = [how \in Ways |-> [p \in People |->
                   IF cache[how][p] = None THEN None
                   ELSE [cache[how][p] EXCEPT !.age = Older(@, Ttl)]]]
    /\ since' = [p \in People |-> [i \in Identities |->
                   IF i \in {Identity(p, how) : how \in Ways} THEN 0
                   ELSE Older(since[p][i], Window)]]
    /\ UNCHANGED <<seerr, store>>

\* The guard restarts: it remembers nobody, and no request survives it.
Restart ==
    /\ cache' = [how \in Ways |-> [p \in People |-> None]]
    /\ call' = [c \in Calls |-> Idle]
    /\ UNCHANGED <<seerr, store, since>>

Next ==
    \/ \E c \in Calls :
         \/ \E ask \in Asks : Arrive(c, ask)
         \/ RelaySignIn(c)
         \/ UseRemembered(c)
         \/ Ask(c)
         \/ Told(c)
         \/ NotTold(c)
         \/ SubjectIsCaller(c)
         \/ Forward(c)
         \/ ForwardFails(c)
         \/ PutStored(c)
         \/ PutFails(c)
    \/ \E p \in People : PowerChanges(p) \/ SignOut(p)
    \/ Tick
    \/ Restart

Spec == Init /\ [][Next]_vars

-----------------------------------------------------------------------------
(* Properties.                                                             *)

TypeOK ==
    /\ power \in [People -> Powers]
    /\ signedIn \in SUBSET People
    /\ cache \in [Ways -> [People -> {None} \cup Entry]]
    /\ store \in [Linked -> [Fields -> BOOLEAN]]
    /\ call \in [Calls -> Call]
    /\ since \in [People -> [Identities -> 0 .. Window]]

\* Through the relay no account gets past the gate that could change Seerr all
\* through the last minute, whatever was remembered of it, by whom and in which
\* order Seerr's answers came (handle, resolveUser).
HomeOnly ==
    [][\A c \in Calls :
         At(c, "gate") /\ call'[c].pc = "who" =>
             \E i \in Identities : ~isPrivileged(i) /\ since[Who(c)][i] < Window]_vars

\* A filter is changed from Seerr's settings only for the person's own account
\* or for one that Seerr took for a manager's when it saved them; and what is
\* imposed on people, only for one that managed users in the minute before it was
\* identified.  Permissions come and go in between, and Seerr refuses what it
\* is sent (settingsResponse, allowedChanges).
ChangedByRight ==
    [][\A p \in Linked : store'[p] # store[p] =>
         \E c \in Calls :
           /\ At(c, "put") /\ About(c) = p
           /\ Who(c) = p \/ call[c].managed
           /\ store'[p].blockedTags # store[p].blockedTags =>
                \E i \in call[c].held : hasPermission(i, "MANAGE_USERS")]_vars

=============================================================================
