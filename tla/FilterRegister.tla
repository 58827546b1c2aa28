--------------------------- MODULE FilterRegister ---------------------------
(***************************************************************************)
(* What the filter store promises its callers: changes take effect one at  *)
(* a time, in the order they were submitted, each one merged into the      *)
(* document the previous one left.  A change may be refused, in which case *)
(* it has no effect, and a restart may forget the changes still pending,   *)
(* but a caller told "ok" has had its change applied exactly once.         *)
(***************************************************************************)
EXTENDS FilterDocument, Sequences

CONSTANTS
    Requests,   \* one per call of setPersonFilters
    Strangers,  \* ids a caller may name that fail the store's id check
    Asks        \* what a call may ask for, a subset of
                \* [who: People \cup Strangers, changes: Changes]

VARIABLES
    register,   \* the document
    pending,    \* requests accepted and not yet decided, oldest first
    asks,       \* what each request asked for
    answer      \* what each caller has been told

registerVars == <<register, pending, asks, answer>>

RegisterInit ==
    /\ register \in Docs
    /\ pending = <<>>
    /\ asks = [r \in Requests |-> CHOOSE ask \in Asks : TRUE]
    /\ answer = [r \in Requests |-> "none"]

Submit(r, ask) ==
    /\ answer[r] = "none"
    /\ ask.who \in People
    /\ asks' = [asks EXCEPT ![r] = ask]
    /\ pending' = Append(pending, r)
    /\ answer' = [answer EXCEPT ![r] = "waiting"]
    /\ UNCHANGED register

\* Refused at the door, before it is ever queued.
Reject(r, ask) ==
    /\ answer[r] = "none"
    /\ asks' = [asks EXCEPT ![r] = ask]
    /\ answer' = [answer EXCEPT ![r] = "error"]
    /\ UNCHANGED <<register, pending>>

ApplyNext ==
    /\ pending # <<>>
    /\ LET r == Head(pending) IN
         /\ register' = withPersonChange(register, asks[r].who, asks[r].changes)
         /\ answer' = [answer EXCEPT ![r] = "applied"]
    /\ pending' = Tail(pending)
    /\ UNCHANGED asks

RefuseNext ==
    /\ pending # <<>>
    /\ answer' = [answer EXCEPT ![Head(pending)] = "error"]
    /\ pending' = Tail(pending)
    /\ UNCHANGED <<register, asks>>

TellOk(r) ==
    /\ answer[r] = "applied"
    /\ answer' = [answer EXCEPT ![r] = "ok"]
    /\ UNCHANGED <<register, pending, asks>>

\* A restart: callers without an answer never get one.
Forget ==
    /\ pending' = <<>>
    /\ answer' = [r \in Requests |->
                    IF answer[r] \in {"waiting", "applied"} THEN "lost" ELSE answer[r]]
    /\ UNCHANGED <<register, asks>>

RegisterNext ==
    \/ \E r \in Requests, ask \in Asks : Submit(r, ask) \/ Reject(r, ask)
    \/ ApplyNext
    \/ RefuseNext
    \/ \E r \in Requests : TellOk(r)
    \/ Forget

RegisterSpec == RegisterInit /\ [][RegisterNext]_registerVars

=============================================================================
