---------------------------- MODULE MCGuardRequest ----------------------------
(***************************************************************************)
(* GuardRequest on small instances, of which each initial state sets one   *)
(* going: a single request of a manager, a child or nobody about two       *)
(* titles, while everything else changes; two requests of the child that   *)
(* share their lookups; one that has three titles looked up, so that two   *)
(* of them queue.                                                          *)
(***************************************************************************)
EXTENDS GuardRequest

CONSTANTS r1, t1, t3, kid, k

VARIABLE part

\* The first title carries the keyword, the others nothing.
MCKeywordsOf == [t \in Titles |-> IF t = t1 THEN {k} ELSE {}]

MCInit ==
    /\ part \in {"one", "shared", "queue"}
    /\ Init
    /\ part # "one" => storeOk /\ filters = [u \in Users |-> IF u = kid THEN {k} ELSE {}]

OfTheChild == \A r \in Requests : req'[r].pc = "new" => req'[r].who = kid

MCNext ==
    /\ Next
    /\ part # "shared" => \A r \in Requests \ {r1} : req'[r] = req[r]
    /\ part # "one" => UNCHANGED world /\ OfTheChild /\ ~Restart
    /\ part # "queue" => t3 \notin UNION {req'[r].about : r \in Requests}
    /\ UNCHANGED part

MCSpec == MCInit /\ [][MCNext]_<<part, vars>> /\ Fairness

=============================================================================
