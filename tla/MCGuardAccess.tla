--------------------------- MODULE MCGuardAccess ---------------------------
(***************************************************************************)
(* GuardAccess on a small instance: boss is made a manager and stops being *)
(* one, signs out, and would change the child's filter through the relay;  *)
(* the child asks for both fields of its own.  Nothing is taken from or    *)
(* given to the child, which has no permissions.                           *)
(***************************************************************************)
EXTENDS GuardAccess, TLC

CONSTANTS boss, kid

MCPowers == {{}, {"MANAGE_USERS"}}

Both == [blockedTags |-> FALSE, hideAdult |-> TRUE]

MCAsks ==
    { [kind |-> "signin", who |-> kid, how |-> "session", relayed |-> TRUE,
       about |-> kid, wants |-> Nothing],
      [kind |-> "settings", who |-> boss, how |-> "session", relayed |-> TRUE,
       about |-> kid, wants |-> Both],
      [kind |-> "settings", who |-> kid, how |-> "key", relayed |-> FALSE,
       about |-> kid, wants |-> Both] }

MCInit ==
    /\ Init
    /\ power[kid] = {} /\ kid \in signedIn
    /\ store[kid] = [blockedTags |-> TRUE, hideAdult |-> FALSE]

MCNext == Next /\ power'[kid] = power[kid] /\ kid \in signedIn'

MCSpec == MCInit /\ [][MCNext]_vars

\* Requests are alike.
Alike == Permutations(Calls)

=============================================================================
