--------------------------- MODULE MCContentStore ---------------------------
(* ContentStore on a small instance: two people, one ordinary and one adult *)
(* keyword, two requests.  The asks are chosen so that two of them change *)
(* different fields of the same person, one removes what another adds, one  *)
(* is for somebody else and one names an id that fails the check.           *)
EXTENDS ContentStore

CONSTANTS p1, p2, stranger, horror, adult

MCPeople == {p1, p2}
MCStrangers == {stranger}
MCKeywords == {horror, adult}
MCAdultTags == {adult}

MCAsks ==
    { [who |-> p1, changes |-> [blockedTags |-> {horror}]],
      [who |-> p1, changes |-> [blockedTags |-> {}]],
      [who |-> p1, changes |-> [hideAdult |-> TRUE]],
      [who |-> p1, changes |-> [hideAdult |-> FALSE]],
      [who |-> p2, changes |-> [blockedTags |-> {horror}, hideAdult |-> TRUE]],
      [who |-> stranger, changes |-> [hideAdult |-> TRUE]] }

=============================================================================
