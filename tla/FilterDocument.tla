--------------------------- MODULE FilterDocument ---------------------------
(***************************************************************************)
(* The filter store's document and the pure operations on it               *)
(* (jellylab-push/filters.mjs): who may not see what, one entry per person.*)
(*                                                                         *)
(* A document is a function whose domain is exactly the people with an     *)
(* entry, as doc.users is.  A keyword list is a set: parseIds removes      *)
(* duplicates and sorts.  Display names are left out.                      *)
(***************************************************************************)
EXTENDS Functions

CONSTANTS
    People,     \* Jellyfin user ids that pass the store's id check
    Keywords,   \* TMDB keyword ids
    AdultTags   \* doc.adultTags: what the adult switch adds

ASSUME AdultTagsAssumption == AdultTags \subseteq Keywords

Entry == [blockedTags: SUBSET Keywords, hideAdult: BOOLEAN]

NothingHidden == [blockedTags |-> {}, hideAdult |-> FALSE]

Docs == UNION { [listed -> Entry] : listed \in SUBSET People }

EmptyDoc == [p \in {} |-> NothingHidden]

\* What a caller may send: every field is optional.
Changes ==
    Entry \cup [blockedTags: SUBSET Keywords] \cup [hideAdult: BOOLEAN]

EntryOf(doc, p) == IF p \in DOMAIN doc THEN doc[p] ELSE NothingHidden

\* A field left out keeps what is stored.
Merged(entry, changes) ==
    [ blockedTags |-> IF "blockedTags" \in DOMAIN changes
                        THEN changes.blockedTags ELSE entry.blockedTags,
      hideAdult   |-> IF "hideAdult" \in DOMAIN changes
                        THEN changes.hideAdult ELSE entry.hideAdult ]

\* Mutant: A person with nothing hidden is kept.
withPersonKept(doc, p, changes) ==
    LET next == Merged(EntryOf(doc, p), changes)
    IN  [q \in DOMAIN doc \cup {p} |-> IF q = p THEN next ELSE doc[q]]

\* One person's filter after a change; a person left with nothing hidden is
\* removed rather than kept as an empty entry.
withPersonChange(doc, p, changes) ==
    LET next == Merged(EntryOf(doc, p), changes)
    IN  IF next = NothingHidden
          THEN Restrict(doc, DOMAIN doc \ {p})
          ELSE [q \in DOMAIN doc \cup {p} |-> IF q = p THEN next ELSE doc[q]]

\* The keywords hidden from one person.
hiddenIdsFor(doc, p) ==
    LET entry == EntryOf(doc, p)
    IN  entry.blockedTags \cup (IF entry.hideAdult THEN AdultTags ELSE {})

=============================================================================
