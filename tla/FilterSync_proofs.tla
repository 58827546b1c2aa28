-------------------------- MODULE FilterSync_proofs --------------------------
(***************************************************************************)
(* Proofs about FilterSync, for any number of people, titles and keywords. *)
(***************************************************************************)
EXTENDS FilterSync, TLAPS

\* What a pass has still to look up and stamp, by where it is.
PassShape ==
    /\ busy <=> ~At("idle")
    /\ At("idle") \/ At("load") \/ At("users") \/ At("items") =>
         run.known = {} /\ run.lookups = {}
    /\ At("keywords") => run.known \subseteq run.stamps /\ run.lookups \subseteq run.stamps
    /\ At("policies") => run.stamps = {}
    /\ run.lifted => At("stamp") \/ At("policies")

Listed == At("items") \/ At("keywords") \/ At("stamp") \/ At("policies")

\* Until a person's policy has been dealt with, the pass's copy of it has the
\* markers Jellyfin has; from then on Jellyfin has the ones the pass wants.
MarkersKnown ==
    Listed =>
        \A p \in People :
            IF At("policies") /\ p \notin run.policies
              THEN blocked[p] \cap Keywords = run.wanted[p]
              ELSE blocked[p] \cap Keywords = run.users[p] \cap Keywords

\* Titles still to compare are as they were listed, the others as wanted.
TagsKnown ==
    /\ At("keywords") \/ At("stamp") => \A i \in run.stamps : tags[i] = run.tags[i]
    /\ At("stamp") \/ At("policies") =>
         \A i \in run.known \ run.stamps : tags[i] = Want(i)

LibrarianLifted ==
    At("stamp") /\ run.lifted => blocked[Librarian] \cap Keywords = {}

PassInv == PassShape /\ MarkersKnown /\ TagsKnown /\ LibrarianLifted

Inv == TypeOK /\ PassInv

-----------------------------------------------------------------------------
(* Types.                                                                  *)

LEMMA NoRunType == NoRun \in Run
  BY DEF NoRun, Run, PCs

LEMMA StartType == StartPass => run' \in Run /\ again' \in BOOLEAN
  BY NoRunType DEF StartPass, NoRun, Run, PCs

LEMMA RequestType ==
    ASSUME TypeOK, RequestSync
    PROVE  run' \in Run /\ again' \in BOOLEAN /\ busy' \in BOOLEAN
<1>1. CASE busy
  BY <1>1 DEF RequestSync, TypeOK
<1>2. CASE ~busy
  BY <1>2, StartType DEF RequestSync
<1> QED
  BY <1>1, <1>2

LEMMA WantType == ASSUME TypeOK, NEW i \in Items PROVE Want(i) \in SUBSET Keywords
  BY KeywordsOfAssumption DEF TypeOK, Run, Want, Told, UnionOf

\* Every step keeps the types.
LEMMA TypeStep == TypeOK /\ [Next]_vars => TypeOK'
<1> SUFFICES ASSUME TypeOK, [Next]_vars PROVE TypeOK'
  OBVIOUS
<1>1. CASE Tick
  BY <1>1, RequestType DEF Tick, worldVars, TypeOK
<1>2. CASE \E p \in People, keywords \in SUBSET Keywords : Save(p, keywords)
  BY <1>2, RequestType, MaxSavesAssumption DEF Save, TypeOK
<1>3. CASE EndPass
  BY <1>3, StartType, NoRunType DEF EndPass, Leave, worldVars, TypeOK
<1>4. CASE PassFails
  BY <1>4, NoRunType DEF PassFails, Leave, worldVars, TypeOK
<1>5. CASE LoadContent
  BY <1>5 DEF LoadContent, worldVars, TypeOK, Run, PCs
<1>6. CASE ListUsers
  BY <1>6, LibrarianAssumption DEF ListUsers, worldVars, TypeOK, Run, PCs
<1>7. CASE ListItems
  BY <1>7 DEF ListItems, worldVars, TypeOK, Run, PCs
<1>8. ASSUME NEW i \in Items, LookUp(i) PROVE TypeOK'
  BY <1>8 DEF LookUp, TypeOK, Run
<1>9. ASSUME NEW i \in Items, LookUpGone(i) \/ LookUpFails(i) PROVE TypeOK'
  <2>1. CASE LookUpGone(i)
    BY <2>1 DEF LookUpGone, TypeOK, Run
  <2>2. CASE LookUpFails(i)
    BY <2>2 DEF LookUpFails, worldVars, TypeOK, Run
  <2> QED
    BY <1>9, <2>1, <2>2
<1>10. CASE LookUpsDone
  BY <1>10 DEF LookUpsDone, worldVars, TypeOK, Run, PCs
<1>11. ASSUME NEW i \in Items, SkipItem(i) PROVE TypeOK'
  BY <1>11 DEF SkipItem, worldVars, TypeOK, Run
<1>12. ASSUME NEW i \in Items, Stamp(i) PROVE TypeOK'
  BY <1>12, WantType DEF Stamp, TypeOK, Run
<1>13. ASSUME NEW i \in Items, NewTitle(i) PROVE TypeOK'
  BY <1>13 DEF NewTitle, TypeOK
<1>14. CASE LiftLibrarian
  <2>1. run.users[Librarian] \ Keywords \in SUBSET (Keywords \cup HandTags)
    BY LibrarianAssumption DEF TypeOK, Run
  <2>2. blocked' \in [People -> SUBSET (Keywords \cup HandTags)]
    BY <1>14, <2>1 DEF LiftLibrarian, TypeOK
  <2>3. run' \in Run
    BY <1>14, <2>1 DEF LiftLibrarian, TypeOK, Run
  <2> QED
    BY <1>14, <2>2, <2>3 DEF LiftLibrarian, TypeOK
<1>15. CASE StampsDone
  BY <1>15 DEF StampsDone, worldVars, TypeOK, Run, PCs
<1>16. ASSUME NEW p \in People, Policy(p) PROVE TypeOK'
  <2>1. (run.users[p] \ Keywords) \cup run.wanted[p] \in SUBSET (Keywords \cup HandTags)
    BY DEF TypeOK, Run
  <2>2. blocked' \in [People -> SUBSET (Keywords \cup HandTags)]
    BY <1>16, <2>1 DEF Policy, TypeOK
  <2>3. run' \in Run
    BY <1>16 DEF Policy, TypeOK, Run
  <2> QED
    BY <1>16, <2>2, <2>3 DEF Policy, TypeOK
<1>17. ASSUME NEW p \in People, NEW t \in SUBSET HandTags, EditByHand(p, t) PROVE TypeOK'
  BY <1>17 DEF EditByHand, TypeOK
<1>18. CASE Restart
  BY <1>18, NoRunType DEF Restart, TypeOK
<1>19. CASE UNCHANGED vars
  BY <1>19 DEF vars, worldVars, TypeOK
<1> QED
  BY <1>1, <1>2, <1>3, <1>4, <1>5, <1>6, <1>7, <1>8, <1>9, <1>10, <1>11, <1>12, <1>13,
     <1>14, <1>15, <1>16, <1>17, <1>18, <1>19 DEF Next

-----------------------------------------------------------------------------
(* What a pass knows.                                                      *)

\* A run that has not listed anything yet, or no run at all.
LEMMA FreshRun ==
    ASSUME TypeOK',
           \/ run' = NoRun /\ ~busy'
           \/ run' = [NoRun EXCEPT !.pc = "load"] /\ busy'
    PROVE  PassInv'
  BY DEF PassInv, PassShape, MarkersKnown, TagsKnown, LibrarianLifted, Listed, At, NoRun, TypeOK

\* A step that leaves the pass, the stamps and everybody's markers alone.
LEMMA PassUntouched ==
    ASSUME PassInv, UNCHANGED <<tags, busy, run>>,
           \A p \in People : blocked'[p] \cap Keywords = blocked[p] \cap Keywords
    PROVE  PassInv'
<1>1. \A i : Want(i)' = Want(i)
  BY DEF Want, Told, UnionOf
<1>2. PassShape' /\ TagsKnown'
  BY <1>1 DEF PassInv, PassShape, TagsKnown, At
<1>3. MarkersKnown'
  BY DEF PassInv, MarkersKnown, Listed, At
<1>4. LibrarianLifted'
  BY LibrarianAssumption DEF PassInv, LibrarianLifted, At
<1> QED
  BY <1>2, <1>3, <1>4 DEF PassInv

LEMMA RequestKeepsPass ==
    ASSUME PassInv, RequestSync, UNCHANGED <<tags, blocked>>, TypeOK'
    PROVE  PassInv'
<1>1. CASE busy
  BY <1>1, PassUntouched DEF RequestSync
<1>2. CASE ~busy
  <2>1. run' = [NoRun EXCEPT !.pc = "load"] /\ busy'
    BY <1>2 DEF RequestSync, StartPass
  <2> QED
    BY <2>1, FreshRun
<1> QED
  BY <1>1, <1>2

\* An item that needs no stamp, and whose keywords are known, is as wanted.
LEMMA NotStamped ==
    ASSUME NEW i \in run.known, ~NeedsStamp(i)
    PROVE  run.tags[i] = Want(i)
  BY DEF NeedsStamp, Undecided

LEMMA LiftKeepsPass == ASSUME TypeOK, PassInv, LiftLibrarian PROVE PassInv'
<1> DEFINE keep == run.users[Librarian] \ Keywords
<1>1. /\ At("stamp")
      /\ run' = [run EXCEPT !.lifted = TRUE, !.users[Librarian] = keep]
      /\ UNCHANGED <<tags, busy>>
      /\ blocked' = IF keep = run.users[Librarian] THEN blocked
                    ELSE [blocked EXCEPT ![Librarian] = keep]
  BY DEF LiftLibrarian
<1>2. /\ run'.pc = run.pc /\ run'.known = run.known /\ run'.gone = run.gone /\ run'.lookups = run.lookups
      /\ run'.stamps = run.stamps /\ run'.tags = run.tags /\ run'.wanted = run.wanted
      /\ run'.policies = run.policies
      /\ run'.users = [run.users EXCEPT ![Librarian] = keep]
  BY <1>1 DEF TypeOK, Run
<1>3. \A i : Want(i)' = Want(i)
  BY <1>2 DEF Want, Told, UnionOf
<1>4. PassShape' /\ TagsKnown'
  BY <1>1, <1>2, <1>3 DEF PassInv, PassShape, TagsKnown, At
<1>5. blocked[Librarian] \cap Keywords = run.users[Librarian] \cap Keywords
  BY <1>1, LibrarianAssumption DEF PassInv, MarkersKnown, Listed, At
<1>6. blocked'[Librarian] \cap Keywords = {} /\ run'.users[Librarian] \cap Keywords = {}
  <2>1. run'.users[Librarian] = keep
    BY <1>2, LibrarianAssumption DEF TypeOK, Run
  <2>2. CASE keep = run.users[Librarian]
    BY <1>1, <1>5, <2>1, <2>2
  <2>3. CASE keep # run.users[Librarian]
    <3>1. blocked'[Librarian] = keep
      BY <1>1, <2>3, LibrarianAssumption DEF TypeOK
    <3> QED
      BY <2>1, <3>1
  <2> QED
    BY <2>2, <2>3
<1>7. MarkersKnown'
  <2>1. \A p \in People \ {Librarian} : blocked'[p] = blocked[p] /\ run'.users[p] = run.users[p]
    BY <1>1, <1>2 DEF TypeOK, Run
  <2>2. \A p \in People : blocked[p] \cap Keywords = run.users[p] \cap Keywords
    BY <1>1 DEF PassInv, MarkersKnown, Listed, At
  <2>3. \A p \in People : blocked'[p] \cap Keywords = run'.users[p] \cap Keywords
    BY <1>6, <2>1, <2>2
  <2> QED
    BY <1>1, <1>2, <2>3 DEF MarkersKnown, Listed, At
<1> QED
  BY <1>4, <1>6, <1>7 DEF PassInv, LibrarianLifted

LEMMA StampKeepsPass ==
    ASSUME TypeOK, PassInv, NEW i \in Items, Stamp(i)
    PROVE  PassInv'
<1>1. /\ At("stamp") /\ i \in run.stamps
      /\ tags' = [tags EXCEPT ![i] = Want(i)]
      /\ run' = [run EXCEPT !.stamps = run.stamps \ {i}]
      /\ UNCHANGED <<blocked, busy>>
  BY DEF Stamp
<1>2. /\ run'.pc = run.pc /\ run'.known = run.known /\ run'.gone = run.gone /\ run'.lookups = run.lookups
      /\ run'.stamps = run.stamps \ {i} /\ run'.tags = run.tags /\ run'.wanted = run.wanted
      /\ run'.policies = run.policies /\ run'.users = run.users /\ run'.lifted = run.lifted
  BY <1>1 DEF TypeOK, Run
<1>3. \A j : Want(j)' = Want(j)
  BY <1>2 DEF Want, Told, UnionOf
<1>4. PassShape' /\ MarkersKnown' /\ LibrarianLifted'
  BY <1>1, <1>2 DEF PassInv, PassShape, MarkersKnown, LibrarianLifted, Listed, At
<1>5. TagsKnown'
  <2>1. run.known \subseteq Items /\ run.stamps \subseteq Items
    BY DEF TypeOK, Run
  <2>2. tags'[i] = Want(i) /\ \A j \in Items \ {i} : tags'[j] = tags[j]
    BY <1>1 DEF TypeOK
  <2> QED
    BY <1>1, <1>2, <1>3, <2>1, <2>2 DEF PassInv, TagsKnown, At
<1> QED
  BY <1>4, <1>5 DEF PassInv

LEMMA SkipKeepsPass ==
    ASSUME TypeOK, PassInv, NEW i \in Items, SkipItem(i)
    PROVE  PassInv'
<1>1. /\ At("stamp") /\ i \in run.stamps /\ ~NeedsStamp(i)
      /\ run' = [run EXCEPT !.stamps = run.stamps \ {i}]
      /\ UNCHANGED <<blocked, tags, busy>>
  BY DEF SkipItem, worldVars
<1>2. /\ run'.pc = run.pc /\ run'.known = run.known /\ run'.gone = run.gone /\ run'.lookups = run.lookups
      /\ run'.stamps = run.stamps \ {i} /\ run'.tags = run.tags /\ run'.wanted = run.wanted
      /\ run'.policies = run.policies /\ run'.users = run.users /\ run'.lifted = run.lifted
  BY <1>1 DEF TypeOK, Run
<1>3. \A j : Want(j)' = Want(j)
  BY <1>2 DEF Want, Told, UnionOf
<1>4. PassShape' /\ MarkersKnown' /\ LibrarianLifted'
  BY <1>1, <1>2 DEF PassInv, PassShape, MarkersKnown, LibrarianLifted, Listed, At
<1>5. TagsKnown'
  <2>1. i \in run.known => tags[i] = Want(i)
    BY <1>1, NotStamped DEF PassInv, TagsKnown
  <2> QED
    BY <1>1, <1>2, <1>3, <2>1 DEF PassInv, TagsKnown, At
<1> QED
  BY <1>4, <1>5 DEF PassInv

LEMMA PolicyKeepsPass ==
    ASSUME TypeOK, PassInv, NEW p \in People, Policy(p)
    PROVE  PassInv'
<1> DEFINE next == (run.users[p] \ Keywords) \cup run.wanted[p]
<1>1. /\ At("policies") /\ p \in run.policies
      /\ blocked' = IF next = run.users[p] THEN blocked ELSE [blocked EXCEPT ![p] = next]
      /\ run' = [run EXCEPT !.policies = run.policies \ {p}]
      /\ UNCHANGED <<tags, busy>>
  BY DEF Policy
<1>2. /\ run'.pc = run.pc /\ run'.known = run.known /\ run'.gone = run.gone /\ run'.lookups = run.lookups
      /\ run'.stamps = run.stamps /\ run'.tags = run.tags /\ run'.wanted = run.wanted
      /\ run'.policies = run.policies \ {p} /\ run'.users = run.users
  BY <1>1 DEF TypeOK, Run
<1>3. \A i : Want(i)' = Want(i)
  BY <1>2 DEF Want, Told, UnionOf
<1>4. PassShape' /\ TagsKnown' /\ LibrarianLifted'
  BY <1>1, <1>2, <1>3 DEF PassInv, PassShape, TagsKnown, LibrarianLifted, At
<1>5. MarkersKnown'
  <2>1. next \cap Keywords = run.wanted[p]
    BY DEF TypeOK, Run
  <2>2. \A q \in People : blocked'[q] = IF q = p /\ next # run.users[p] THEN next ELSE blocked[q]
    BY <1>1 DEF TypeOK
  <2>3. blocked'[p] \cap Keywords = run.wanted[p]
    <3>1. CASE next = run.users[p]
      BY <1>1, <2>1, <2>2, <3>1 DEF PassInv, MarkersKnown, Listed, At
    <3>2. CASE next # run.users[p]
      BY <2>1, <2>2, <3>2
    <3> QED
      BY <3>1, <3>2
  <2>4. ASSUME NEW q \in People
        PROVE  IF q \notin run'.policies
                 THEN blocked'[q] \cap Keywords = run'.wanted[q]
                 ELSE blocked'[q] \cap Keywords = run'.users[q] \cap Keywords
    <3>1. CASE q = p
      BY <1>2, <2>3, <3>1
    <3>2. CASE q # p
      <4>1. blocked'[q] = blocked[q]
        BY <2>2, <3>2
      <4> QED
        BY <1>1, <1>2, <3>2, <4>1 DEF PassInv, MarkersKnown, Listed, At
    <3> QED
      BY <3>1, <3>2
  <2>5. run'.pc = "policies"
    BY <1>1, <1>2 DEF At
  <2> QED
    BY <2>4, <2>5 DEF MarkersKnown, At
<1> QED
  BY <1>4, <1>5 DEF PassInv

\* The steps that read: none of them changes Jellyfin.
LEMMA ReadingKeepsPass ==
    ASSUME TypeOK, PassInv,
           \/ LoadContent \/ ListUsers \/ ListItems \/ LookUpsDone \/ StampsDone
           \/ \E i \in Items : LookUp(i) \/ LookUpGone(i) \/ LookUpFails(i)
    PROVE  PassInv'
<1>1. CASE LoadContent
  BY <1>1 DEF LoadContent, worldVars, PassInv, PassShape, MarkersKnown, TagsKnown,
              LibrarianLifted, Listed, At, TypeOK, Run
<1>2. CASE ListUsers
  BY <1>2 DEF ListUsers, worldVars, PassInv, PassShape, MarkersKnown, TagsKnown,
              LibrarianLifted, Listed, At, TypeOK, Run
<1>3. CASE ListItems
  <2>1. /\ At("items") /\ UNCHANGED <<tags, blocked, busy>>
        /\ run'.pc \in {"stamp", "keywords"}
        /\ run'.known = run.known /\ run'.gone = run.gone /\ run'.stamps = library /\ run'.users = run.users
        /\ run'.lookups \subseteq library
        /\ run'.tags = [i \in Items |-> IF i \in library THEN tags[i] ELSE {}]
        /\ run'.lifted = run.lifted
    BY <1>3 DEF ListItems, worldVars, TypeOK, Run
  <2>2. run.known = {} /\ busy /\ ~run.lifted
    BY <2>1 DEF PassInv, PassShape, At
  <2>3. library \subseteq Items
    BY DEF TypeOK
  <2>4. PassShape'
    BY <2>1, <2>2 DEF PassShape, At
  <2>5. TagsKnown'
    <3>1. \A i \in library : run'.tags[i] = tags'[i]
      BY <2>1, <2>3
    <3> QED
      BY <2>1, <2>2, <3>1 DEF TagsKnown, At
  <2>6. MarkersKnown'
    BY <2>1 DEF PassInv, MarkersKnown, Listed, At
  <2> QED
    BY <2>1, <2>2, <2>4, <2>5, <2>6 DEF PassInv, LibrarianLifted
<1>4. CASE LookUpsDone
  BY <1>4 DEF LookUpsDone, worldVars, PassInv, PassShape, MarkersKnown, TagsKnown,
              LibrarianLifted, Listed, At, TypeOK, Run
<1>5. CASE StampsDone
  <2>1. /\ At("stamp") /\ run.stamps = {} /\ UNCHANGED <<tags, blocked, busy>>
        /\ run'.pc = "policies" /\ run'.policies = People
        /\ run'.known = run.known /\ run'.gone = run.gone /\ run'.stamps = run.stamps /\ run'.users = run.users
        /\ run'.wanted = run.wanted /\ run'.lifted = run.lifted
    BY <1>5 DEF StampsDone, worldVars, TypeOK, Run
  <2>2. \A i : Want(i)' = Want(i)
    BY <2>1 DEF Want, Told, UnionOf
  <2>3. TagsKnown'
    BY <2>1, <2>2 DEF PassInv, TagsKnown, At
  <2>4. MarkersKnown'
    BY <2>1 DEF PassInv, MarkersKnown, Listed, At
  <2> QED
    BY <2>1, <2>3, <2>4 DEF PassInv, PassShape, LibrarianLifted, At
<1>6. ASSUME NEW i \in Items, LookUp(i) \/ LookUpGone(i) \/ LookUpFails(i) PROVE PassInv'
  <2>1. /\ At("keywords") /\ i \in run.lookups /\ UNCHANGED <<tags, blocked, busy>>
        /\ run'.pc = run.pc /\ run'.lookups = run.lookups \ {i}
        /\ run'.known \subseteq run.known \cup {i}
        /\ run'.stamps = run.stamps /\ run'.tags = run.tags /\ run'.users = run.users
        /\ run'.lifted = run.lifted
    BY <1>6 DEF LookUp, LookUpGone, LookUpFails, worldVars, TypeOK, Run
  <2>2. PassShape' /\ TagsKnown' /\ LibrarianLifted'
    BY <2>1 DEF PassInv, PassShape, TagsKnown, LibrarianLifted, At
  <2>3. MarkersKnown'
    BY <2>1 DEF PassInv, MarkersKnown, Listed, At
  <2> QED
    BY <2>2, <2>3 DEF PassInv
<1> QED
  BY <1>1, <1>2, <1>3, <1>4, <1>5, <1>6

LEMMA InitInv == Init => Inv
<1> SUFFICES ASSUME Init PROVE Inv
  OBVIOUS
<1>1. TypeOK
  <2>1. saves \in 0 .. MaxSaves
    BY MaxSavesAssumption DEF Init
  <2>2. run \in Run /\ busy \in BOOLEAN /\ again \in BOOLEAN
    BY NoRunType DEF Init
  <2>3. /\ hidden \in [People -> SUBSET Keywords]
        /\ blocked \in [People -> SUBSET (Keywords \cup HandTags)]
        /\ byHand \in [People -> SUBSET HandTags]
        /\ tags \in [Items -> SUBSET Keywords]
    BY DEF Init
  <2> QED
    BY <2>1, <2>2, <2>3 DEF Init, TypeOK
<1>2. PassInv
  BY DEF Init, NoRun, PassInv, PassShape, MarkersKnown, TagsKnown, LibrarianLifted, Listed, At
<1> QED
  BY <1>1, <1>2 DEF Inv

LEMMA StepInv == Inv /\ [Next]_vars => Inv'
<1> SUFFICES ASSUME Inv, [Next]_vars PROVE Inv'
  OBVIOUS
<1>0. TypeOK /\ PassInv /\ TypeOK'
  BY TypeStep DEF Inv
<1>1. CASE Tick
  BY <1>0, <1>1, RequestKeepsPass DEF Tick, worldVars, Inv
<1>2. CASE \E p \in People, keywords \in SUBSET Keywords : Save(p, keywords)
  BY <1>0, <1>2, RequestKeepsPass DEF Save, Inv
<1>3. CASE EndPass
  <2>1. \/ run' = NoRun /\ ~busy'
        \/ run' = [NoRun EXCEPT !.pc = "load"] /\ busy'
    <3>1. busy
      BY <1>0, <1>3 DEF EndPass, Through, PassInv, PassShape, At
    <3>2. CASE again
      BY <1>3, <3>1, <3>2 DEF EndPass, StartPass
    <3>3. CASE ~again
      <4>1. Leave
        BY <1>3, <3>3 DEF EndPass
      <4> QED
        BY <4>1 DEF Leave
    <3> QED
      BY <3>2, <3>3
  <2> QED
    BY <1>0, <2>1, FreshRun DEF Inv
<1>4. CASE PassFails
  BY <1>0, <1>4, FreshRun DEF PassFails, Leave, Inv
<1>5. CASE Restart
  BY <1>0, <1>5, FreshRun DEF Restart, Inv
<1>6. CASE LoadContent \/ ListUsers \/ ListItems \/ LookUpsDone \/ StampsDone
  BY <1>0, <1>6, ReadingKeepsPass DEF Inv
<1>7. ASSUME NEW i \in Items, LookUp(i) \/ LookUpGone(i) \/ LookUpFails(i) PROVE Inv'
  BY <1>0, <1>7, ReadingKeepsPass DEF Inv
<1>8. ASSUME NEW i \in Items, SkipItem(i) PROVE Inv'
  BY <1>0, <1>8, SkipKeepsPass DEF Inv
<1>9. ASSUME NEW i \in Items, Stamp(i) PROVE Inv'
  BY <1>0, <1>9, StampKeepsPass DEF Inv
<1>10. CASE LiftLibrarian
  BY <1>0, <1>10, LiftKeepsPass DEF Inv
<1>11. ASSUME NEW p \in People, Policy(p) PROVE Inv'
  BY <1>0, <1>11, PolicyKeepsPass DEF Inv
<1>12. ASSUME NEW i \in Items, NewTitle(i) PROVE Inv'
  BY <1>0, <1>12, PassUntouched DEF NewTitle, Inv
<1>13. ASSUME NEW p \in People, NEW t \in SUBSET HandTags, EditByHand(p, t) PROVE Inv'
  <2>1. blocked' = [blocked EXCEPT ![p] = (blocked[p] \cap Keywords) \cup t]
    BY <1>13 DEF EditByHand
  <2>2. ((blocked[p] \cap Keywords) \cup t) \cap Keywords = blocked[p] \cap Keywords
    BY HandTagsAssumption
  <2>3. \A q \in People : blocked'[q] \cap Keywords = blocked[q] \cap Keywords
    BY <1>0, <2>1, <2>2 DEF TypeOK
  <2> QED
    BY <1>0, <1>13, <2>3, PassUntouched DEF EditByHand, Inv
<1>14. CASE UNCHANGED vars
  BY <1>0, <1>14, PassUntouched DEF vars, worldVars, Inv
<1> QED
  BY <1>1, <1>2, <1>3, <1>4, <1>5, <1>6, <1>7, <1>8, <1>9, <1>10, <1>11, <1>12, <1>13,
     <1>14 DEF Next

\* The inductive invariant: what a pass has read, and not yet used, is still so.
THEOREM Invariance == Spec => []Inv
<1> QED
  BY InitInv, StepInv, PTL DEF Spec

\* Every variable keeps its type, and markers stay markers (syncContentFilters).
THEOREM TypeCorrect == Spec => []TypeOK
<1>1. Inv => TypeOK
  BY DEF Inv
<1> QED
  BY <1>1, Invariance, PTL

\* Stamping never reads an item hidden from the administrator it reads as
\* (unfilterLibrarian).
THEOREM LibrarianAlwaysReads == Spec => []LibrarianCanRead
<1>1. Inv => LibrarianCanRead
  BY DEF Inv, TypeOK, PassInv, LibrarianLifted, LibrarianCanRead, Readable, Hides
<1> QED
  BY <1>1, Invariance, PTL

LEMMA EndEnforces == Inv => PassEnforces
<1> SUFFICES ASSUME Inv, At("policies"), run.policies = {}, NEW p \in People
             PROVE  /\ blocked[p] \cap Keywords = run.wanted[p]
                    /\ \A i \in run.known :
                         Hides(p, i) <=> Told(i) \cap run.wanted[p] # {}
  BY DEF PassEnforces, Through
<1>1. blocked[p] \cap Keywords = run.wanted[p]
  BY DEF Inv, PassInv, MarkersKnown, Listed
<1>2. ASSUME NEW i \in run.known
      PROVE  Hides(p, i) <=> Told(i) \cap run.wanted[p] # {}
  <2>1. tags[i] = Want(i)
    BY DEF Inv, PassInv, PassShape, TagsKnown
  <2>2. tags[i] = Told(i) \cap UnionOf(run.wanted)
    BY <2>1 DEF Want
  <2>3. run.wanted[p] \subseteq UnionOf(run.wanted)
    BY DEF UnionOf
  <2>4. tags[i] \subseteq Keywords
    BY DEF Inv, TypeOK, Run
  <2>5. tags[i] \cap blocked[p] = Told(i) \cap run.wanted[p]
    BY <1>1, <2>2, <2>3, <2>4
  <2> QED
    BY <2>5 DEF Hides
<1> QED
  BY <1>1, <1>2

\* A pass that reaches its end has made Jellyfin agree with the store it loaded
\* and the keywords Seerr gave it (syncContentFilters).
THEOREM EndOfPassEnforces == Spec => []PassEnforces
<1> QED
  BY EndEnforces, Invariance, PTL

-----------------------------------------------------------------------------
(* Nothing is uncovered.                                                   *)

LEMMA StampKeepsHidden ==
    ASSUME TypeOK, NEW p \in People, NEW i \in Items \ run.gone, NEW k \in Keywords, NEW j \in Items,
           HeldHidden(p, i, k), Stamp(j)
    PROVE  k \in tags'[i] \cap blocked'[p]
<1>1. tags' = [tags EXCEPT ![j] = Want(j)] /\ UNCHANGED blocked /\ NeedsStamp(j)
  BY DEF Stamp
<1>2. k \in run.wanted[p] /\ k \in KeywordsOf[i] /\ k \in tags[i] /\ k \in blocked[p]
  BY DEF HeldHidden
<1>3. k \in UnionOf(run.wanted)
  BY <1>2 DEF UnionOf
<1>4. j = i => k \in Want(j)
  BY <1>1, <1>2, <1>3 DEF NeedsStamp, Undecided, Want, Told
<1> QED
  BY <1>1, <1>2, <1>4 DEF TypeOK

LEMMA PolicyKeepsHidden ==
    ASSUME TypeOK, NEW p \in People, NEW i \in Items, NEW k \in Keywords, NEW q \in People,
           HeldHidden(p, i, k), Policy(q)
    PROVE  k \in tags'[i] \cap blocked'[p]
<1> DEFINE next == (run.users[q] \ Keywords) \cup run.wanted[q]
<1>1. /\ blocked' = IF next = run.users[q] THEN blocked ELSE [blocked EXCEPT ![q] = next]
      /\ UNCHANGED tags
  BY DEF Policy
<1>2. k \in run.wanted[p] /\ k \in tags[i] /\ k \in blocked[p]
  BY DEF HeldHidden
<1>3. k \in blocked'[p]
  <2>1. CASE next = run.users[q]
    BY <1>1, <1>2, <2>1
  <2>2. CASE next # run.users[q] /\ q = p
    BY <1>1, <1>2, <2>2 DEF TypeOK
  <2>3. CASE next # run.users[q] /\ q # p
    BY <1>1, <1>2, <2>3 DEF TypeOK
  <2> QED
    BY <2>1, <2>2, <2>3
<1> QED
  BY <1>1, <1>2, <1>3

LEMMA StepKeepsHidden ==
    ASSUME TypeOK, [Next]_vars, busy, busy',
           NEW p \in People \ {Librarian}, NEW i \in Items \ run.gone, NEW k \in Keywords,
           HeldHidden(p, i, k)
    PROVE  k \in tags'[i] \cap blocked'[p]
<1>0. k \in tags[i] /\ k \in blocked[p]
  BY DEF HeldHidden
<1>1. CASE UNCHANGED <<tags, blocked>>
  BY <1>0, <1>1
<1>2. CASE \E j \in Items : Stamp(j)
  BY <1>2, StampKeepsHidden
<1>3. CASE \E q \in People : Policy(q)
  BY <1>3, PolicyKeepsHidden
<1>4. CASE LiftLibrarian
  <2>1. tags' = tags /\ (blocked' = blocked \/ \E keep : blocked' = [blocked EXCEPT ![Librarian] = keep])
    BY <1>4 DEF LiftLibrarian
  <2> QED
    BY <1>0, <2>1 DEF TypeOK
<1>5. ASSUME NEW q \in People, NEW t \in SUBSET HandTags, EditByHand(q, t)
      PROVE  k \in tags'[i] \cap blocked'[p]
  <2>1. tags' = tags /\ blocked' = [blocked EXCEPT ![q] = (blocked[q] \cap Keywords) \cup t]
    BY <1>5 DEF EditByHand
  <2> QED
    BY <1>0, <2>1 DEF TypeOK
<1>6. CASE Restart
  BY <1>6 DEF Restart
<1>7. CASE Tick \/ EndPass \/ PassFails \/ LoadContent \/ ListUsers \/ ListItems
           \/ LookUpsDone \/ StampsDone \/ UNCHANGED vars
  BY <1>1, <1>7 DEF Tick, EndPass, PassFails, LoadContent, ListUsers, ListItems, LookUpsDone,
                    StampsDone, vars, worldVars
<1>8. CASE \E q \in People, keywords \in SUBSET Keywords : Save(q, keywords)
  BY <1>1, <1>8 DEF Save
<1>9. CASE \E j \in Items : LookUp(j) \/ LookUpGone(j) \/ LookUpFails(j) \/ SkipItem(j) \/ NewTitle(j)
  BY <1>1, <1>9 DEF LookUp, LookUpGone, LookUpFails, SkipItem, NewTitle, worldVars
<1> QED
  BY <1>2, <1>3, <1>4, <1>5, <1>6, <1>7, <1>8, <1>9 DEF Next

\* A pass never uncovers a title it means to hide, whatever fails, unless Seerr
\* answered 404 for it (syncContentFilters, titleKeywords).
THEOREM NothingIsUncovered == Spec => PassNeverUncovers
<1>1. TypeOK /\ [Next]_vars =>
        [\A p \in People \ {Librarian}, i \in Items \ run.gone, k \in Keywords :
           busy /\ busy' /\ HeldHidden(p, i, k) => k \in tags'[i] \cap blocked'[p]]_vars
  BY StepKeepsHidden
<1> QED
  BY <1>1, TypeCorrect, PTL DEF Spec, PassNeverUncovers

-----------------------------------------------------------------------------
(* What is blocked by hand, when nobody does so during a run.              *)

HandInv ==
    /\ ByHandIsKept
    /\ Listed => \A p \in People : run.users[p] \ Keywords = byHand[p]

LEMMA HandUnchanged == HandInv /\ UNCHANGED <<blocked, byHand, run>> => HandInv'
  BY DEF HandInv, ByHandIsKept, Listed, At

LEMMA HandUnlisted == HandInv /\ UNCHANGED <<blocked, byHand>> /\ ~Listed' => HandInv'
  BY DEF HandInv, ByHandIsKept

LEMMA HandListed ==
    HandInv /\ UNCHANGED <<blocked, byHand>> /\ Listed /\ run'.users = run.users => HandInv'
  BY DEF HandInv, ByHandIsKept

LEMMA HandStep ==
    ASSUME ~EditsMidRun, Inv, HandInv, [Next]_vars, TypeOK'
    PROVE  HandInv'
<1>0. TypeOK /\ PassShape
  BY DEF Inv, PassInv
<1>1. ASSUME NEW p \in People, NEW t \in SUBSET HandTags, EditByHand(p, t) PROVE HandInv'
  <2>1. /\ ~busy /\ run' = run /\ byHand' = [byHand EXCEPT ![p] = t]
        /\ blocked' = [blocked EXCEPT ![p] = (blocked[p] \cap Keywords) \cup t]
    BY <1>1 DEF EditByHand
  <2>2. ~Listed'
    BY <1>0, <2>1 DEF PassShape, Listed, At
  <2>3. ((blocked[p] \cap Keywords) \cup t) \ Keywords = t
    BY HandTagsAssumption
  <2>4. ByHandIsKept'
    BY <1>0, <2>1, <2>3 DEF HandInv, ByHandIsKept, TypeOK
  <2> QED
    BY <2>2, <2>4 DEF HandInv
<1>2. ASSUME NEW p \in People, Policy(p) PROVE HandInv'
  <2> DEFINE next == (run.users[p] \ Keywords) \cup run.wanted[p]
  <2>1. /\ At("policies") /\ byHand' = byHand
        /\ blocked' = IF next = run.users[p] THEN blocked ELSE [blocked EXCEPT ![p] = next]
        /\ run'.users = run.users
    BY <1>0, <1>2 DEF Policy, TypeOK, Run
  <2>2. \A q \in People : run.users[q] \ Keywords = byHand[q]
    BY <2>1 DEF HandInv, Listed
  <2>3. next \ Keywords = byHand[p]
    BY <1>0, <2>2 DEF TypeOK, Run
  <2>4. ByHandIsKept'
    BY <1>0, <2>1, <2>3 DEF HandInv, ByHandIsKept, TypeOK
  <2> QED
    BY <2>1, <2>2, <2>4 DEF HandInv
<1>3. CASE LiftLibrarian
  <2> DEFINE keep == run.users[Librarian] \ Keywords
  <2>1. /\ At("stamp") /\ byHand' = byHand
        /\ blocked' = IF keep = run.users[Librarian] THEN blocked
                      ELSE [blocked EXCEPT ![Librarian] = keep]
        /\ run'.users = [run.users EXCEPT ![Librarian] = keep]
    BY <1>0, <1>3 DEF LiftLibrarian, TypeOK, Run
  <2>2. \A q \in People : run.users[q] \ Keywords = byHand[q]
    BY <2>1 DEF HandInv, Listed
  <2>3. keep \ Keywords = byHand[Librarian]
    BY <2>2, LibrarianAssumption
  <2>4. ByHandIsKept'
    BY <1>0, <2>1, <2>3 DEF HandInv, ByHandIsKept, TypeOK
  <2>5. \A q \in People : run'.users[q] \ Keywords = byHand[q]
    BY <1>0, <2>1, <2>2, <2>3 DEF TypeOK, Run
  <2> QED
    BY <2>1, <2>4, <2>5 DEF HandInv
<1>4. CASE ListUsers
  <2>1. UNCHANGED <<blocked, byHand>> /\ run'.users = blocked
    BY <1>0, <1>4 DEF ListUsers, worldVars, TypeOK, Run
  <2> QED
    BY <2>1 DEF HandInv, ByHandIsKept
<1>5. CASE Tick \/ \E p \in People, keywords \in SUBSET Keywords : Save(p, keywords)
  <2>1. UNCHANGED <<blocked, byHand>> /\ RequestSync
    BY <1>5 DEF Tick, Save, worldVars
  <2>2. CASE run' = run
    BY <2>1, <2>2, HandUnchanged
  <2>3. CASE run'.pc = "load"
    <3>1. ~Listed'
      BY <2>3 DEF Listed, At
    <3> QED
      BY <2>1, <3>1, HandUnlisted
  <2> QED
    BY <2>1, <2>2, <2>3 DEF RequestSync, StartPass, NoRun
<1>6. CASE EndPass \/ PassFails \/ Restart
  <2>1. UNCHANGED <<blocked, byHand>> /\ run'.pc \in {"idle", "load"}
    BY <1>6 DEF EndPass, PassFails, Restart, Leave, StartPass, NoRun, worldVars
  <2>2. ~Listed'
    BY <2>1 DEF Listed, At
  <2> QED
    BY <2>1, <2>2, HandUnlisted
<1>7. CASE LoadContent
  <2>1. UNCHANGED <<blocked, byHand>> /\ run'.pc = "users"
    BY <1>0, <1>7 DEF LoadContent, worldVars, TypeOK, Run
  <2>2. ~Listed'
    BY <2>1 DEF Listed, At
  <2> QED
    BY <2>1, <2>2, HandUnlisted
<1>8. CASE \/ ListItems \/ LookUpsDone \/ StampsDone
           \/ \E i \in Items : LookUp(i) \/ LookUpGone(i) \/ LookUpFails(i) \/ SkipItem(i) \/ Stamp(i)
  <2>1. UNCHANGED <<blocked, byHand>> /\ Listed /\ run'.users = run.users
    BY <1>0, <1>8 DEF ListItems, LookUpsDone, StampsDone, LookUp, LookUpGone, LookUpFails,
                      SkipItem, Stamp, worldVars, TypeOK, Run, Listed, At
  <2> QED
    BY <2>1, HandListed
<1>9. CASE UNCHANGED vars \/ \E i \in Items : NewTitle(i)
  <2>1. UNCHANGED <<blocked, byHand, run>>
    BY <1>9 DEF NewTitle, vars, worldVars
  <2> QED
    BY <2>1, HandUnchanged
<1> QED
  BY <1>1, <1>2, <1>3, <1>4, <1>5, <1>6, <1>7, <1>8, <1>9 DEF Next

\* As long as nobody edits a policy during a run, what an administrator blocked
\* by hand is left where it is (the policy pass of syncContentFilters).
THEOREM HandTagsAreKept ==
    ASSUME ~EditsMidRun
    PROVE  Spec => []ByHandIsKept
<1>1. Init => HandInv
  BY DEF Init, NoRun, HandInv, ByHandIsKept, Listed, At
<1>2. Inv /\ HandInv /\ [Next]_vars => HandInv'
  BY HandStep, StepInv DEF Inv
<1>3. HandInv => ByHandIsKept
  BY DEF HandInv
<1> QED
  BY <1>1, <1>2, <1>3, Invariance, PTL DEF Spec

=============================================================================
