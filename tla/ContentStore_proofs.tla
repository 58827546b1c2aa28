------------------------ MODULE ContentStore_proofs ------------------------
(***************************************************************************)
(* Proofs about ContentStore, for any people, keywords, requests and asks: *)
(* its types, the safety of the chain of writes, and that it implements    *)
(* FilterRegister.                                                         *)
(***************************************************************************)
EXTENDS ContentStore, TLAPS

Inv == TypeOK /\ ChainSafe

-----------------------------------------------------------------------------
(* The document operations.                                                *)

\* Merging a change into an entry gives an entry (withPersonChange).
LEMMA MergedType ==
    ASSUME NEW entry \in Entry, NEW changes \in Changes
    PROVE  Merged(entry, changes) \in Entry
  BY DEF Merged, Entry, Changes

\* What a person has stored is always an entry (withPersonChange).
LEMMA EntryOfType ==
    ASSUME NEW doc \in Docs, NEW p \in People
    PROVE  EntryOf(doc, p) \in Entry
  BY DEF EntryOf, Docs, Entry, NothingHidden

\* A change to one person's filter turns a document into a document
\* (withPersonChange).
LEMMA WithPersonChangeType ==
    ASSUME NEW doc \in Docs, NEW p \in People, NEW changes \in Changes
    PROVE  withPersonChange(doc, p, changes) \in Docs
<1> DEFINE next == Merged(EntryOf(doc, p), changes)
<1>1. next \in Entry
  BY MergedType, EntryOfType
<1>2. PICK listed \in SUBSET People : doc \in [listed -> Entry]
  BY DEF Docs
<1>3. CASE next = NothingHidden
  <2>1. Restrict(doc, DOMAIN doc \ {p}) \in [listed \ {p} -> Entry]
    BY <1>2 DEF Restrict
  <2> QED
    BY <1>2, <1>3, <2>1 DEF withPersonChange, Docs
<1>4. CASE next # NothingHidden
  <2>1. [q \in DOMAIN doc \cup {p} |-> IF q = p THEN next ELSE doc[q]]
          \in [listed \cup {p} -> Entry]
    BY <1>1, <1>2
  <2> QED
    BY <1>2, <1>4, <2>1 DEF withPersonChange, Docs
<1> QED
  BY <1>3, <1>4

\* The file's contents are a document, also when there is no file (loadContent).
LEMMA ContentsType ==
    ASSUME NEW file \in Docs \cup {NoFile}
    PROVE  Contents(file) \in Docs
<1>1. EmptyDoc \in [{} -> Entry]
  BY DEF EmptyDoc
<1> QED
  BY <1>1 DEF Contents, Docs

-----------------------------------------------------------------------------
(* The invariant.                                                          *)

LEMMA InitInv == Init => Inv
<1> SUFFICES ASSUME Init PROVE Inv
  OBVIOUS
<1>1. TypeOK
  <2>1. EmptyDoc \in Docs
    BY ContentsType DEF Contents
  <2>2. (CHOOSE ask \in Asks : TRUE) \in Asks
    BY ContentAsksAssumption
  <2> QED
    BY <2>1, <2>2 DEF Init, TypeOK, Running
<1>2. ChainSafe
  BY DEF Init, ChainSafe, NoRepeats, OnlyTheHeadRuns, UnsettledIsQueued,
         BuiltOnTheStore, TmpIsWhatWasBuilt, Running
<1> QED
  BY <1>1, <1>2 DEF Inv

LEMMA NextInv == Inv /\ [Next]_vars => Inv'
<1> SUFFICES ASSUME Inv, [Next]_vars PROVE Inv'
  OBVIOUS
<1> USE DEF Inv, ChainSafe, NoRepeats, OnlyTheHeadRuns, UnsettledIsQueued,
           BuiltOnTheStore, TmpIsWhatWasBuilt
<1>1. ASSUME NEW r \in Requests, NEW ask \in Asks, Reject(r, ask)
      PROVE  Inv'
  <2>1. TypeOK'
    BY <1>1 DEF TypeOK, Reject, Running
  <2>2. ChainSafe'
    BY <1>1 DEF TypeOK, Reject, Running
  <2> QED
    BY <2>1, <2>2
<1>2. ASSUME NEW r \in Requests, NEW ask \in Asks, Enqueue(r, ask)
      PROVE  Inv'
  <2>1. TypeOK'
    BY <1>2 DEF TypeOK, Enqueue, Running
  <2>2. ChainSafe'
    BY <1>2 DEF TypeOK, Enqueue, Running
  <2> QED
    BY <2>1, <2>2
<1>3. ASSUME NEW r \in Requests, Load(r)
      PROVE  Inv'
  <2>1. TypeOK'
    <3>1. asks[r].who \in People /\ asks[r].changes \in Changes
      BY <1>3, ContentAsksAssumption DEF Load, TypeOK, Running
    <3>2. Contents(disk) \in Docs
      BY ContentsType DEF TypeOK
    <3>3. withPersonChange(Contents(disk), asks[r].who, asks[r].changes) \in Docs
      BY <3>1, <3>2, WithPersonChangeType
    <3> QED
      BY <1>3, <3>3 DEF TypeOK, Load, Running
  <2>2. ChainSafe'
    BY <1>3 DEF TypeOK, Load, Turn, Running
  <2> QED
    BY <2>1, <2>2
<1>4. ASSUME NEW r \in Requests, StartWrite(r)
      PROVE  Inv'
  <2>1. TypeOK'
    BY <1>4 DEF TypeOK, StartWrite, Running
  <2>2. ChainSafe'
    BY <1>4 DEF TypeOK, StartWrite, Turn, Running
  <2> QED
    BY <2>1, <2>2
<1>5. ASSUME NEW r \in Requests, FinishWrite(r)
      PROVE  Inv'
  <2>1. TypeOK'
    BY <1>5 DEF TypeOK, FinishWrite, Running
  <2>2. ChainSafe'
    BY <1>5 DEF TypeOK, FinishWrite, Turn, Running
  <2> QED
    BY <2>1, <2>2
<1>6. ASSUME NEW r \in Requests, Rename(r)
      PROVE  Inv'
  <2>1. TypeOK'
    BY <1>6 DEF TypeOK, Rename, Turn, Running
  <2>2. /\ contentWrites # <<>>
        /\ r = contentWrites[1]
        /\ contentWrites' \in Seq(Requests)
        /\ DOMAIN contentWrites' = 1 .. Len(contentWrites) - 1
        /\ \A i \in DOMAIN contentWrites' : contentWrites'[i] = contentWrites[i + 1]
    BY <1>6 DEF TypeOK, Rename, Turn
  <2>3. \A i \in DOMAIN contentWrites' :
           i + 1 \in DOMAIN contentWrites /\ contentWrites'[i] # r
    BY <2>2 DEF TypeOK
  <2>4. NoRepeats' /\ OnlyTheHeadRuns'
    BY <1>6, <2>2, <2>3 DEF TypeOK, Rename, Running
  <2>5. UnsettledIsQueued'
    <3> SUFFICES ASSUME NEW q \in Requests, pc'[q] \in {"queued"} \cup Running
                 PROVE  /\ asks'[q].who \in People
                        /\ \E i \in DOMAIN contentWrites' : contentWrites'[i] = q
      OBVIOUS
    <3>1. q # r /\ pc'[q] = pc[q] /\ asks' = asks
      BY <1>6 DEF TypeOK, Rename, Running
    <3>2. PICK i \in DOMAIN contentWrites : contentWrites[i] = q
      BY <3>1
    <3>3. i - 1 \in DOMAIN contentWrites' /\ contentWrites'[i - 1] = q
      BY <2>2, <3>1, <3>2 DEF TypeOK
    <3> QED
      BY <3>1, <3>3
  <2>6. \A q \in Requests : pc'[q] \notin Running
    BY <1>6, <2>2 DEF TypeOK, Rename, Running
  <2>7. BuiltOnTheStore' /\ TmpIsWhatWasBuilt'
    BY <2>6 DEF Running
  <2> QED
    BY <2>1, <2>4, <2>5, <2>7
<1>7. ASSUME NEW r \in Requests, Fail(r)
      PROVE  Inv'
  <2>1. TypeOK'
    BY <1>7 DEF TypeOK, Fail, Turn, Running
  <2>2. /\ contentWrites # <<>>
        /\ r = contentWrites[1]
        /\ contentWrites' \in Seq(Requests)
        /\ DOMAIN contentWrites' = 1 .. Len(contentWrites) - 1
        /\ \A i \in DOMAIN contentWrites' : contentWrites'[i] = contentWrites[i + 1]
    BY <1>7 DEF TypeOK, Fail, Turn
  <2>3. \A i \in DOMAIN contentWrites' :
           i + 1 \in DOMAIN contentWrites /\ contentWrites'[i] # r
    BY <2>2 DEF TypeOK
  <2>4. NoRepeats' /\ OnlyTheHeadRuns'
    BY <1>7, <2>2, <2>3 DEF TypeOK, Fail, Running
  <2>5. UnsettledIsQueued'
    <3> SUFFICES ASSUME NEW q \in Requests, pc'[q] \in {"queued"} \cup Running
                 PROVE  /\ asks'[q].who \in People
                        /\ \E i \in DOMAIN contentWrites' : contentWrites'[i] = q
      OBVIOUS
    <3>1. q # r /\ pc'[q] = pc[q] /\ asks' = asks
      BY <1>7 DEF TypeOK, Fail, Running
    <3>2. PICK i \in DOMAIN contentWrites : contentWrites[i] = q
      BY <3>1
    <3>3. i - 1 \in DOMAIN contentWrites' /\ contentWrites'[i - 1] = q
      BY <2>2, <3>1, <3>2 DEF TypeOK
    <3> QED
      BY <3>1, <3>3
  <2>6. \A q \in Requests : pc'[q] \notin Running
    BY <1>7, <2>2 DEF TypeOK, Fail, Running
  <2>7. BuiltOnTheStore' /\ TmpIsWhatWasBuilt'
    BY <2>6 DEF Running
  <2> QED
    BY <2>1, <2>4, <2>5, <2>7
<1>8. ASSUME NEW r \in Requests, Answer(r)
      PROVE  Inv'
  <2>1. TypeOK'
    BY <1>8 DEF TypeOK, Answer, Running
  <2>2. ChainSafe'
    BY <1>8 DEF TypeOK, Answer, Running
  <2> QED
    BY <2>1, <2>2
<1>9. CASE Restart
  <2>1. TypeOK'
    BY <1>9 DEF TypeOK, Restart, Running
  <2>2. ChainSafe'
    BY <1>9 DEF TypeOK, Restart, Running
  <2> QED
    BY <2>1, <2>2
<1>10. CASE UNCHANGED vars
  BY <1>10 DEF vars, TypeOK
<1> QED
  BY <1>1, <1>2, <1>3, <1>4, <1>5, <1>6, <1>7, <1>8, <1>9, <1>10 DEF Next

\* The inductive invariant holds in every state (setPersonFilters).
THEOREM Invariance == Spec => []Inv
  BY InitInv, NextInv, PTL DEF Spec

\* Every variable keeps its type (setPersonFilters).
THEOREM TypeCorrect == Spec => []TypeOK
  BY Invariance, PTL DEF Inv

\* The chain of writes is safe, however many changes are queued and whatever
\* fails or restarts (setPersonFilters).
THEOREM ChainIsSafe == Spec => []ChainSafe
  BY Invariance, PTL DEF Inv

\* No reader of the store ever sees half a file (setPersonFilters).
THEOREM StoreIsNeverHalf == Spec => []NeverHalfAFile
<1>1. TypeOK => NeverHalfAFile
  BY FileAssumption DEF TypeOK, NeverHalfAFile
<1> QED
  BY <1>1, TypeCorrect, PTL

-----------------------------------------------------------------------------
(* Only filtered people are listed.                                        *)

\* A change leaves no empty entry behind (withPersonChange).
LEMMA ChangeListsOnlyTheFiltered ==
    ASSUME NEW doc \in Docs, NEW p \in People, NEW changes \in Changes,
           \A q \in DOMAIN doc : doc[q] # NothingHidden
    PROVE  \A q \in DOMAIN withPersonChange(doc, p, changes) :
              withPersonChange(doc, p, changes)[q] # NothingHidden
  BY DEF withPersonChange, Restrict

\* The store lists exactly the people who are filtered, in every state
\* (withPersonChange).
THEOREM OnlyTheFilteredAreListed == Spec => []ListsOnlyTheFiltered
<1>1. Init => ListsOnlyTheFiltered
  BY DEF Init, ListsOnlyTheFiltered, Contents, EmptyDoc
<1>2. Inv /\ ListsOnlyTheFiltered /\ [Next]_vars => ListsOnlyTheFiltered'
  <2> SUFFICES ASSUME Inv, ListsOnlyTheFiltered, [Next]_vars
               PROVE  ListsOnlyTheFiltered'
    OBVIOUS
  <2>1. CASE UNCHANGED disk
    BY <2>1 DEF ListsOnlyTheFiltered, Contents
  <2>2. ASSUME NEW r \in Requests, Rename(r)
        PROVE  ListsOnlyTheFiltered'
    <3> DEFINE ask == asks[r]
               doc == withPersonChange(Contents(disk), ask.who, ask.changes)
    <3>1. pc[r] = "written" /\ pc[r] \in Running
      BY <2>2 DEF Rename, Running
    <3>2. disk' = doc
      BY <2>2, <3>1 DEF Rename, Inv, ChainSafe, BuiltOnTheStore, TmpIsWhatWasBuilt
    <3>3. ask.who \in People /\ ask.changes \in Changes
      BY <3>1, ContentAsksAssumption DEF Inv, TypeOK, ChainSafe, UnsettledIsQueued
    <3>4. Contents(disk) \in Docs
      BY ContentsType DEF Inv, TypeOK
    <3>5. doc \in Docs /\ \A q \in DOMAIN doc : doc[q] # NothingHidden
      <4>1. \A q \in DOMAIN Contents(disk) : Contents(disk)[q] # NothingHidden
        BY DEF ListsOnlyTheFiltered
      <4> HIDE DEF ask
      <4> QED
        BY <3>3, <3>4, <4>1, WithPersonChangeType, ChangeListsOnlyTheFiltered
    <3>6. Contents(disk') = doc
      BY <3>2, <3>5, FileAssumption DEF Contents
    <3> QED
      BY <3>5, <3>6 DEF ListsOnlyTheFiltered, Contents
  <2> QED
    BY <2>1, <2>2 DEF Next, vars, Reject, Enqueue, Load, StartWrite, FinishWrite,
                      Fail, Answer, Restart
<1> QED
  BY <1>1, <1>2, Invariance, PTL DEF Spec

-----------------------------------------------------------------------------
(* The store implements the register.                                      *)

\* The register's document operations are the store's (withPersonChange).
LEMMA SameDocuments ==
    /\ Register!Docs = Docs
    /\ \A doc, p, changes :
         Register!withPersonChange(doc, p, changes) = withPersonChange(doc, p, changes)
<1>1. Register!Docs = Docs
  BY DEF Docs, Register!Docs, Entry, Register!Entry
<1>2. ASSUME NEW doc, NEW p, NEW changes
      PROVE  Register!withPersonChange(doc, p, changes) = withPersonChange(doc, p, changes)
  BY DEF withPersonChange, Register!withPersonChange, Merged, Register!Merged,
         EntryOf, Register!EntryOf, NothingHidden, Register!NothingHidden,
         Restrict, Register!Restrict
<1> QED
  BY <1>1, <1>2

LEMMA InitRefines == Init => Register!RegisterInit
<1> SUFFICES ASSUME Init PROVE Register!RegisterInit
  OBVIOUS
<1>1. Contents(disk) \in Docs
  BY ContentsType DEF Init
<1> QED
  BY <1>1, SameDocuments DEF Init, Register!RegisterInit, Running

LEMMA StepRefines ==
    Inv /\ [Next]_vars => [Register!RegisterNext]_(Register!registerVars)
<1> SUFFICES ASSUME Inv, [Next]_vars
             PROVE  Register!RegisterNext \/ UNCHANGED Register!registerVars
  OBVIOUS
<1> DEFINE told == [r \in Requests |->
                      IF pc[r] \in {"queued"} \cup Running THEN "waiting" ELSE pc[r]]
<1>1. ASSUME NEW r \in Requests, NEW ask \in Asks, Reject(r, ask)
      PROVE  Register!Reject(r, ask)
  BY <1>1 DEF Reject, Register!Reject, Inv, TypeOK, Running
<1>2. ASSUME NEW r \in Requests, NEW ask \in Asks, Enqueue(r, ask)
      PROVE  Register!Submit(r, ask)
  BY <1>2 DEF Enqueue, Register!Submit, Inv, TypeOK, Running
<1>3. ASSUME NEW r \in Requests, Load(r) \/ StartWrite(r) \/ FinishWrite(r)
      PROVE  UNCHANGED Register!registerVars
  <2>1. UNCHANGED <<disk, contentWrites, asks>> /\ told' = told
    BY <1>3 DEF Load, StartWrite, FinishWrite, Inv, TypeOK, Running
  <2> QED
    BY <2>1 DEF Register!registerVars, Contents
<1>4. ASSUME NEW r \in Requests, Rename(r)
      PROVE  Register!ApplyNext
  <2> DEFINE doc == withPersonChange(Contents(disk), asks[r].who, asks[r].changes)
  <2>1. contentWrites # <<>> /\ r = Head(contentWrites) /\ pc[r] = "written"
    BY <1>4 DEF Rename, Turn
  <2>2. disk' = doc
    BY <1>4, <2>1 DEF Rename, Inv, ChainSafe, BuiltOnTheStore, TmpIsWhatWasBuilt, Running
  <2>3. doc \in Docs
    <3>1. asks[r].who \in People /\ asks[r].changes \in Changes
      BY <2>1, ContentAsksAssumption
         DEF Inv, TypeOK, ChainSafe, UnsettledIsQueued, Running
    <3>2. Contents(disk) \in Docs
      BY ContentsType DEF Inv, TypeOK
    <3> QED
      BY <3>1, <3>2, WithPersonChangeType
  <2>4. Contents(disk)' = doc
    BY <2>2, <2>3, FileAssumption DEF Contents
  <2>5. told' = [told EXCEPT ![r] = "applied"]
    BY <1>4, <2>1 DEF Rename, Inv, TypeOK, Running
  <2>6. contentWrites' = Tail(contentWrites) /\ UNCHANGED asks
    BY <1>4 DEF Rename
  <2> QED
    BY <2>1, <2>4, <2>5, <2>6, SameDocuments DEF Register!ApplyNext
<1>5. ASSUME NEW r \in Requests, Fail(r)
      PROVE  Register!RefuseNext
  <2>1. contentWrites # <<>> /\ r = Head(contentWrites)
    BY <1>5 DEF Fail, Turn
  <2>2. told' = [told EXCEPT ![r] = "error"]
    BY <1>5 DEF Fail, Inv, TypeOK, Running
  <2>3. contentWrites' = Tail(contentWrites) /\ UNCHANGED <<disk, asks>>
    BY <1>5 DEF Fail
  <2> QED
    BY <2>1, <2>2, <2>3 DEF Register!RefuseNext, Contents
<1>6. ASSUME NEW r \in Requests, Answer(r)
      PROVE  Register!TellOk(r)
  BY <1>6 DEF Answer, Register!TellOk, Inv, TypeOK, Running, Contents
<1>7. CASE Restart
  <2>1. told' = [r \in Requests |->
                   IF told[r] \in {"waiting", "applied"} THEN "lost" ELSE told[r]]
    BY <1>7 DEF Restart, Inv, TypeOK, Running
  <2>2. contentWrites' = <<>> /\ UNCHANGED <<disk, asks>>
    BY <1>7 DEF Restart
  <2> QED
    BY <2>1, <2>2 DEF Register!Forget, Register!RegisterNext, Contents
<1>8. CASE UNCHANGED vars
  BY <1>8 DEF vars, Register!registerVars, Contents
<1> QED
  BY <1>1, <1>2, <1>3, <1>4, <1>5, <1>6, <1>7, <1>8 DEF Next, Register!RegisterNext

\* The store implements the register: changes take effect one at a time, in
\* order, each merged into what the one before left, and "ok" is only said of a
\* change that was applied (setPersonFilters).
THEOREM StoreImplementsRegister == Spec => ImplementsRegister
  BY InitRefines, StepRefines, Invariance, PTL
     DEF Spec, ImplementsRegister, Register!RegisterSpec

=============================================================================
