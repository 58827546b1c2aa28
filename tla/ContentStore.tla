---------------------------- MODULE ContentStore ----------------------------
(***************************************************************************)
(* jellylab-push's filter store as the code keeps it: setPersonFilters     *)
(* chains every change behind the one before (contentWrites), and each one *)
(* loads the file, merges, writes a file beside it and renames that over   *)
(* the store.  Any file operation may fail; the process may die anywhere.  *)
(*                                                                         *)
(* The tmp file has one fixed name, so it is one variable and not one per  *)
(* request: two overlapping writers would share it.                        *)
(***************************************************************************)
EXTENDS FilterDocument, Sequences, FiniteSets

CONSTANTS
    Requests,   \* one per call of setPersonFilters
    Strangers,  \* ids a caller may name that fail the store's id check
    Asks,       \* what a call may ask for: [who |-> .., changes |-> ..]
    NoFile,     \* the file does not exist
    Half        \* a file whose write was cut short: no JSON document

ASSUME ContentAsksAssumption ==
    /\ Asks # {}
    /\ Asks \subseteq [who: People \cup Strangers, changes: Changes]
    /\ Strangers \cap People = {}

ASSUME FileAssumption ==
    /\ NoFile \notin Docs
    /\ Half \notin Docs
    /\ NoFile # Half

VARIABLES
    disk,           \* content-filters.json
    tmp,            \* content-filters.json.tmp
    contentWrites,  \* the chain: requests not yet settled, oldest first
    asks,           \* what each request asked for
    pc,             \* where each request is
    loaded          \* the changed document each running request holds

vars == <<disk, tmp, contentWrites, asks, pc, loaded>>

\* A missing file is an empty store.
Contents(file) == IF file = NoFile THEN EmptyDoc ELSE file

Running == {"loaded", "writing", "written"}

Init ==
    /\ disk \in Docs \cup {NoFile}
    /\ \A p \in (IF disk = NoFile THEN {} ELSE DOMAIN disk) : disk[p] # NothingHidden
    /\ tmp = NoFile
    /\ contentWrites = <<>>
    /\ asks = [r \in Requests |-> CHOOSE ask \in Asks : TRUE]
    /\ pc = [r \in Requests |-> "none"]
    /\ loaded = [r \in Requests |-> EmptyDoc]

-----------------------------------------------------------------------------
\* setPersonFilters, up to where it returns its promise: a bad id is refused
\* before anything is queued.
Reject(r, ask) ==
    /\ pc[r] = "none"
    /\ ask.who \notin People
    /\ asks' = [asks EXCEPT ![r] = ask]
    /\ pc' = [pc EXCEPT ![r] = "error"]
    /\ UNCHANGED <<disk, tmp, contentWrites, loaded>>

Enqueue(r, ask) ==
    /\ pc[r] = "none"
    /\ ask.who \in People
    /\ asks' = [asks EXCEPT ![r] = ask]
    /\ contentWrites' = Append(contentWrites, r)
    /\ pc' = [pc EXCEPT ![r] = "queued"]
    /\ UNCHANGED <<disk, tmp, loaded>>

\* Mutant: Nobody waits for the change before.
TurnNotWaited(r) == \E i \in DOMAIN contentWrites : contentWrites[i] = r

\* A queued change starts when everything before it in the chain has settled.
Turn(r) == contentWrites # <<>> /\ r = Head(contentWrites)

\* The document written is built from what the file holds at this moment.
Load(r) ==
    /\ Turn(r)
    /\ pc[r] = "queued"
    /\ disk # Half
    /\ loaded' = [loaded EXCEPT ![r] =
                    withPersonChange(Contents(disk), asks[r].who, asks[r].changes)]
    /\ pc' = [pc EXCEPT ![r] = "loaded"]
    /\ UNCHANGED <<disk, tmp, contentWrites, asks>>

\* Mutant: The store itself is written, with no file beside it.
StartWriteInPlace(r) ==
    /\ Turn(r)
    /\ pc[r] = "loaded"
    /\ disk' = Half
    /\ pc' = [pc EXCEPT ![r] = "writing"]
    /\ UNCHANGED <<tmp, contentWrites, asks, loaded>>

\* writeFile(tmp): opening it truncates it, and it is whole only at the end.
StartWrite(r) ==
    /\ Turn(r)
    /\ pc[r] = "loaded"
    /\ tmp' = Half
    /\ pc' = [pc EXCEPT ![r] = "writing"]
    /\ UNCHANGED <<disk, contentWrites, asks, loaded>>

FinishWrite(r) ==
    /\ Turn(r)
    /\ pc[r] = "writing"
    /\ tmp' = loaded[r]
    /\ pc' = [pc EXCEPT ![r] = "written"]
    /\ UNCHANGED <<disk, contentWrites, asks, loaded>>

\* rename(tmp, store), and with it the promise resolves and the chain moves on.
Rename(r) ==
    /\ Turn(r)
    /\ pc[r] = "written"
    /\ disk' = tmp
    /\ tmp' = NoFile
    /\ contentWrites' = Tail(contentWrites)
    /\ pc' = [pc EXCEPT ![r] = "applied"]
    /\ UNCHANGED <<asks, loaded>>

\* Mutant: The failure is not caught: everything chained behind rejects with it.
FailPoisonsTheChain(r) ==
    /\ Turn(r)
    /\ pc[r] \in {"queued"} \cup Running
    /\ contentWrites' = <<>>
    /\ pc' = [q \in Requests |->
                IF \E i \in DOMAIN contentWrites : contentWrites[i] = q THEN "error" ELSE pc[q]]
    /\ UNCHANGED <<disk, tmp, asks, loaded>>

\* Any of the awaits above throws.  The caller gets the error; the chain
\* continues behind run.catch(() => {}).
Fail(r) ==
    /\ Turn(r)
    /\ pc[r] \in {"queued"} \cup Running
    /\ contentWrites' = Tail(contentWrites)
    /\ pc' = [pc EXCEPT ![r] = "error"]
    /\ UNCHANGED <<disk, tmp, asks, loaded>>

\* Mutant: The caller is answered before its change is written.
AnswerEarly(r) ==
    /\ pc[r] \in {"queued", "applied"}
    /\ pc' = [pc EXCEPT ![r] = "ok"]
    /\ UNCHANGED <<disk, tmp, contentWrites, asks, loaded>>

\* The PUT handler, after the await: the caller is answered 200.
Answer(r) ==
    /\ pc[r] = "applied"
    /\ pc' = [pc EXCEPT ![r] = "ok"]
    /\ UNCHANGED <<disk, tmp, contentWrites, asks, loaded>>

\* The process dies and comes back: the files stay, the chain does not.
Restart ==
    /\ contentWrites' = <<>>
    /\ pc' = [r \in Requests |->
                IF pc[r] \in {"none", "ok", "error", "lost"} THEN pc[r] ELSE "lost"]
    /\ UNCHANGED <<disk, tmp, asks, loaded>>

Step(r) == Load(r) \/ StartWrite(r) \/ FinishWrite(r) \/ Rename(r) \/ Answer(r)

Next ==
    \/ \E r \in Requests :
         \/ \E ask \in Asks : Reject(r, ask) \/ Enqueue(r, ask)
         \/ Load(r)
         \/ StartWrite(r)
         \/ FinishWrite(r)
         \/ Rename(r)
         \/ Fail(r)
         \/ Answer(r)
    \/ Restart

Spec == Init /\ [][Next]_vars

\* File operations and promise callbacks complete: nothing else is assumed to
\* happen, in particular no failure and no restart.
FairSpec == Spec /\ \A r \in Requests : WF_vars(Step(r))

-----------------------------------------------------------------------------
(* Properties.                                                             *)

TypeOK ==
    /\ disk \in Docs \cup {NoFile}
    /\ tmp \in Docs \cup {NoFile, Half}
    /\ contentWrites \in Seq(Requests)
    /\ asks \in [Requests -> Asks]
    /\ pc \in [Requests -> {"none", "queued", "applied", "ok", "error", "lost"} \cup Running]
    /\ loaded \in [Requests -> Docs]

\* A reader never sees half a file: whatever write or restart interrupts the
\* store, the file under its own name is absent or a whole document
\* (the tmp file and rename in setPersonFilters).
NeverHalfAFile == disk # Half

\* The store lists exactly the people who are filtered: nobody is kept with an
\* empty entry, whatever sequence of partial changes led there
\* (withPersonChange).
ListsOnlyTheFiltered ==
    \A p \in DOMAIN Contents(disk) : Contents(disk)[p] # NothingHidden

NoRepeats ==
    \A i, j \in DOMAIN contentWrites :
        contentWrites[i] = contentWrites[j] => i = j

OnlyTheHeadRuns ==
    \A i \in DOMAIN contentWrites :
        pc[contentWrites[i]] = "queued" \/ (i = 1 /\ pc[contentWrites[i]] \in Running)

UnsettledIsQueued ==
    \A r \in Requests :
        pc[r] \in {"queued"} \cup Running =>
            /\ asks[r].who \in People
            /\ \E i \in DOMAIN contentWrites : contentWrites[i] = r

BuiltOnTheStore ==
    \A r \in Requests :
        pc[r] \in Running =>
            loaded[r] = withPersonChange(Contents(disk), asks[r].who, asks[r].changes)

TmpIsWhatWasBuilt ==
    \A r \in Requests : pc[r] = "written" => tmp = loaded[r]

\* The chain is safe: only the request whose turn it is has left the queue,
\* what it is about to write was built from the document still in the store,
\* and a finished tmp file holds exactly that (setPersonFilters).
ChainSafe ==
    /\ NoRepeats
    /\ OnlyTheHeadRuns
    /\ UnsettledIsQueued
    /\ BuiltOnTheStore
    /\ TmpIsWhatWasBuilt

\* Every change queued comes to its own turn and settles after it, also behind
\* one that failed: it is neither kept waiting nor refused for what became of
\* another (contentWrites = run.catch), unless the process restarts.
EveryChangeIsTried ==
    \A r \in Requests :
        pc[r] = "queued" ~> \/ pc[r] = "lost"
                            \/ Turn(r) /\ <>(pc[r] \in {"ok", "error", "lost"})

\* The store keeps the promise of FilterRegister: no two changes are merged
\* into the same document, none is applied twice or out of order, and a change
\* answered "ok" was applied (setPersonFilters).
Register ==
    INSTANCE FilterRegister WITH
        register <- Contents(disk),
        pending  <- contentWrites,
        answer   <- [r \in Requests |->
                       IF pc[r] \in {"queued"} \cup Running THEN "waiting" ELSE pc[r]]

ImplementsRegister == Register!RegisterSpec

=============================================================================
