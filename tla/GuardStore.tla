----------------------------- MODULE GuardStore -----------------------------
(***************************************************************************)
(* seerr-guard's copy of the filter store (guard.mjs): currentStore keeps  *)
(* the last document it read and looks at the file again at most every     *)
(* STORE_RECHECK_MS; putStore sends a change to jellylab-push, the only    *)
(* writer, and expires the copy.                                           *)
(*                                                                         *)
(* The file is a version number with what a reader finds there.  Every     *)
(* write gives the file an mtime it never had before, so the version is    *)
(* also the mtime.  Time passes in ticks; ages are kept instead of         *)
(* instants and stop growing at Recheck, where the code stops telling them *)
(* apart.                                                                  *)
(***************************************************************************)
EXTENDS Naturals

CONSTANTS
    Calls,      \* concurrent requests that use the store
    Recheck,    \* STORE_RECHECK_MS in ticks
    MaxVersion  \* bound on how often the file changes

ASSUME RecheckAssumption == Recheck \in Nat \ {0}
ASSUME MaxVersionAssumption == MaxVersion \in Nat \ {0}

VARIABLES
    file,       \* what is on disk
    storeState, \* the guard's copy
    call,       \* each request's local state
    replaced    \* history: files replaced less than Recheck ticks ago

vars == <<file, storeState, call, replaced>>

Versions == 1 .. MaxVersion
Kinds == {"whole", "broken", "missing"}
File == [version: Versions, kind: Kinds]

-----------------------------------------------------------------------------
(* The copy.  mtimeMs is -1 when there is no document to compare with;     *)
(* 0 stands for it.                                                        *)

StoreState == [ok: BOOLEAN, missing: BOOLEAN, mtime: 0 .. MaxVersion,
               version: 0 .. MaxVersion, age: 0 .. Recheck]

Loaded(mtime, version, age) ==
    [ok |-> TRUE, missing |-> FALSE, mtime |-> mtime, version |-> version, age |-> age]

NoStore(age) ==
    [ok |-> TRUE, missing |-> TRUE, mtime |-> 0, version |-> 0, age |-> age]

Unavailable(age) ==
    [ok |-> FALSE, missing |-> FALSE, mtime |-> 0, version |-> 0, age |-> age]

\* What one undisturbed check of f leaves.
Checked(f) ==
    CASE f.kind = "whole"   -> Loaded(f.version, f.version, 0)
      [] f.kind = "missing" -> NoStore(0)
      [] f.kind = "broken"  -> Unavailable(0)

-----------------------------------------------------------------------------
(* A request.                                                              *)

PCs == {"idle", "stat", "compare", "read", "parse", "answered", "put", "stored"}

Call == [ pc: PCs,
          age: 0 .. Recheck,        \* ticks since currentStore was entered
          info: 0 .. MaxVersion,    \* what its stat found
          content: File,            \* what its readFile found
          wrote: 0 .. MaxVersion,   \* the version its own putStore stored
          answer: StoreState,       \* what currentStore returned
          window: SUBSET File ]     \* history: files current at some moment from
                                    \* Recheck before it asked to its answer

Idle == [ pc |-> "idle", age |-> 0, info |-> 0,
          content |-> [version |-> 1, kind |-> "whole"],
          wrote |-> 0, answer |-> Unavailable(0), window |-> {} ]

\* The server listens only after a first currentStore.
Init ==
    /\ file \in [version: {1}, kind: Kinds]
    /\ storeState = Checked(file)
    /\ call = [c \in Calls |-> Idle]
    /\ replaced = {}

\* A request r that is still at currentStore's stat or readFile.
Looking(r) == r.pc \in {"stat", "compare", "read", "parse"}

-----------------------------------------------------------------------------
(* The world around the guard.                                             *)

Older(age) == IF age < Recheck THEN age + 1 ELSE Recheck

Tick ==
    /\ storeState' = [storeState EXCEPT !.age = Older(storeState.age)]
    /\ call' = [c \in Calls |->
                  IF Looking(call[c]) THEN [call[c] EXCEPT !.age = Older(call[c].age)]
                  ELSE call[c]]
    /\ replaced' = {[f |-> x.f, ago |-> x.ago + 1] :
                      x \in {y \in replaced : y.ago + 1 < Recheck}}
    /\ UNCHANGED file

RecentFiles == {file} \cup {x.f : x \in replaced}

\* Everything a write does, the history of the calls w being brought up to date.
Replace(kind, w) ==
    /\ file.version < MaxVersion
    /\ file' = [version |-> file.version + 1, kind |-> kind]
    /\ replaced' = replaced \cup {[f |-> file, ago |-> 0]}
    /\ call' = [c \in Calls |->
                  IF Looking(w[c]) THEN [w[c] EXCEPT !.window = @ \cup {file'}]
                  ELSE w[c]]

\* jellylab-push saves a change made on the filter page, or somebody breaks
\* or removes the file by hand.
FileChanges ==
    /\ \E kind \in Kinds : Replace(kind, call)
    /\ UNCHANGED storeState

-----------------------------------------------------------------------------
(* currentStore.                                                           *)

At(c, pc) == call[c].pc = pc

Update(c, new) == call' = [call EXCEPT ![c] = new]

\* currentStore is entered by a caller whose own change, if any, is w.
Entered(w) == [Idle EXCEPT !.wrote = w, !.window = RecentFiles]

Returns(c, s) ==
    Update(c, [Entered(call[c].wrote) EXCEPT !.pc = "answered", !.answer = s,
                                             !.window = call[c].window])

\* Within the recheck window the copy is used as it is.
UseCopy(c) ==
    /\ At(c, "idle")
    /\ storeState.age < Recheck
    /\ Update(c, [Entered(0) EXCEPT !.pc = "answered", !.answer = storeState])
    /\ UNCHANGED <<file, storeState, replaced>>

\* Otherwise the copy is marked checked before the file is looked at.
StartCheck(c) ==
    /\ At(c, "idle")
    /\ storeState.age = Recheck
    /\ storeState' = [storeState EXCEPT !.age = 0]
    /\ Update(c, [Entered(0) EXCEPT !.pc = "stat"])
    /\ UNCHANGED <<file, replaced>>

\* stat runs outside the event loop; its result is used later.
Stat(c) ==
    /\ At(c, "stat")
    /\ file.kind # "missing"
    /\ Update(c, [call[c] EXCEPT !.pc = "compare", !.info = file.version])
    /\ UNCHANGED <<file, storeState, replaced>>

\* Mutant: A copy once loaded is kept.
UpToDateWhileOk(c) == storeState.ok

\* The comparison is with whatever copy there is by then.
UpToDate(c) == storeState.ok /\ storeState.mtime = call[c].info

KeepCopy(c) ==
    /\ At(c, "compare")
    /\ UpToDate(c)
    /\ Returns(c, storeState)
    /\ UNCHANGED <<file, storeState, replaced>>

StartRead(c) ==
    /\ At(c, "compare")
    /\ ~UpToDate(c)
    /\ Update(c, [call[c] EXCEPT !.pc = "read"])
    /\ UNCHANGED <<file, storeState, replaced>>

Read(c) ==
    /\ At(c, "read")
    /\ file.kind # "missing"
    /\ Update(c, [call[c] EXCEPT !.pc = "parse", !.content = file])
    /\ UNCHANGED <<file, storeState, replaced>>

\* Mutant: The mtime is taken after the read.
InstallWithLaterStat(c) ==
    /\ At(c, "parse")
    /\ call[c].content.kind = "whole"
    /\ storeState' = Loaded(file.version, call[c].content.version, call[c].age)
    /\ Returns(c, storeState')
    /\ UNCHANGED <<file, replaced>>

\* The new copy has the mtime of the stat, the document of the read, and
\* counts as checked when this call began.
Install(c) ==
    /\ At(c, "parse")
    /\ call[c].content.kind = "whole"
    /\ storeState' = Loaded(call[c].info, call[c].content.version, call[c].age)
    /\ Returns(c, storeState')
    /\ UNCHANGED <<file, replaced>>

\* No file at all: nobody is filtered.
NoFile(c) ==
    /\ At(c, "stat") \/ At(c, "read")
    /\ file.kind = "missing"
    /\ storeState' = NoStore(call[c].age)
    /\ Returns(c, storeState')
    /\ UNCHANGED <<file, replaced>>

\* A store that exists and cannot be parsed, or any other error of stat or
\* readFile: the copy is dropped and everything is withheld.
FailClosed(c) ==
    /\ storeState' = Unavailable(call[c].age)
    /\ Returns(c, storeState')
    /\ UNCHANGED <<file, replaced>>

BadDocument(c) ==
    /\ At(c, "parse")
    /\ call[c].content.kind = "broken"
    /\ FailClosed(c)

IoError(c) ==
    /\ At(c, "stat") \/ At(c, "read")
    /\ FailClosed(c)

Finish(c) ==
    /\ At(c, "answered")
    /\ Update(c, Idle)
    /\ UNCHANGED <<file, storeState, replaced>>

-----------------------------------------------------------------------------
(* putStore, and the settings response that reads the store back.          *)

Put(c) ==
    /\ At(c, "idle")
    /\ Update(c, [Idle EXCEPT !.pc = "put"])
    /\ UNCHANGED <<file, storeState, replaced>>

PutStored(c) ==
    /\ At(c, "put")
    /\ Replace("whole", [call EXCEPT ![c].pc = "stored", ![c].wrote = file.version + 1])
    /\ UNCHANGED storeState

\* jellylab-push refused or did not answer in time; the change may be stored.
PutFails(c) ==
    /\ At(c, "put") \/ At(c, "stored")
    /\ Update(c, Idle)
    /\ UNCHANGED <<file, storeState, replaced>>

\* Mutant: putStore does not expire the copy.
PutKeepsTheCopy(c) ==
    /\ At(c, "stored")
    /\ IF storeState.age < Recheck
         THEN /\ Update(c, [Entered(call[c].wrote) EXCEPT !.pc = "answered",
                                                         !.answer = storeState])
              /\ UNCHANGED storeState
         ELSE /\ storeState' = [storeState EXCEPT !.age = 0]
              /\ Update(c, [Entered(call[c].wrote) EXCEPT !.pc = "stat"])
    /\ UNCHANGED <<file, replaced>>

\* putStore expires the copy and settingsResponse asks for the store in the
\* same turn of the event loop, so this caller always checks the file.
PutReturns(c) ==
    /\ At(c, "stored")
    /\ storeState' = [storeState EXCEPT !.age = 0]
    /\ Update(c, [Entered(call[c].wrote) EXCEPT !.pc = "stat"])
    /\ UNCHANGED <<file, replaced>>

\* The guard restarts; no request survives it.
Restart ==
    /\ storeState' = Checked(file)
    /\ call' = [c \in Calls |-> Idle]
    /\ UNCHANGED <<file, replaced>>

Next ==
    \/ Tick
    \/ FileChanges
    \/ Restart
    \/ \E c \in Calls :
         \/ UseCopy(c)
         \/ StartCheck(c)
         \/ Stat(c)
         \/ KeepCopy(c)
         \/ StartRead(c)
         \/ Read(c)
         \/ Install(c)
         \/ NoFile(c)
         \/ BadDocument(c)
         \/ IoError(c)
         \/ Finish(c)
         \/ Put(c)
         \/ PutStored(c)
         \/ PutFails(c)
         \/ PutReturns(c)

Spec == Init /\ [][Next]_vars

\* Time passes, and every request takes its next step without an error of the
\* file system; requests keep coming.
FairSpec ==
    /\ Spec
    /\ WF_vars(Tick)
    /\ \A c \in Calls :
         /\ SF_vars(UseCopy(c) \/ StartCheck(c))
         /\ WF_vars(Stat(c) \/ KeepCopy(c) \/ StartRead(c) \/ Read(c) \/ Install(c)
                      \/ NoFile(c) \/ BadDocument(c) \/ Finish(c) \/ PutFails(c)
                      \/ PutReturns(c))

-----------------------------------------------------------------------------
(* Properties.                                                             *)

TypeOK ==
    /\ file \in File
    /\ storeState \in StoreState
    /\ call \in [Calls -> Call]
    /\ replaced \in SUBSET [f: File, ago: 0 .. Recheck - 1]

\* A copy filed under the file's present mtime is the file's present document:
\* a later check that finds the mtime unchanged can never keep a stale copy,
\* whatever order concurrent loads finish in (currentStore).
Coherent ==
    storeState.ok /\ ~storeState.missing /\ storeState.mtime = file.version =>
        storeState.version = file.version /\ file.kind = "whole"

\* Saving a setting is answered from a store that has the change in it, however
\* many other loads are in flight (settingsResponse after putStore).
EchoShowsTheChange ==
    \A c \in Calls :
        LET s == call[c].answer
        IN  At(c, "answered") /\ s.ok /\ ~s.missing => s.version >= call[c].wrote

Shows(s, f) ==
    IF s.missing THEN f.kind = "missing" ELSE f.kind = "whole" /\ f.version = s.version

\* Every document a caller is given was in the file at some moment since one
\* recheck window before it asked (currentStore).
FreshAnswer ==
    \A c \in Calls :
        At(c, "answered") /\ call[c].answer.ok =>
            \E f \in call[c].window : Shows(call[c].answer, f)

\* A request answered while no other is looking is given a document that was in
\* the file at some moment since one recheck window before it asked, whatever
\* looks and failures came before (currentStore).
FreshWhenAlone ==
    [][\A c \in Calls :
         /\ ~At(c, "answered") /\ call'[c].pc = "answered" /\ call'[c].answer.ok
         /\ \A d \in Calls \ {c} : ~Looking(call[d])
         => \E f \in call'[c].window : Shows(call'[c].answer, f)]_vars

AgreesWithFile ==
    CASE file.kind = "whole"   -> storeState.ok /\ storeState.version = file.version
      [] file.kind = "missing" -> storeState.ok /\ storeState.missing
      [] file.kind = "broken"  -> ~storeState.ok

\* Once the file stops changing and can be read, the copy becomes what the file
\* says and stays so, a load still in flight notwithstanding (currentStore).
CatchesUp ==
    <>[][file' = file /\ \A c \in Calls : ~IoError(c)]_vars => <>[]AgreesWithFile

=============================================================================
