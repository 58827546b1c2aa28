------------------------- MODULE GuardStore_proofs -------------------------
(***************************************************************************)
(* Proofs about GuardStore, for any number of concurrent requests, any     *)
(* recheck window and any number of versions of the file.                  *)
(***************************************************************************)
EXTENDS GuardStore, TLAPS

\* A copy's mtime is never newer than its document: the stat came first.
CopyOrdered ==
    storeState.ok /\ ~storeState.missing =>
        /\ storeState.mtime <= storeState.version
        /\ storeState.version <= file.version
        /\ storeState.version = file.version => file.kind = "whole"

\* What a request w carries between its steps is ordered the same way, and not
\* older than what it stored itself.
CarriedOrdered(w) ==
    /\ w.wrote <= file.version
    /\ w.pc \in {"compare", "read", "parse"} =>
         w.wrote <= w.info /\ w.info <= file.version
    /\ w.pc = "parse" =>
         /\ w.info <= w.content.version
         /\ w.content.version <= file.version
         /\ w.content.version = file.version => w.content = file

EchoOrdered(w) ==
    w.pc = "answered" /\ w.answer.ok /\ ~w.answer.missing => w.answer.version >= w.wrote

CarriedSafe == \A c \in Calls : CarriedOrdered(call[c]) /\ EchoOrdered(call[c])

Inv == TypeOK /\ CopyOrdered /\ CarriedSafe

-----------------------------------------------------------------------------
LEMMA IdleType == Idle \in Call
  BY RecheckAssumption, MaxVersionAssumption
     DEF Idle, Call, PCs, File, Versions, Kinds, Unavailable, StoreState

LEMMA CopyTypes ==
    ASSUME NEW age \in 0 .. Recheck
    PROVE  /\ NoStore(age) \in StoreState
           /\ Unavailable(age) \in StoreState
           /\ \A m, v \in 0 .. MaxVersion : Loaded(m, v, age) \in StoreState
  BY MaxVersionAssumption DEF NoStore, Unavailable, Loaded, StoreState

LEMMA CheckedType == ASSUME file \in File PROVE Checked(file) \in StoreState
<1>1. 0 \in 0 .. Recheck
  BY RecheckAssumption
<1>2. file.version \in 0 .. MaxVersion
  BY MaxVersionAssumption DEF File, Versions
<1> QED
  BY <1>1, <1>2, CopyTypes DEF Checked, File, Kinds

LEMMA WindowType == TypeOK => RecentFiles \in SUBSET File
  BY DEF TypeOK, RecentFiles

LEMMA InitInv == Init => Inv
<1> SUFFICES ASSUME Init PROVE Inv
  OBVIOUS
<1>1. file \in File
  BY MaxVersionAssumption DEF Init, File, Versions
<1>2. TypeOK
  BY <1>1, IdleType, CheckedType DEF Init, TypeOK
<1>3. CopyOrdered
  BY <1>1 DEF Init, CopyOrdered, Checked, Loaded, NoStore, Unavailable, File, Kinds,
              Versions
<1>4. CarriedSafe
  <2>1. \A c \in Calls : call[c] = Idle
    BY DEF Init
  <2>2. file.version \in Nat
    BY <1>1 DEF File, Versions
  <2>3. CarriedOrdered(Idle) /\ EchoOrdered(Idle)
    BY <2>2 DEF CarriedOrdered, EchoOrdered, Idle
  <2> QED
    BY <2>1, <2>3 DEF CarriedSafe
<1> QED
  BY <1>2, <1>3, <1>4 DEF Inv

\* A step of one request, from what it leaves in that request's record.
LEMMA CallStep ==
    ASSUME Inv, NEW c \in Calls, NEW new \in Call, Update(c, new),
           UNCHANGED <<file, replaced>>, storeState' \in StoreState, CopyOrdered',
           CarriedOrdered(new), EchoOrdered(new)
    PROVE  Inv'
<1>1. TypeOK'
  BY DEF Inv, TypeOK, Update
<1>2. CarriedSafe'
  <2> SUFFICES ASSUME NEW d \in Calls
               PROVE  CarriedOrdered(call[d])' /\ EchoOrdered(call[d])'
    BY DEF CarriedSafe
  <2>1. CASE d = c
    <3>1. call'[d] = new
      BY <2>1 DEF Inv, TypeOK, Update
    <3> QED
      BY <3>1 DEF CarriedOrdered, EchoOrdered
  <2>2. CASE d # c
    <3>1. call'[d] = call[d]
      BY <2>2 DEF Inv, TypeOK, Update
    <3> QED
      BY <3>1 DEF Inv, CarriedSafe, CarriedOrdered, EchoOrdered
  <2> QED
    BY <2>1, <2>2
<1> QED
  BY <1>1, <1>2 DEF Inv

\* The file moves on to a new version.
LEMMA ReplaceStep ==
    ASSUME Inv, NEW kind \in Kinds, NEW w \in [Calls -> Call],
           \A c \in Calls : \/ w[c] = call[c]
                            \/ w[c].pc = "stored" /\ w[c].wrote = file.version + 1,
           Replace(kind, w), UNCHANGED storeState
    PROVE  Inv'
<1>0. /\ file.version < MaxVersion
      /\ file' = [version |-> file.version + 1, kind |-> kind]
      /\ replaced' = replaced \cup {[f |-> file, ago |-> 0]}
  BY DEF Replace
<1>1. file' \in File /\ file'.version = file.version + 1 /\ file.version \in Nat
  <2>1. file.version \in 1 .. MaxVersion
    BY DEF Inv, TypeOK, File, Versions
  <2>2. file.version + 1 \in 1 .. MaxVersion
    BY <1>0, <2>1, MaxVersionAssumption
  <2> QED
    BY <1>0, <2>1, <2>2 DEF File, Versions
<1>2. TypeOK'
  <2>1. replaced' \in SUBSET [f: File, ago: 0 .. Recheck - 1]
    BY <1>0, RecheckAssumption DEF Inv, TypeOK
  <2>2. call' \in [Calls -> Call]
    BY <1>1, IdleType DEF Replace, Call
  <2> QED
    BY <1>1, <2>1, <2>2 DEF Inv, TypeOK
<1>3. CopyOrdered'
  BY <1>1 DEF Inv, TypeOK, CopyOrdered, StoreState, File, Versions
<1>4. CarriedSafe'
  <2> SUFFICES ASSUME NEW c \in Calls
               PROVE  CarriedOrdered(call[c])' /\ EchoOrdered(call[c])'
    BY DEF CarriedSafe
  <2>1. call[c] \in Call /\ CarriedOrdered(call[c]) /\ EchoOrdered(call[c])
    BY DEF Inv, TypeOK, CarriedSafe
  <2>2. file.version \in Nat
    BY <1>1
  <2>4. CASE w[c] = call[c]
    <3>1. call'[c] = [call[c] EXCEPT !.window = @ \cup {file'}] \/ call'[c] = call[c]
      BY <2>4 DEF Replace
    <3>2. /\ call'[c].pc = call[c].pc /\ call'[c].info = call[c].info
          /\ call'[c].content = call[c].content /\ call'[c].wrote = call[c].wrote
          /\ call'[c].answer = call[c].answer
      BY <2>1, <3>1 DEF Call
    <3> QED
      BY <1>1, <2>1, <2>2, <3>2 DEF CarriedOrdered, EchoOrdered, Call, File, Versions
  <2>5. CASE w[c].pc = "stored" /\ w[c].wrote = file.version + 1
    <3>2. call'[c] = w[c]
      BY <2>5 DEF Replace, Looking
    <3>3. call'[c].pc = "stored" /\ call'[c].wrote = file.version + 1
      BY <2>5, <3>2
    <3> QED
      BY <1>1, <2>2, <3>3 DEF CarriedOrdered, EchoOrdered
  <2> QED
    BY <2>4, <2>5
<1> QED
  BY <1>2, <1>3, <1>4 DEF Inv

LEMMA NextInv == Inv /\ [Next]_vars => Inv'
<1> SUFFICES ASSUME Inv, [Next]_vars PROVE Inv'
  OBVIOUS
<1> USE DEF Call, PCs, CarriedOrdered, EchoOrdered
<1>a. /\ file \in File /\ file.version \in Nat /\ file.version \in 1 .. MaxVersion
      /\ \A f \in File : f.version \in 0 .. MaxVersion
      /\ storeState \in StoreState
      /\ RecentFiles \in SUBSET File
      /\ 0 \in 0 .. Recheck
      /\ 0 .. MaxVersion \subseteq Nat
  BY WindowType, RecheckAssumption, MaxVersionAssumption DEF Inv, TypeOK, File, Versions
<1>b. ASSUME NEW c \in Calls
      PROVE  call[c] \in Call /\ CarriedOrdered(call[c]) /\ EchoOrdered(call[c])
  BY DEF Inv, TypeOK, CarriedSafe
<1>c. ASSUME NEW a \in 0 .. Recheck
      PROVE  [storeState EXCEPT !.age = a] \in StoreState
  BY <1>a DEF StoreState
<1>d. CopyOrdered
  BY DEF Inv
<1>1. CASE Tick
  <2>1. \A a \in 0 .. Recheck : Older(a) \in 0 .. Recheck
    BY RecheckAssumption DEF Older
  <2>2. storeState' \in StoreState
    BY <1>1, <1>a, <1>c, <2>1 DEF Tick, StoreState
  <2>3. CopyOrdered'
    BY <1>1, <1>a, <1>d DEF Tick, CopyOrdered, StoreState
  <2>4. ASSUME NEW c \in Calls
        PROVE  call'[c] \in Call /\ CarriedOrdered(call[c])' /\ EchoOrdered(call[c])'
    <3>1. CASE ~Looking(call[c])
      <4>1. call'[c] = call[c]
        BY <1>1, <3>1 DEF Tick
      <4> QED
        BY <1>1, <1>b, <4>1 DEF Tick
    <3>2. CASE Looking(call[c])
      <4>1. call'[c] = [call[c] EXCEPT !.age = Older(call[c].age)]
        BY <1>1, <3>2 DEF Tick
      <4>2. call[c].age \in 0 .. Recheck
        BY <1>b
      <4> QED
        BY <1>1, <1>b, <2>1, <4>1, <4>2 DEF Tick
    <3> QED
      BY <3>1, <3>2
  <2>5. replaced' \in SUBSET [f: File, ago: 0 .. Recheck - 1]
    <3>1. ASSUME NEW x \in replaced, x.ago + 1 < Recheck
          PROVE  [f |-> x.f, ago |-> x.ago + 1] \in [f: File, ago: 0 .. Recheck - 1]
      BY <3>1, RecheckAssumption DEF Inv, TypeOK
    <3> QED
      BY <1>1, <3>1 DEF Tick
  <2>6. TypeOK'
    BY <1>1, <1>a, <2>2, <2>4, <2>5 DEF Tick, TypeOK
  <2> QED
    BY <2>3, <2>4, <2>6 DEF Inv, CarriedSafe
<1>2. CASE FileChanges
  <2>1. PICK kind \in Kinds : Replace(kind, call)
    BY <1>2 DEF FileChanges
  <2> QED
    BY <1>2, <2>1, ReplaceStep DEF FileChanges, Inv, TypeOK
<1>3. CASE Restart
  <2>1. storeState' \in StoreState /\ CopyOrdered'
    BY <1>3, <1>a, CheckedType
       DEF Restart, CopyOrdered, Checked, Loaded, NoStore, Unavailable, File, Kinds
  <2>2. \A c \in Calls : call'[c] = Idle
    BY <1>3 DEF Restart
  <2>3. TypeOK'
    BY <1>3, <2>1, IdleType DEF Restart, Inv, TypeOK
  <2>4. CarriedSafe'
    BY <1>3, <1>a, <2>2 DEF Restart, CarriedSafe, Idle
  <2> QED
    BY <2>1, <2>3, <2>4 DEF Inv
<1>4. ASSUME NEW c \in Calls, UseCopy(c)
      PROVE  Inv'
  <2> DEFINE new == [Entered(0) EXCEPT !.pc = "answered", !.answer = storeState]
  <2>1. Update(c, new) /\ UNCHANGED <<file, replaced>>
    BY <1>4 DEF UseCopy
  <2>2. new \in Call
    BY <1>4, <1>a, <1>b, IdleType DEF UseCopy, At, Entered, Idle
  <2>3. storeState' \in StoreState /\ CopyOrdered'
    BY <1>4, <1>a, <1>b, <1>d DEF UseCopy, CopyOrdered, At
  <2>4. CarriedOrdered(new) /\ EchoOrdered(new)
    BY <1>4, <1>a, <1>b, <1>d DEF UseCopy, At, Entered, Idle, StoreState
  <2> HIDE DEF new
  <2> QED
    BY <2>1, <2>2, <2>3, <2>4, CallStep
<1>5. ASSUME NEW c \in Calls, StartCheck(c)
      PROVE  Inv'
  <2> DEFINE new == [Entered(0) EXCEPT !.pc = "stat"]
  <2>1. Update(c, new) /\ UNCHANGED <<file, replaced>>
    BY <1>5 DEF StartCheck
  <2>2. new \in Call
    BY <1>5, <1>a, <1>b, IdleType DEF StartCheck, At, Entered, Idle
  <2>3. storeState' \in StoreState /\ CopyOrdered'
    BY <1>5, <1>a, <1>b, <1>d, <1>c DEF StartCheck, CopyOrdered, At, StoreState
  <2>4. CarriedOrdered(new) /\ EchoOrdered(new)
    BY <1>5, <1>a, <1>b, <1>d DEF StartCheck, At, Entered, Idle
  <2> HIDE DEF new
  <2> QED
    BY <2>1, <2>2, <2>3, <2>4, CallStep
<1>6. ASSUME NEW c \in Calls, Stat(c)
      PROVE  Inv'
  <2> DEFINE new == [call[c] EXCEPT !.pc = "compare", !.info = file.version]
  <2>1. Update(c, new) /\ UNCHANGED <<file, replaced>>
    BY <1>6 DEF Stat
  <2>2. new \in Call
    <3>1. file.version \in 0 .. MaxVersion
      BY <1>a
    <3> QED
      BY <1>b, <3>1
  <2>3. storeState' \in StoreState /\ CopyOrdered'
    BY <1>6, <1>a, <1>b, <1>d DEF Stat, CopyOrdered, At
  <2>4. CarriedOrdered(new) /\ EchoOrdered(new)
    BY <1>6, <1>a, <1>b, <1>d DEF Stat, At
  <2> HIDE DEF new
  <2> QED
    BY <2>1, <2>2, <2>3, <2>4, CallStep
<1>7. ASSUME NEW c \in Calls, KeepCopy(c)
      PROVE  Inv'
  <2> DEFINE new == [Entered(call[c].wrote) EXCEPT !.pc = "answered", !.answer = storeState,
                                                  !.window = call[c].window]
  <2>1. Update(c, new) /\ UNCHANGED <<file, replaced>>
    BY <1>7 DEF KeepCopy, Returns
  <2>2. new \in Call
    BY <1>7, <1>a, <1>b, IdleType DEF KeepCopy, At, Entered, Idle
  <2>3. storeState' \in StoreState /\ CopyOrdered'
    BY <1>7, <1>a, <1>b, <1>d DEF KeepCopy, CopyOrdered, At
  <2>4. CarriedOrdered(new) /\ EchoOrdered(new)
    BY <1>7, <1>a, <1>b, <1>d DEF KeepCopy, At, UpToDate, CopyOrdered, StoreState, Entered, Idle
  <2> HIDE DEF new
  <2> QED
    BY <2>1, <2>2, <2>3, <2>4, CallStep
<1>8. ASSUME NEW c \in Calls, StartRead(c)
      PROVE  Inv'
  <2> DEFINE new == [call[c] EXCEPT !.pc = "read"]
  <2>1. Update(c, new) /\ UNCHANGED <<file, replaced>>
    BY <1>8 DEF StartRead
  <2>2. new \in Call
    BY <1>8, <1>a, <1>b DEF StartRead, At
  <2>3. storeState' \in StoreState /\ CopyOrdered'
    BY <1>8, <1>a, <1>b, <1>d DEF StartRead, CopyOrdered, At
  <2>4. CarriedOrdered(new) /\ EchoOrdered(new)
    BY <1>8, <1>a, <1>b, <1>d DEF StartRead, At
  <2> HIDE DEF new
  <2> QED
    BY <2>1, <2>2, <2>3, <2>4, CallStep
<1>9. ASSUME NEW c \in Calls, Read(c)
      PROVE  Inv'
  <2> DEFINE new == [call[c] EXCEPT !.pc = "parse", !.content = file]
  <2>1. Update(c, new) /\ UNCHANGED <<file, replaced>>
    BY <1>9 DEF Read
  <2>2. new \in Call
    BY <1>9, <1>a, <1>b DEF Read, At
  <2>3. storeState' \in StoreState /\ CopyOrdered'
    BY <1>9, <1>a, <1>b, <1>d DEF Read, CopyOrdered, At
  <2>4. CarriedOrdered(new) /\ EchoOrdered(new)
    BY <1>9, <1>a, <1>b, <1>d DEF Read, At
  <2> HIDE DEF new
  <2> QED
    BY <2>1, <2>2, <2>3, <2>4, CallStep
<1>10. ASSUME NEW c \in Calls, Install(c)
      PROVE  Inv'
  <2> DEFINE new == [Entered(call[c].wrote) EXCEPT !.pc = "answered", !.answer = Loaded(call[c].info, call[c].content.version, call[c].age),
                                                  !.window = call[c].window]
  <2>1. Update(c, new) /\ UNCHANGED <<file, replaced>>
    BY <1>10 DEF Install, Returns
  <2>2. new \in Call
    <3>1. Loaded(call[c].info, call[c].content.version, call[c].age) \in StoreState
      BY <1>a, <1>b, CopyTypes
    <3> QED
      BY <1>a, <1>b, <3>1, IdleType DEF Entered, Idle
  <2>3. storeState' \in StoreState /\ CopyOrdered'
    BY <1>10, <1>a, <1>b, <1>d, CopyTypes DEF Install, CopyOrdered, At, Loaded, File, Versions
  <2>4. CarriedOrdered(new) /\ EchoOrdered(new)
    BY <1>10, <1>a, <1>b, <1>d DEF Install, At, Loaded, File, Versions, Entered, Idle
  <2> HIDE DEF new
  <2> QED
    BY <2>1, <2>2, <2>3, <2>4, CallStep
<1>11. ASSUME NEW c \in Calls, NoFile(c)
      PROVE  Inv'
  <2> DEFINE new == [Entered(call[c].wrote) EXCEPT !.pc = "answered", !.answer = NoStore(call[c].age),
                                                  !.window = call[c].window]
  <2>1. Update(c, new) /\ UNCHANGED <<file, replaced>>
    BY <1>11 DEF NoFile, Returns
  <2>2. new \in Call
    BY <1>11, <1>a, <1>b, CopyTypes, IdleType DEF NoFile, At, Entered, Idle
  <2>3. storeState' \in StoreState /\ CopyOrdered'
    BY <1>11, <1>a, <1>b, <1>d, CopyTypes DEF NoFile, CopyOrdered, At, NoStore
  <2>4. CarriedOrdered(new) /\ EchoOrdered(new)
    BY <1>11, <1>a, <1>b, <1>d DEF NoFile, At, NoStore, Entered, Idle
  <2> HIDE DEF new
  <2> QED
    BY <2>1, <2>2, <2>3, <2>4, CallStep
<1>12. ASSUME NEW c \in Calls, BadDocument(c)
      PROVE  Inv'
  <2> DEFINE new == [Entered(call[c].wrote) EXCEPT !.pc = "answered", !.answer = Unavailable(call[c].age),
                                                  !.window = call[c].window]
  <2>1. Update(c, new) /\ UNCHANGED <<file, replaced>>
    BY <1>12 DEF BadDocument, FailClosed, Returns
  <2>2. new \in Call
    BY <1>12, <1>a, <1>b, CopyTypes, IdleType DEF BadDocument, At, Entered, Idle
  <2>3. storeState' \in StoreState /\ CopyOrdered'
    BY <1>12, <1>a, <1>b, <1>d, CopyTypes DEF BadDocument, CopyOrdered, At, FailClosed, Unavailable
  <2>4. CarriedOrdered(new) /\ EchoOrdered(new)
    BY <1>12, <1>a, <1>b, <1>d DEF BadDocument, At, Unavailable, Entered, Idle
  <2> HIDE DEF new
  <2> QED
    BY <2>1, <2>2, <2>3, <2>4, CallStep
<1>13. ASSUME NEW c \in Calls, IoError(c)
      PROVE  Inv'
  <2> DEFINE new == [Entered(call[c].wrote) EXCEPT !.pc = "answered", !.answer = Unavailable(call[c].age),
                                                  !.window = call[c].window]
  <2>1. Update(c, new) /\ UNCHANGED <<file, replaced>>
    BY <1>13 DEF IoError, FailClosed, Returns
  <2>2. new \in Call
    BY <1>13, <1>a, <1>b, CopyTypes, IdleType DEF IoError, At, Entered, Idle
  <2>3. storeState' \in StoreState /\ CopyOrdered'
    BY <1>13, <1>a, <1>b, <1>d, CopyTypes DEF IoError, CopyOrdered, At, FailClosed, Unavailable
  <2>4. CarriedOrdered(new) /\ EchoOrdered(new)
    BY <1>13, <1>a, <1>b, <1>d DEF IoError, At, Unavailable, Entered, Idle
  <2> HIDE DEF new
  <2> QED
    BY <2>1, <2>2, <2>3, <2>4, CallStep
<1>14. ASSUME NEW c \in Calls, Finish(c)
      PROVE  Inv'
  <2> DEFINE new == Idle
  <2>1. Update(c, new) /\ UNCHANGED <<file, replaced>>
    BY <1>14 DEF Finish
  <2>2. new \in Call
    BY <1>14, <1>a, <1>b, IdleType DEF Finish, At
  <2>3. storeState' \in StoreState /\ CopyOrdered'
    BY <1>14, <1>a, <1>b, <1>d DEF Finish, CopyOrdered, At
  <2>4. CarriedOrdered(new) /\ EchoOrdered(new)
    BY <1>14, <1>a, <1>b, <1>d DEF Finish, At, Idle
  <2> HIDE DEF new
  <2> QED
    BY <2>1, <2>2, <2>3, <2>4, CallStep
<1>15. ASSUME NEW c \in Calls, Put(c)
      PROVE  Inv'
  <2> DEFINE new == [Idle EXCEPT !.pc = "put"]
  <2>1. Update(c, new) /\ UNCHANGED <<file, replaced>>
    BY <1>15 DEF Put
  <2>2. new \in Call
    BY <1>15, <1>a, <1>b, IdleType DEF Put, At, Idle
  <2>3. storeState' \in StoreState /\ CopyOrdered'
    BY <1>15, <1>a, <1>b, <1>d DEF Put, CopyOrdered, At
  <2>4. CarriedOrdered(new) /\ EchoOrdered(new)
    BY <1>15, <1>a, <1>b, <1>d DEF Put, At, Idle
  <2> HIDE DEF new
  <2> QED
    BY <2>1, <2>2, <2>3, <2>4, CallStep
<1>16. ASSUME NEW c \in Calls, PutFails(c)
      PROVE  Inv'
  <2> DEFINE new == Idle
  <2>1. Update(c, new) /\ UNCHANGED <<file, replaced>>
    BY <1>16 DEF PutFails
  <2>2. new \in Call
    BY <1>16, <1>a, <1>b, IdleType DEF PutFails, At
  <2>3. storeState' \in StoreState /\ CopyOrdered'
    BY <1>16, <1>a, <1>b, <1>d DEF PutFails, CopyOrdered, At
  <2>4. CarriedOrdered(new) /\ EchoOrdered(new)
    BY <1>16, <1>a, <1>b, <1>d DEF PutFails, At, Idle
  <2> HIDE DEF new
  <2> QED
    BY <2>1, <2>2, <2>3, <2>4, CallStep
<1>17. ASSUME NEW c \in Calls, PutReturns(c)
      PROVE  Inv'
  <2> DEFINE new == [Entered(call[c].wrote) EXCEPT !.pc = "stat"]
  <2>1. Update(c, new) /\ UNCHANGED <<file, replaced>>
    BY <1>17 DEF PutReturns
  <2>2. new \in Call
    BY <1>17, <1>a, <1>b, IdleType DEF PutReturns, At, Entered, Idle
  <2>3. storeState' \in StoreState /\ CopyOrdered'
    BY <1>17, <1>a, <1>b, <1>d, <1>c DEF PutReturns, CopyOrdered, At, StoreState
  <2>4. CarriedOrdered(new) /\ EchoOrdered(new)
    BY <1>17, <1>a, <1>b, <1>d DEF PutReturns, At, Entered, Idle
  <2> HIDE DEF new
  <2> QED
    BY <2>1, <2>2, <2>3, <2>4, CallStep
<1>18. ASSUME NEW c \in Calls, PutStored(c)
      PROVE  Inv'
  <2> DEFINE w == [call EXCEPT ![c].pc = "stored", ![c].wrote = file.version + 1]
  <2>1. Replace("whole", w) /\ UNCHANGED storeState
    BY <1>18 DEF PutStored
  <2>2. file.version + 1 \in 0 .. MaxVersion
    BY <1>a, <2>1, MaxVersionAssumption DEF Replace
  <2>3. w \in [Calls -> Call]
    BY <1>b, <2>2 DEF Inv, TypeOK
  <2>4. \A d \in Calls : \/ w[d] = call[d]
                         \/ w[d].pc = "stored" /\ w[d].wrote = file.version + 1
    BY <1>b DEF Inv, TypeOK
  <2> HIDE DEF w
  <2> QED
    BY <2>1, <2>3, <2>4, ReplaceStep DEF Kinds
<1>19. CASE UNCHANGED vars
  BY <1>19 DEF vars, Inv, TypeOK, CopyOrdered, CarriedSafe
<1> QED
  BY <1>1, <1>2, <1>3, <1>4, <1>5, <1>6, <1>7, <1>8, <1>9, <1>10, <1>11, <1>12, <1>13,
     <1>14, <1>15, <1>16, <1>17, <1>18, <1>19 DEF Next

-----------------------------------------------------------------------------
\* The inductive invariant holds in every state (currentStore, putStore).
THEOREM Invariance == Spec => []Inv
  BY InitInv, NextInv, PTL DEF Spec

\* Every variable keeps its type (currentStore, putStore).
THEOREM TypeCorrect == Spec => []TypeOK
  BY Invariance, PTL DEF Inv

\* A copy filed under the file's present mtime is the file's present document,
\* for any number of concurrent loads (currentStore).
THEOREM CopyIsCoherent == Spec => []Coherent
<1>1. Inv => Coherent
  BY MaxVersionAssumption
     DEF Inv, CopyOrdered, Coherent, TypeOK, StoreState, File, Versions
<1> QED
  BY <1>1, Invariance, PTL

\* A saved setting is answered from a store that has the change in it, for any
\* number of concurrent loads (settingsResponse after putStore).
THEOREM EchoIsCurrent == Spec => []EchoShowsTheChange
<1>1. Inv => EchoShowsTheChange
  BY DEF Inv, CarriedSafe, EchoOrdered, EchoShowsTheChange, At
<1> QED
  BY <1>1, Invariance, PTL

-----------------------------------------------------------------------------
(* How fresh the copy is.                                                  *)

\* The files a request may still be shown.
Seen == RecentFiles \cup UNION {call[c].window : c \in {d \in Calls : Looking(call[d])}}

\* A version is one document.
OneDocument ==
    /\ \A f \in Seen : f.version <= file.version
    /\ \A f, g \in Seen : f.version = g.version => f = g

\* A copy s is of a document that was whole, unless it is of none.
CopyAgrees(s) ==
    /\ s.ok /\ ~s.missing => \A f \in Seen : f.version = s.version => f.kind = "whole"
    /\ s.missing => s.mtime = 0

\* f was in the file at some moment of the last age ticks.
Since(age, f) == f = file \/ \E x \in replaced : x.f = f /\ x.ago <= age

\* A request r that has seen a version has seen all that came after it, and what
\* it read was in the file since it began.
LookKnows(r) ==
    /\ Looking(r) => file \in r.window
    /\ r.pc = "compare" =>
         /\ 1 <= r.info
         /\ \A v \in r.info .. file.version :
               \E f \in r.window : f.version = v /\ (r.age < Recheck => Since(r.age, f))
    /\ r.pc = "parse" =>
         r.content \in r.window /\ (r.age < Recheck => Since(r.age, r.content))

LooksKnow == \A c \in Calls : LookKnows(call[c])

\* The copy is as young as it says ...
Shown == storeState.age < Recheck =>
            \E f \in File : Since(storeState.age, f) /\ Shows(storeState, f)

\* ... or the request that made it say so is still looking.
CopyFresh ==
    storeState.ok => \/ Shown
                     \/ \E c \in Calls : Looking(call[c]) /\ call[c].age <= storeState.age

FreshInv == OneDocument /\ CopyAgrees(storeState) /\ LooksKnow /\ CopyFresh

-----------------------------------------------------------------------------
LEMMA InitFresh == Init => FreshInv
<1> SUFFICES ASSUME Init PROVE FreshInv
  OBVIOUS
<1>1. \A c \in Calls : ~Looking(call[c]) /\ call[c].pc = "idle"
  BY DEF Init, Idle, Looking
<1>2. Seen = {file}
  BY <1>1 DEF Init, Seen, RecentFiles
<1>3. file \in File /\ file.version \in Nat /\ file.kind \in Kinds
  BY MaxVersionAssumption DEF Init, File, Versions
<1>4. OneDocument
  BY <1>2, <1>3 DEF OneDocument
<1>5. storeState = Checked(file)
  BY DEF Init
<1>6. CopyAgrees(storeState)
  BY <1>2, <1>3, <1>5 DEF CopyAgrees, Checked, Loaded, NoStore, Unavailable, Kinds
<1>8. storeState.ok => Shown
  BY <1>3, <1>5
     DEF Shown, Since, Shows, Checked, Loaded, NoStore, Unavailable, Kinds
<1>7. LooksKnow
  BY <1>1 DEF LooksKnow, LookKnows
<1> QED
  BY <1>4, <1>6, <1>7, <1>8 DEF FreshInv, CopyFresh

LEMMA RestartFresh ==
    ASSUME Inv, FreshInv, Restart
    PROVE  FreshInv'
<1>1. \A c \in Calls : ~Looking(call'[c]) /\ call'[c].pc = "idle"
  BY DEF Restart, Idle, Looking
<1>2. Seen' = RecentFiles /\ RecentFiles \subseteq Seen
  BY <1>1 DEF Restart, Seen, RecentFiles
<1>3. file \in File /\ file.version \in Nat /\ file.kind \in Kinds /\ file \in Seen
  BY DEF Inv, TypeOK, File, Versions, Seen, RecentFiles
<1>4. OneDocument'
  BY <1>2 DEF FreshInv, OneDocument, Restart
<1>5. storeState' = Checked(file) /\ file' = file
  BY DEF Restart
<1>6. CopyAgrees(storeState)'
  <2>1. \A f \in Seen : f.version = file.version => f = file
    BY <1>3 DEF FreshInv, OneDocument
  <2> QED
    BY <1>2, <1>3, <1>5, <2>1 DEF CopyAgrees, Checked, Loaded, NoStore, Unavailable, Kinds
<1>7. storeState'.ok => Shown'
  BY <1>3, <1>5
     DEF Shown, Since, Shows, Checked, Loaded, NoStore, Unavailable, Kinds
<1>8. LooksKnow'
  BY <1>1 DEF LooksKnow, LookKnows, Looking
<1> QED
  BY <1>4, <1>6, <1>7, <1>8 DEF FreshInv, CopyFresh

\* A tick makes everything older alike.
LEMMA TickFresh ==
    ASSUME Inv, FreshInv, Tick
    PROVE  FreshInv'
<1>0. /\ file' = file /\ storeState' = [storeState EXCEPT !.age = Older(storeState.age)]
      /\ replaced' = {[f |-> x.f, ago |-> x.ago + 1] :
                        x \in {y \in replaced : y.ago + 1 < Recheck}}
  BY DEF Tick
<1>a. /\ file \in File /\ storeState \in StoreState /\ storeState.age \in 0 .. Recheck
      /\ \A x \in replaced : x.f \in File /\ x.ago \in 0 .. Recheck - 1
      /\ Recheck \in Nat
  BY RecheckAssumption DEF Inv, TypeOK, StoreState
<1>b. /\ storeState'.age = Older(storeState.age) /\ storeState'.ok = storeState.ok
      /\ storeState'.missing = storeState.missing /\ storeState'.version = storeState.version
  BY <1>0, <1>a DEF StoreState
<1>1. ASSUME NEW c \in Calls
      PROVE  /\ call'[c].pc = call[c].pc /\ call'[c].window = call[c].window
             /\ call'[c].info = call[c].info /\ call'[c].content = call[c].content
             /\ call[c].age \in 0 .. Recheck
             /\ Looking(call[c]) => call'[c].age = Older(call[c].age)
  <2>1. call[c] \in Call
    BY DEF Inv, TypeOK
  <2>2. CASE Looking(call[c])
    <3>1. call'[c] = [call[c] EXCEPT !.age = Older(call[c].age)]
      BY <2>2 DEF Tick
    <3> QED
      BY <2>1, <3>1 DEF Call
  <2>3. CASE ~Looking(call[c])
    <3>1. call'[c] = call[c]
      BY <2>3 DEF Tick
    <3> QED
      BY <2>1, <2>3, <3>1 DEF Call
  <2> QED
    BY <2>2, <2>3
<1>2. Seen' \subseteq Seen
  <2>1. RecentFiles' \subseteq RecentFiles
    BY <1>0 DEF RecentFiles
  <2> QED
    BY <1>1, <2>1 DEF Seen, Looking
<1>3. ASSUME NEW age \in 0 .. Recheck, NEW f, Older(age) < Recheck, Since(age, f)
      PROVE  Since(Older(age), f)' /\ age < Recheck
  <2>1. age < Recheck /\ Older(age) = age + 1 /\ age + 1 < Recheck
    BY <1>3, <1>a DEF Older
  <2>2. CASE f = file
    BY <1>0, <2>1, <2>2 DEF Since
  <2>3. CASE f # file
    <3>1. PICK x \in replaced : x.f = f /\ x.ago <= age
      BY <1>3, <2>3 DEF Since
    <3>2. x.ago + 1 < Recheck /\ x.ago + 1 <= age + 1
      BY <1>a, <2>1, <3>1
    <3>3. [f |-> x.f, ago |-> x.ago + 1] \in replaced'
      BY <1>0, <3>2
    <3> QED
      BY <2>1, <3>1, <3>2, <3>3 DEF Since
  <2> QED
    BY <2>2, <2>3
<1>4. OneDocument' /\ CopyAgrees(storeState)'
  BY <1>0, <1>2, <1>b DEF FreshInv, OneDocument, CopyAgrees
<1>5. ASSUME NEW c \in Calls PROVE LookKnows(call[c])'
  <2>1. LookKnows(call[c])
    BY DEF FreshInv, LooksKnow
  <2>2. ASSUME NEW f, Looking(call[c]), call[c].age < Recheck => Since(call[c].age, f)
        PROVE  call'[c].age < Recheck => Since(call[c].age, f)'
    <3>1. Older(call[c].age) < Recheck => call[c].age < Recheck
      BY <1>1, <1>a DEF Older
    <3> QED
      BY <1>1, <1>3, <2>2, <3>1
  <2> QED
    BY <1>0, <1>1, <2>1, <2>2 DEF LookKnows, Looking
<1>6. CopyFresh'
  <2> SUFFICES ASSUME storeState'.ok
               PROVE  Shown' \/ \E c \in Calls : Looking(call'[c]) /\ call'[c].age <= storeState'.age
    BY DEF CopyFresh
  <2>1. CASE Shown
    <3>1. Older(storeState.age) < Recheck => storeState.age < Recheck
      BY <1>a DEF Older
    <3>2. ASSUME storeState'.age < Recheck
          PROVE  \E f \in File : Since(storeState.age, f)' /\ Shows(storeState, f)'
      <4>1. PICK f \in File : Since(storeState.age, f) /\ Shows(storeState, f)
        BY <1>b, <2>1, <3>1, <3>2 DEF Shown
      <4>2. Since(storeState.age, f)'
        BY <1>a, <1>b, <1>3, <3>2, <4>1
      <4>3. Shows(storeState, f)'
        BY <1>b, <4>1 DEF Shows
      <4> QED
        BY <4>2, <4>3
    <3> QED
      BY <3>2 DEF Shown
  <2>2. CASE \E c \in Calls : Looking(call[c]) /\ call[c].age <= storeState.age
    <3>1. PICK c \in Calls : Looking(call[c]) /\ call[c].age <= storeState.age
      BY <2>2
    <3>2. Older(call[c].age) <= Older(storeState.age)
      BY <1>1, <1>a, <3>1 DEF Older
    <3> QED
      BY <1>1, <1>b, <3>1, <3>2 DEF Looking
  <2> QED
    BY <1>b, <2>1, <2>2 DEF FreshInv, CopyFresh
<1> QED
  BY <1>4, <1>5, <1>6 DEF FreshInv, LooksKnow

\* A new version: nothing of it was seen before.
LEMMA ReplaceFresh ==
    ASSUME Inv, FreshInv, NEW kind \in Kinds, NEW w,
           \A c \in Calls : \/ w[c] = call[c]
                            \/ ~Looking(w[c]) /\ ~Looking(call[c]),
           Replace(kind, w), UNCHANGED storeState
    PROVE  FreshInv'
<1>0. /\ file' = [version |-> file.version + 1, kind |-> kind]
      /\ replaced' = replaced \cup {[f |-> file, ago |-> 0]}
      /\ call' = [c \in Calls |-> IF Looking(w[c]) THEN [w[c] EXCEPT !.window = @ \cup {file'}]
                                  ELSE w[c]]
  BY DEF Replace
<1>a. /\ file \in File /\ file.version \in Nat /\ file'.version = file.version + 1
      /\ storeState \in StoreState /\ storeState.age \in Nat
      /\ storeState.version \in Nat
  BY <1>0, RecheckAssumption, MaxVersionAssumption
     DEF Inv, TypeOK, File, Versions, StoreState
<1>1. ASSUME NEW c \in Calls, Looking(call[c])
      PROVE  /\ call'[c].pc = call[c].pc /\ call'[c].window = call[c].window \cup {file'}
             /\ call'[c].info = call[c].info /\ call'[c].content = call[c].content
             /\ call'[c].age = call[c].age
             /\ Looking(call'[c])
  <2>1. call[c] \in Call
    BY DEF Inv, TypeOK
  <2>2. w[c] = call[c]
    BY <1>1
  <2>3. call'[c] = [call[c] EXCEPT !.window = @ \cup {file'}]
    BY <1>0, <1>1, <2>2
  <2> QED
    BY <1>1, <2>1, <2>3 DEF Call, Looking
<1>2. ASSUME NEW c \in Calls, ~Looking(call[c])
      PROVE  ~Looking(call'[c])
  BY <1>0, <1>2
<1>3. Seen' \subseteq Seen \cup {file'} /\ Seen \subseteq Seen'
  <2>1. RecentFiles' = RecentFiles \cup {file'} /\ RecentFiles \subseteq Seen
    <3>1. [f |-> file, ago |-> 0].f = file
      OBVIOUS
    <3>2. {x.f : x \in replaced'} = {x.f : x \in replaced} \cup {file}
      BY <1>0, <3>1
    <3> QED
      BY <3>2 DEF RecentFiles, Seen
  <2>2. ASSUME NEW c \in Calls, Looking(call'[c])
        PROVE  call'[c].window \subseteq Seen \cup {file'}
    BY <1>1, <1>2, <2>2 DEF Seen
  <2>3. ASSUME NEW c \in Calls, Looking(call[c])
        PROVE  Looking(call'[c]) /\ call[c].window \subseteq call'[c].window
    BY <1>1, <2>3
  <2> QED
    BY <2>1, <2>2, <2>3 DEF Seen
<1>4. Seen \subseteq File
  BY WindowType DEF Inv, TypeOK, Seen, Call
<1>5. OneDocument'
  <2>1. \A f \in Seen : f.version <= file.version /\ f.version \in Nat
    BY <1>4, MaxVersionAssumption DEF FreshInv, OneDocument, File, Versions
  <2>2. \A f \in Seen : f.version < file'.version
    BY <1>a, <2>1
  <2> QED
    BY <1>3, <1>a, <2>1, <2>2 DEF FreshInv, OneDocument
<1>6. CopyAgrees(storeState)'
  <2>1. storeState.ok /\ ~storeState.missing => storeState.version # file'.version
    BY <1>a DEF Inv, CopyOrdered
  <2> QED
    BY <1>3, <2>1 DEF FreshInv, CopyAgrees
<1>7. ASSUME NEW age \in Nat, NEW f, Since(age, f) PROVE Since(age, f)'
  <2>1. [f |-> file, ago |-> 0] \in replaced' /\ replaced \subseteq replaced'
    BY <1>0
  <2> QED
    BY <1>7, <2>1 DEF Since
<1>8. ASSUME NEW c \in Calls PROVE LookKnows(call[c])'
  <2>1. LookKnows(call[c]) /\ call[c] \in Call /\ CarriedOrdered(call[c])
    BY DEF FreshInv, LooksKnow, Inv, TypeOK, CarriedSafe
  <2>2. CASE ~Looking(call[c])
    BY <1>2, <2>2 DEF LookKnows, Looking
  <2>3. CASE Looking(call[c])
    <3>1. call[c].age \in Nat /\ call[c].info \in Nat
      BY <2>1, RecheckAssumption, MaxVersionAssumption DEF Call
    <3>2. file' \in call'[c].window
      BY <1>1, <2>3
    <3>3. CASE call[c].pc = "compare"
      <4> SUFFICES ASSUME NEW v \in call'[c].info .. file'.version
                   PROVE  \E f \in call'[c].window :
                            f.version = v /\ (call'[c].age < Recheck => Since(call[c].age, f)')
        <5>1. 1 <= call'[c].info /\ call'[c].pc = "compare"
          BY <1>1, <2>1, <2>3, <3>3 DEF LookKnows
        <5> QED
          BY <1>1, <2>3, <3>2, <5>1 DEF LookKnows
      <4>1. CASE v = file'.version
        BY <3>2, <4>1 DEF Since
      <4>2. CASE v # file'.version
        <5>1. v \in call[c].info .. file.version
          BY <1>1, <1>a, <2>3, <3>1, <4>2
        <5>2. PICK f \in call[c].window :
                f.version = v /\ (call[c].age < Recheck => Since(call[c].age, f))
          BY <2>1, <3>3, <5>1 DEF LookKnows
        <5> QED
          <6>1. f \in call'[c].window /\ call'[c].age = call[c].age
            BY <1>1, <2>3, <5>2
          <6>2. call'[c].age < Recheck => Since(call[c].age, f)'
            BY <1>7, <3>1, <5>2, <6>1
          <6> QED
            BY <5>2, <6>1, <6>2
      <4> QED
        BY <4>1, <4>2
    <3>4. CASE call[c].pc # "compare"
      BY <1>1, <1>7, <2>1, <2>3, <3>1, <3>2, <3>4 DEF LookKnows
    <3> QED
      BY <3>3, <3>4
  <2> QED
    BY <2>2, <2>3
<1>9. CopyFresh'
  <2>1. Shown => Shown'
    BY <1>7, <1>a DEF Shown, Shows
  <2> QED
    BY <1>1, <2>1 DEF FreshInv, CopyFresh
<1> QED
  BY <1>5, <1>6, <1>8, <1>9 DEF FreshInv, LooksKnow

\* A step of one request c, the file being left alone.
LEMMA LocalFresh ==
    ASSUME Inv, FreshInv, NEW c \in Calls, \A d \in Calls \ {c} : call'[d] = call[d],
           UNCHANGED <<file, replaced>>,
           Looking(call'[c]) => call'[c].window \subseteq Seen,
           LookKnows(call[c])', CopyAgrees(storeState'), CopyFresh'
    PROVE  FreshInv'
<1>1. Seen' \subseteq Seen
  <2>1. RecentFiles' = RecentFiles
    BY DEF RecentFiles
  <2>2. ASSUME NEW d \in Calls, Looking(call'[d])
        PROVE  call'[d].window \subseteq Seen
    <3>1. CASE d = c
      BY <2>2, <3>1
    <3>2. CASE d # c
      <4>1. call'[d] = call[d]
        BY <3>2
      <4> QED
        BY <2>2, <4>1 DEF Seen
    <3> QED
      BY <3>1, <3>2
  <2> QED
    BY <2>1, <2>2 DEF Seen
<1>2. OneDocument' /\ CopyAgrees(storeState)'
  BY <1>1 DEF FreshInv, OneDocument, CopyAgrees
<1>3. ASSUME NEW d \in Calls PROVE LookKnows(call[d])'
  <2>1. CASE d = c
    BY <2>1
  <2>2. CASE d # c
    <3>1. call'[d] = call[d]
      BY <2>2
    <3> QED
      BY <3>1 DEF FreshInv, LooksKnow, LookKnows, Since
  <2> QED
    BY <2>1, <2>2
<1> QED
  BY <1>2, <1>3 DEF FreshInv, LooksKnow

\* A step that leaves the copy and the time alone.
LEMMA QuietFresh ==
    ASSUME Inv, FreshInv, NEW c \in Calls, \A d \in Calls \ {c} : call'[d] = call[d],
           UNCHANGED <<file, storeState, replaced>>,
           Looking(call[c]) => Looking(call'[c]) /\ call'[c].age = call[c].age
    PROVE  CopyFresh' /\ CopyAgrees(storeState')
<1>1. Shown => Shown'
  BY DEF Shown, Since, Shows
<1>2. ASSUME NEW d \in Calls, Looking(call[d]), call[d].age <= storeState.age
      PROVE  Looking(call'[d]) /\ call'[d].age <= storeState'.age
  BY <1>2
<1> QED
  BY <1>1, <1>2 DEF FreshInv, CopyFresh, CopyAgrees

LEMMA SinceLonger ==
    ASSUME Inv, NEW age \in Nat, NEW more \in Nat, age <= more, NEW f, Since(age, f)
    PROVE  Since(more, f)
<1>1. \A x \in replaced : x.ago \in Nat
  BY RecheckAssumption DEF Inv, TypeOK
<1> QED
  BY <1>1 DEF Since

\* The copy's document was in the file since the request r began to look.
Confirms(r) ==
    \E f \in r.window : Shows(storeState, f) /\ (r.age < Recheck => Since(r.age, f))

\* So it is if the check keeps it.
LEMMA KeptIsShown ==
    ASSUME Inv, FreshInv, NEW c \in Calls, call[c].pc = "compare", UpToDate(c)
    PROVE  Confirms(call[c])
<1>1. call[c] \in Call /\ LookKnows(call[c]) /\ CarriedOrdered(call[c]) /\ Looking(call[c])
  BY DEF Inv, TypeOK, CarriedSafe, FreshInv, LooksKnow, Looking
<1>2. /\ storeState.ok /\ storeState.mtime = call[c].info /\ 1 <= call[c].info
      /\ call[c].info \in Nat
  BY <1>1, MaxVersionAssumption DEF UpToDate, LookKnows, Call
<1>3. ~storeState.missing
  BY <1>2 DEF FreshInv, CopyAgrees
<1>4. storeState.version \in call[c].info .. file.version
  BY <1>2, <1>3, MaxVersionAssumption DEF Inv, TypeOK, CopyOrdered, StoreState, File, Versions
<1>5. PICK f \in call[c].window :
        f.version = storeState.version /\ (call[c].age < Recheck => Since(call[c].age, f))
  BY <1>1, <1>4 DEF LookKnows
<1>6. f \in Seen
  BY <1>1, <1>5 DEF Seen
<1>7. Shows(storeState, f)
  BY <1>2, <1>3, <1>5, <1>6 DEF FreshInv, CopyAgrees, Shows
<1> QED
  BY <1>5, <1>7 DEF Confirms

LEMMA NextFresh == Inv /\ FreshInv /\ [Next]_vars => FreshInv'
<1> SUFFICES ASSUME Inv, FreshInv, [Next]_vars PROVE FreshInv'
  OBVIOUS
<1>a. /\ file \in File /\ file.version \in Nat /\ file.version \in 1 .. MaxVersion
      /\ file.kind \in Kinds
      /\ storeState \in StoreState /\ storeState.age \in Nat
      /\ RecentFiles \subseteq Seen /\ file \in RecentFiles
      /\ CopyOrdered
  BY RecheckAssumption, MaxVersionAssumption
     DEF Inv, TypeOK, File, Versions, StoreState, Seen, RecentFiles
<1>b. ASSUME NEW c \in Calls
      PROVE  /\ call[c] \in Call /\ call[c].age \in Nat /\ call[c].info \in Nat
             /\ LookKnows(call[c]) /\ CarriedOrdered(call[c])
             /\ Looking(call[c]) => call[c].window \subseteq Seen
  BY RecheckAssumption, MaxVersionAssumption
     DEF Inv, TypeOK, CarriedSafe, FreshInv, LooksKnow, Call, Seen
<1>c. ASSUME NEW c \in Calls, NEW new, Update(c, new)
      PROVE  call'[c] = new /\ \A d \in Calls \ {c} : call'[d] = call[d]
  BY <1>c DEF Inv, TypeOK, Update
<1>e. ASSUME NEW w
      PROVE  /\ Entered(w).pc = "idle" /\ Entered(w).age = 0 /\ Entered(w).window = RecentFiles
             /\ \A pc : /\ [Entered(w) EXCEPT !.pc = pc].pc = pc
                        /\ [Entered(w) EXCEPT !.pc = pc].age = 0
                        /\ [Entered(w) EXCEPT !.pc = pc].window = RecentFiles
  BY DEF Entered, Idle
<1>r. ASSUME NEW c \in Calls, NEW s, Returns(c, s)
      PROVE  /\ call'[c].pc = "answered" /\ ~Looking(call'[c])
             /\ \A d \in Calls \ {c} : call'[d] = call[d]
  <2> DEFINE new == [Entered(call[c].wrote) EXCEPT !.pc = "answered", !.answer = s,
                                                  !.window = call[c].window]
  <2>1. Update(c, new)
    BY <1>r DEF Returns
  <2>2. new.pc = "answered"
    BY DEF Entered, Idle
  <2> HIDE DEF new
  <2> QED
    BY <1>c, <2>1, <2>2 DEF Looking
<1>q. ASSUME NEW r, ~Looking(r) PROVE LookKnows(r)'
  BY <1>q DEF LookKnows, Looking
<1>1. CASE Tick
  BY <1>1, TickFresh
<1>2. CASE FileChanges
  <2>1. PICK kind \in Kinds : Replace(kind, call)
    BY <1>2 DEF FileChanges
  <2> QED
    BY <1>2, <2>1, ReplaceFresh DEF FileChanges
<1>3. CASE Restart
  BY <1>3, RestartFresh
<1>4. ASSUME NEW c \in Calls, UseCopy(c) \/ Finish(c) \/ Put(c) \/ PutFails(c)
      PROVE  FreshInv'
  <2>1. /\ UNCHANGED <<file, storeState, replaced>>
        /\ call[c].pc \in {"idle", "answered", "put", "stored"}
    BY <1>4 DEF UseCopy, Finish, Put, PutFails, At
  <2>5. \E new : Update(c, new) /\ new.pc \in {"idle", "answered", "put"}
    <3>1. CASE UseCopy(c)
      <4>1. [Entered(0) EXCEPT !.pc = "answered", !.answer = storeState].pc = "answered"
        BY DEF Entered, Idle
      <4> QED
        BY <3>1, <4>1 DEF UseCopy
    <3>2. CASE Put(c)
      <4>1. [Idle EXCEPT !.pc = "put"].pc = "put"
        BY DEF Idle
      <4> QED
        BY <3>2, <4>1 DEF Put
    <3>3. CASE Finish(c) \/ PutFails(c)
      BY <3>3 DEF Finish, PutFails, Idle
    <3> QED
      BY <1>4, <3>1, <3>2, <3>3
  <2>2. /\ ~Looking(call[c]) /\ ~Looking(call'[c])
        /\ \A d \in Calls \ {c} : call'[d] = call[d]
    <3>1. PICK new : Update(c, new) /\ new.pc \in {"idle", "answered", "put"}
      BY <2>5
    <3> QED
      BY <1>c, <2>1, <3>1 DEF Looking
  <2>3. CopyFresh' /\ CopyAgrees(storeState')
    BY <2>1, <2>2, QuietFresh
  <2>4. LookKnows(call[c])'
    BY <2>2 DEF LookKnows, Looking
  <2> QED
    BY <2>1, <2>2, <2>3, <2>4, LocalFresh
<1>5. ASSUME NEW c \in Calls, StartCheck(c) \/ PutReturns(c)
      PROVE  FreshInv'
  <2>1. /\ UNCHANGED <<file, replaced>>
        /\ storeState' = [storeState EXCEPT !.age = 0]
        /\ \E w : Update(c, [Entered(w) EXCEPT !.pc = "stat"])
    BY <1>5 DEF StartCheck, PutReturns
  <2>2. /\ call'[c].pc = "stat" /\ call'[c].age = 0 /\ call'[c].window = RecentFiles
        /\ \A d \in Calls \ {c} : call'[d] = call[d]
    <3>1. PICK w : Update(c, [Entered(w) EXCEPT !.pc = "stat"])
      BY <2>1
    <3>2. /\ call'[c] = [Entered(w) EXCEPT !.pc = "stat"]
          /\ \A d \in Calls \ {c} : call'[d] = call[d]
      BY <1>c, <3>1
    <3> QED
      BY <1>e, <3>2
  <2>3. /\ storeState'.age = 0 /\ storeState'.ok = storeState.ok
        /\ storeState'.missing = storeState.missing /\ storeState'.mtime = storeState.mtime
        /\ storeState'.version = storeState.version
    BY <1>a, <2>1 DEF StoreState
  <2>4. Looking(call'[c]) /\ LookKnows(call[c])'
    <3>1. Looking(call'[c])
      BY <2>2 DEF Looking
    <3>2. file' \in call'[c].window
      BY <1>a, <2>1, <2>2
    <3> QED
      BY <2>2, <3>1, <3>2 DEF LookKnows, Looking
  <2>5. CopyAgrees(storeState')
    BY <2>3 DEF FreshInv, CopyAgrees
  <2>6. CopyFresh'
    BY <2>2, <2>3, <2>4 DEF CopyFresh
  <2> QED
    BY <1>a, <2>1, <2>2, <2>4, <2>5, <2>6, LocalFresh
<1>6. ASSUME NEW c \in Calls, Stat(c) \/ StartRead(c) \/ Read(c)
      PROVE  FreshInv'
  <2>1. /\ UNCHANGED <<file, storeState, replaced>> /\ Looking(call[c])
        /\ \/ call'[c] = [call[c] EXCEPT !.pc = "compare", !.info = file.version]
           \/ call'[c] = [call[c] EXCEPT !.pc = "read"]
           \/ call'[c] = [call[c] EXCEPT !.pc = "parse", !.content = file]
        /\ \A d \in Calls \ {c} : call'[d] = call[d]
    BY <1>6, <1>c DEF Stat, StartRead, Read, At, Looking
  <2>2. /\ Looking(call'[c]) /\ call'[c].age = call[c].age /\ call'[c].window = call[c].window
        /\ call'[c].pc = "compare" => call'[c].info = file.version
        /\ call'[c].pc = "parse" => call'[c].content = file
    BY <1>b, <2>1 DEF Looking, Call
  <2>3. file \in call'[c].window /\ call'[c].window \subseteq Seen
    BY <1>b, <2>1, <2>2 DEF LookKnows
  <2>4. LookKnows(call[c])'
    <3>1. \A age : Since(age, file)'
      BY <2>1 DEF Since
    <3>2. \A v \in file.version .. file.version : v = file.version
      BY <1>a
    <3> QED
      BY <1>a, <2>1, <2>2, <2>3, <3>1, <3>2 DEF LookKnows
  <2>5. CopyFresh' /\ CopyAgrees(storeState')
    BY <2>1, <2>2, QuietFresh
  <2> QED
    BY <2>1, <2>3, <2>4, <2>5, LocalFresh
<1>7. ASSUME NEW c \in Calls, KeepCopy(c)
      PROVE  FreshInv'
  <2>1. /\ UNCHANGED <<file, storeState, replaced>> /\ call[c].pc = "compare"
        /\ ~Looking(call'[c]) /\ \A d \in Calls \ {c} : call'[d] = call[d]
    BY <1>7, <1>r DEF KeepCopy, At
  <2>2. CopyAgrees(storeState')
    BY <2>1 DEF FreshInv, CopyAgrees
  <2>3. PICK f \in File : /\ Shows(storeState, f)
                          /\ call[c].age < Recheck => Since(call[c].age, f)
    <3>1. \E f \in call[c].window : /\ Shows(storeState, f)
                                    /\ call[c].age < Recheck => Since(call[c].age, f)
      <4>1. UpToDate(c)
        BY <1>7 DEF KeepCopy
      <4> QED
        BY <2>1, <4>1, KeptIsShown DEF Confirms
    <3>2. call[c].window \subseteq File
      BY <1>b DEF Call
    <3> QED
      BY <3>1, <3>2
  <2>4. CopyFresh'
    <3>1. CASE ~storeState.ok \/ Shown
      BY <2>1, <3>1 DEF CopyFresh, Shown, Since, Shows
    <3>2. CASE \E d \in Calls : Looking(call[d]) /\ call[d].age <= storeState.age
      <4>1. PICK d \in Calls : Looking(call[d]) /\ call[d].age <= storeState.age
        BY <3>2
      <4>2. CASE d # c
        BY <2>1, <4>1, <4>2 DEF CopyFresh
      <4>3. CASE d = c
        <5>1. storeState.age < Recheck => Since(storeState.age, f)
          BY <1>a, <1>b, <2>3, <4>1, <4>3, SinceLonger, RecheckAssumption
        <5>2. Shown'
          BY <2>1, <2>3, <5>1 DEF Shown, Since, Shows
        <5> QED
          BY <5>2 DEF CopyFresh
      <4> QED
        BY <4>2, <4>3
    <3> QED
      BY <3>1, <3>2 DEF FreshInv, CopyFresh
  <2> QED
    BY <1>q, <2>1, <2>2, <2>4, LocalFresh
<1>8. ASSUME NEW c \in Calls, Install(c)
      PROVE  FreshInv'
  <2> DEFINE content == call[c].content
  <2>1. /\ UNCHANGED <<file, replaced>> /\ call[c].pc = "parse" /\ content.kind = "whole"
        /\ storeState' = Loaded(call[c].info, content.version, call[c].age)
        /\ ~Looking(call'[c]) /\ \A d \in Calls \ {c} : call'[d] = call[d]
    BY <1>8, <1>r DEF Install, At
  <2>2. /\ content \in Seen /\ content \in File
        /\ call[c].age < Recheck => Since(call[c].age, content)
    BY <1>b, <2>1 DEF LookKnows, Looking, Call
  <2>3. /\ ~storeState'.missing /\ storeState'.version = content.version
        /\ storeState'.age = call[c].age
    BY <2>1 DEF Loaded
  <2>4. CopyAgrees(storeState')
    <3>1. \A f \in Seen : f.version = content.version => f = content
      BY <2>2 DEF FreshInv, OneDocument
    <3> QED
      BY <2>1, <2>3, <3>1 DEF CopyAgrees
  <2>5. Shown'
    BY <2>1, <2>2, <2>3 DEF Shown, Since, Shows
  <2> QED
    BY <1>q, <2>1, <2>4, <2>5, LocalFresh DEF CopyFresh
<1>9. ASSUME NEW c \in Calls, NoFile(c)
      PROVE  FreshInv'
  <2>1. /\ UNCHANGED <<file, replaced>> /\ file.kind = "missing"
        /\ storeState' = NoStore(call[c].age)
        /\ ~Looking(call'[c]) /\ \A d \in Calls \ {c} : call'[d] = call[d]
    BY <1>9, <1>r DEF NoFile
  <2>2. CopyAgrees(storeState')
    BY <2>1 DEF CopyAgrees, NoStore
  <2>3. Shown'
    BY <1>a, <2>1 DEF Shown, Since, Shows, NoStore
  <2> QED
    BY <1>q, <2>1, <2>2, <2>3, LocalFresh DEF CopyFresh
<1>10. ASSUME NEW c \in Calls, BadDocument(c) \/ IoError(c)
       PROVE  FreshInv'
  <2>1. /\ UNCHANGED <<file, replaced>> /\ storeState' = Unavailable(call[c].age)
        /\ ~Looking(call'[c]) /\ \A d \in Calls \ {c} : call'[d] = call[d]
    BY <1>10, <1>r DEF BadDocument, IoError, FailClosed
  <2>2. CopyAgrees(storeState') /\ CopyFresh'
    BY <2>1 DEF CopyAgrees, CopyFresh, Unavailable
  <2> QED
    BY <1>q, <2>1, <2>2, LocalFresh
<1>11. ASSUME NEW c \in Calls, PutStored(c)
       PROVE  FreshInv'
  <2> DEFINE w == [call EXCEPT ![c].pc = "stored", ![c].wrote = file.version + 1]
  <2>1. Replace("whole", w) /\ UNCHANGED storeState /\ call[c].pc = "put"
    BY <1>11 DEF PutStored, At
  <2>2. \A d \in Calls : w[d] = call[d] \/ (~Looking(w[d]) /\ ~Looking(call[d]))
    <3>a. DOMAIN call = Calls /\ call[c] \in Call
      BY DEF Inv, TypeOK
    <3>b. w[c] = [call[c] EXCEPT !.pc = "stored", !.wrote = file.version + 1]
      BY <3>a
    <3>1. w[c].pc = "stored" /\ \A d \in Calls \ {c} : w[d] = call[d]
      BY <3>a, <3>b DEF Call
    <3> QED
      BY <2>1, <3>1 DEF Looking
  <2> HIDE DEF w
  <2> QED
    BY <2>1, <2>2, ReplaceFresh DEF Kinds
<1>12. CASE UNCHANGED vars
  BY <1>12
     DEF vars, FreshInv, OneDocument, CopyAgrees, LooksKnow, LookKnows, CopyFresh, Shown, Since,
         Shows, Seen, RecentFiles
<1> QED
  BY <1>1, <1>2, <1>3, <1>4, <1>5, <1>6, <1>7, <1>8, <1>9, <1>10, <1>11, <1>12 DEF Next

THEOREM FreshInvariance == Spec => [](Inv /\ FreshInv)
  BY InitInv, InitFresh, NextInv, NextFresh, PTL DEF Spec

\* A request answered while no other is looking is given a document that was in
\* the file at some moment since one recheck window before it asked, for any
\* number of requests (currentStore).
THEOREM AloneIsFresh == Spec => FreshWhenAlone
<1> DEFINE A ==
      \A c \in Calls :
         /\ ~At(c, "answered") /\ call'[c].pc = "answered" /\ call'[c].answer.ok
         /\ \A d \in Calls \ {c} : ~Looking(call[d])
         => \E f \in call'[c].window : Shows(call'[c].answer, f)
<1>1. Inv /\ FreshInv /\ [Next]_vars => [A]_vars
  <2> SUFFICES ASSUME Inv, FreshInv, Next, NEW c \in Calls,
                      call[c].pc # "answered", call'[c].pc = "answered", call'[c].answer.ok,
                      \A d \in Calls \ {c} : ~Looking(call[d])
               PROVE  \E f \in call'[c].window : Shows(call'[c].answer, f)
    BY DEF At
  <2>a. call[c] \in Call /\ DOMAIN call = Calls /\ RecentFiles \subseteq File
    BY WindowType DEF Inv, TypeOK
  <2>b. ASSUME NEW d \in Calls, NEW new, Update(d, new)
        PROVE  d = c /\ call'[c] = new
    <3>1. d # c => call'[c] = call[c]
      BY <2>a, <2>b DEF Update
    <3> QED
      BY <2>a, <2>b, <3>1 DEF Update
  <2>c. ASSUME NEW d \in Calls, NEW t, Returns(d, t)
        PROVE  d = c /\ call'[c].answer = t /\ call'[c].window = call[c].window
    <3> DEFINE new == [Entered(call[d].wrote) EXCEPT !.pc = "answered", !.answer = t,
                                                     !.window = call[d].window]
    <3>1. Update(d, new)
      BY <2>c DEF Returns
    <3>2. new.answer = t /\ new.window = call[d].window
      BY DEF Entered, Idle
    <3> HIDE DEF new
    <3> QED
      BY <2>b, <3>1, <3>2
  <2>1. CASE \E d \in Calls : UseCopy(d)
    <3>1. PICK d \in Calls : UseCopy(d)
      BY <2>1
    <3> DEFINE new == [Entered(0) EXCEPT !.pc = "answered", !.answer = storeState]
    <3>2. Update(d, new) /\ At(d, "idle") /\ storeState.age < Recheck
      BY <3>1 DEF UseCopy
    <3>3. new.answer = storeState /\ new.window = RecentFiles
      BY DEF Entered, Idle
    <3> HIDE DEF new
    <3>4. d = c /\ call'[c].answer = storeState /\ call'[c].window = RecentFiles
      BY <2>b, <3>2, <3>3
    <3>5. \A e \in Calls : ~Looking(call[e])
      BY <3>2, <3>4 DEF At, Looking
    <3>6. PICK f \in File : Since(storeState.age, f) /\ Shows(storeState, f)
      BY <3>2, <3>4, <3>5 DEF FreshInv, CopyFresh, Shown
    <3>7. f \in RecentFiles
      BY <3>6 DEF Since, RecentFiles
    <3> QED
      BY <3>4, <3>6, <3>7
  <2>2. CASE \E d \in Calls : KeepCopy(d)
    <3>1. PICK d \in Calls : KeepCopy(d)
      BY <2>2
    <3>2. Returns(d, storeState) /\ call[d].pc = "compare" /\ UpToDate(d)
      BY <3>1 DEF KeepCopy, At
    <3>3. d = c /\ call'[c].answer = storeState /\ call'[c].window = call[c].window
      BY <2>c, <3>2
    <3>4. Confirms(call[d])
      BY <3>2, KeptIsShown
    <3> QED
      BY <3>3, <3>4 DEF Confirms
  <2>3. CASE \E d \in Calls : Install(d)
    <3>1. PICK d \in Calls : Install(d)
      BY <2>3
    <3>2. /\ call[d].pc = "parse" /\ call[d].content.kind = "whole"
          /\ storeState' = Loaded(call[d].info, call[d].content.version, call[d].age)
          /\ Returns(d, storeState')
      BY <3>1 DEF Install, At
    <3>3. d = c /\ call'[c].answer = storeState' /\ call'[c].window = call[c].window
      BY <2>c, <3>2
    <3>4. call[c].content \in call[c].window
      BY <3>2, <3>3 DEF FreshInv, LooksKnow, LookKnows
    <3>5. Shows(storeState', call[c].content)
      BY <3>2, <3>3 DEF Shows, Loaded
    <3> QED
      BY <3>3, <3>4, <3>5
  <2>4. CASE \E d \in Calls : NoFile(d)
    <3>1. PICK d \in Calls : NoFile(d)
      BY <2>4
    <3>2. /\ Looking(call[d]) /\ file.kind = "missing"
          /\ storeState' = NoStore(call[d].age) /\ Returns(d, storeState')
      BY <3>1 DEF NoFile, At, Looking
    <3>3. d = c /\ call'[c].answer = storeState' /\ call'[c].window = call[c].window
      BY <2>c, <3>2
    <3>4. file \in call[c].window
      BY <3>2, <3>3 DEF FreshInv, LooksKnow, LookKnows
    <3>5. Shows(storeState', file)
      BY <3>2 DEF Shows, NoStore
    <3> QED
      BY <3>3, <3>4, <3>5
  <2>5. CASE \E d \in Calls : BadDocument(d) \/ IoError(d)
    <3>1. PICK d \in Calls : FailClosed(d)
      BY <2>5 DEF BadDocument, IoError
    <3>2. storeState' = Unavailable(call[d].age) /\ Returns(d, storeState')
      BY <3>1 DEF FailClosed
    <3>3. call'[c].answer = storeState'
      BY <2>c, <3>2
    <3> QED
      BY <3>2, <3>3 DEF Unavailable
  <2>6. CASE \E d \in Calls : \/ StartCheck(d) \/ Stat(d) \/ StartRead(d) \/ Read(d)
                             \/ Finish(d) \/ Put(d) \/ PutFails(d) \/ PutReturns(d)
    <3>1. PICK d \in Calls : \/ StartCheck(d) \/ Stat(d) \/ StartRead(d) \/ Read(d)
                            \/ Finish(d) \/ Put(d) \/ PutFails(d) \/ PutReturns(d)
      BY <2>6
    <3>2. call[d] \in Call
      BY DEF Inv, TypeOK
    <3>3. \E new : Update(d, new) /\ new.pc # "answered"
      <4>1. CASE StartCheck(d) \/ PutReturns(d)
        <5>1. \A w : [Entered(w) EXCEPT !.pc = "stat"].pc = "stat"
          BY DEF Entered, Idle
        <5> QED
          BY <4>1, <5>1 DEF StartCheck, PutReturns
      <4>2. CASE Stat(d) \/ StartRead(d) \/ Read(d)
        <5>1. /\ [call[d] EXCEPT !.pc = "compare", !.info = file.version].pc = "compare"
              /\ [call[d] EXCEPT !.pc = "read"].pc = "read"
              /\ [call[d] EXCEPT !.pc = "parse", !.content = file].pc = "parse"
          BY <3>2 DEF Call
        <5> QED
          BY <4>2, <5>1 DEF Stat, StartRead, Read
      <4>3. CASE Finish(d) \/ PutFails(d)
        BY <4>3 DEF Finish, PutFails, Idle
      <4>4. CASE Put(d)
        <5>1. [Idle EXCEPT !.pc = "put"].pc = "put"
          BY DEF Idle
        <5> QED
          BY <4>4, <5>1 DEF Put
      <4> QED
        BY <3>1, <4>1, <4>2, <4>3, <4>4
    <3> QED
      BY <2>b, <3>3
  <2>7. CASE Tick \/ FileChanges \/ Restart \/ \E d \in Calls : PutStored(d)
    <3>1. CASE Tick
      BY <2>a, <3>1 DEF Tick, Call
    <3>2. CASE Restart
      BY <3>2 DEF Restart, Idle
    <3>3. CASE FileChanges
      BY <2>a, <3>3 DEF FileChanges, Replace, Call
    <3>4. ASSUME NEW d \in Calls, PutStored(d) PROVE FALSE
      <4> DEFINE w == [call EXCEPT ![d].pc = "stored", ![d].wrote = file.version + 1]
      <4>1. call' = [e \in Calls |-> IF Looking(w[e]) THEN [w[e] EXCEPT !.window = @ \cup {file'}]
                                     ELSE w[e]]
        BY <3>4 DEF PutStored, Replace
      <4>2. call[d] \in Call
        BY DEF Inv, TypeOK
      <4>3. w[d] = [call[d] EXCEPT !.pc = "stored", !.wrote = file.version + 1]
        BY <2>a
      <4>4. d # c => w[c] = call[c]
        BY <2>a
      <4>5. w[c].pc # "answered" /\ (Looking(w[c]) => w[c] \in Call)
        BY <2>a, <4>2, <4>3, <4>4 DEF Call, Looking
      <4> HIDE DEF w
      <4>6. Looking(w[c]) => [w[c] EXCEPT !.window = @ \cup {file'}].pc = w[c].pc
        BY <4>5 DEF Call
      <4> QED
        BY <4>1, <4>5, <4>6
    <3> QED
      BY <2>7, <3>1, <3>2, <3>3, <3>4
  <2> QED
    BY <2>1, <2>2, <2>3, <2>4, <2>5, <2>6, <2>7 DEF Next
<1> QED
  BY <1>1, FreshInvariance, PTL DEF Spec, FreshWhenAlone

=============================================================================
