---------------------------- MODULE VpnGuard_proofs ----------------------------
(***************************************************************************)
(* VpnGuard for any number of processes, times and troubles.  All runs     *)
(* replace the same file, but a repair is in every copy that is around     *)
(* while it lasts, so that only one lasts at a time and none is forgotten; *)
(* and a strike that is in the file although the last look was good is due *)
(* to a repair or a restart too recent for the next run to repair by it.   *)
(***************************************************************************)
EXTENDS VpnGuard, FiniteSetTheorems, TLAPS

Fresh(r) == run[r].pc \in {"running", "probe", "decide", "strike", "restart"}

\* Only the run of the tick can be before its decision.
OneFresh ==
    \A r \in Runs : Fresh(r) =>
        ~due /\ run[r].age = 0 /\ \A d \in Runs : Fresh(d) => d = r

\* Every repair of the day is in the file, and in every copy of it.
Recorded ==
    /\ repaired \subseteq file.repairs
    /\ \A r \in Runs : ~At(r, "idle") => repaired \subseteq run[r].state.repairs

\* A run that repairs began when it did.
Marked == \A r \in Runs : Repairing(r) => run[r].age \in repaired

Spaced ==
    \A r \in Runs : At(r, "restart") =>
        /\ 0 \in file.repairs /\ 0 \in run[r].state.repairs
        /\ \A age \in repaired : age >= Cooldown
        /\ Cardinality(repaired) < MaxRepairs

Recent(n) == \E age \in repaired : age <= n

\* For a run not to repair by what it finds it is enough that this was so in the
\* tick before, or is in this one.
Unsure == tunnel.age = 0 \/ Recent(Longest)
UnsureYet == tunnel.age <= 1 \/ Recent(Longest + 1)

\* A strike in the file, after the look of the tick and before the next, is one
\* for the last look.
StrikeSeen ==
    file.strikes > 0 =>
        /\ due => seen.last \/ UnsureYet
        /\ (~due /\ \A r \in Runs : run[r].pc \notin {"running", "probe", "decide", "strike"})
             => seen.last \/ Unsure

BeforeLook ==
    \A r \in Runs :
        run[r].pc \in {"running", "probe"} /\ run[r].state.strikes > 0 => seen.last \/ UnsureYet

AfterLook ==
    \A r \in Runs :
        At(r, "decide") /\ run[r].problems # {} =>
            /\ seen.last \/ Recent(Longest)
            /\ run[r].state.strikes > 0 => (seen.last /\ seen.before) \/ UnsureYet

\* What is left of the doubts once gluetun's age has been asked for.
AfterAge ==
    \A r \in Runs :
        At(r, "strike") =>
            /\ run[r].problems # {}
            /\ seen.last \/ Recent(Longest)
            /\ run[r].state.strikes > 0 =>
                 (seen.last /\ seen.before) \/ run[r].blind \/ Recent(Longest + 1)

Inv ==
    /\ TypeOK
    /\ OneFresh /\ Recorded /\ Marked /\ Spaced
    /\ StrikeSeen /\ BeforeLook /\ AfterLook /\ AfterAge

Ages == 0 .. Day - 1
Looks == [last: BOOLEAN, before: BOOLEAN]
RepairPCs == {"wait", "qbittorrent", "peers", "push", "again", "reprobe", "report"}

-----------------------------------------------------------------------------
(* Types.                                                                  *)

LEMMA Times ==
    /\ Settle \in Nat /\ Cooldown \in Nat /\ Day \in Nat /\ MaxRepairs \in Nat
    /\ Longest \in Nat /\ Troubles \in Nat
    /\ Settle >= 1 /\ Longest + 1 < Cooldown /\ Cooldown <= Day
BY TimesAssumption

LEMMA NoStateType == NoState \in State /\ NoState.strikes = 0
BY Times DEF NoState, State

LEMMA IdleType == Idle \in Run /\ Idle.pc = "idle"
<1>1. Idle \in Run
  BY NoStateType, Times DEF Idle, Run, PCs
<1> QED BY <1>1 DEF Idle

LEMMA AgedType ==
    ASSUME NEW ages \in SUBSET Ages
    PROVE  /\ Aged(ages) \in SUBSET Ages
           /\ \A age \in ages : age < Day - 1 => age + 1 \in Aged(ages)
           /\ \A age \in Aged(ages) : age - 1 \in ages
<1>1. Aged(ages) \in SUBSET Ages
  BY Times DEF Aged, Ages
<1>2. ASSUME NEW age \in ages, age < Day - 1 PROVE age + 1 \in Aged(ages)
  BY <1>2, Times DEF Aged, Ages
<1>3. \A age \in Aged(ages) : age - 1 \in ages
  BY DEF Aged
<1> QED BY <1>1, <1>2, <1>3

LEMMA ProblemsType == ASSUME TypeOK PROVE Problems \in SUBSET Faults
BY DEF TypeOK, Tunnel, Problems, Faults

LEMMA MendedType ==
    ASSUME NEW s \in State
    PROVE  LET new == [s EXCEPT !.strikes = 0, !.gaveUp = FALSE]
           IN  new \in State /\ new.repairs = s.repairs
<1>1. [s EXCEPT !.strikes = 0] \in State
  BY DEF State
<1>2. ASSUME NEW u \in State PROVE [u EXCEPT !.gaveUp = FALSE] \in State
  <2>1. \A b \in BOOLEAN : [u EXCEPT !.gaveUp = b] \in State
    BY DEF State
  <2> QED BY <2>1
<1>3. [s EXCEPT !.strikes = 0, !.gaveUp = FALSE] \in State
  BY <1>1, <1>2
<1>4. [s EXCEPT !.strikes = 0, !.gaveUp = FALSE].repairs = s.repairs
  BY DEF State
<1> QED BY <1>3, <1>4

\* Fewer repairs than the copy has.
LEMMA RepairsBound ==
    ASSUME NEW few, NEW many \in SUBSET Ages, few \subseteq many,
           Cardinality(many) < MaxRepairs
    PROVE  Cardinality(few) < MaxRepairs
<1>1. IsFiniteSet(Ages)
  BY FS_Interval, Times DEF Ages
<1>2. IsFiniteSet(many) /\ IsFiniteSet(few)
  BY <1>1, FS_Subset
<1>3. Cardinality(few) <= Cardinality(many)
  BY <1>2, FS_Subset
<1>4. Cardinality(few) \in Nat /\ Cardinality(many) \in Nat
  BY <1>2, FS_CardinalityType
<1> QED BY <1>3, <1>4, Times

THEOREM InitInv == Init => Inv
<1> SUFFICES ASSUME Init PROVE Inv
  OBVIOUS
<1>1. TypeOK
  <2>1. tunnel \in Tunnel
    BY Times DEF Init, Tunnel, Inside
  <2>2. file \in State /\ run \in [Runs -> Run]
    BY NoStateType, IdleType DEF Init
  <2>3. troubles \in 0 .. Troubles /\ repaired \in SUBSET (0 .. Day - 1)
    BY Times DEF Init
  <2>4. low \in BOOLEAN /\ due \in BOOLEAN /\ seen \in [last: BOOLEAN, before: BOOLEAN]
    BY Zenon DEF Init
  <2> QED BY <2>1, <2>2, <2>3, <2>4 DEF TypeOK
<1>2. \A r \in Runs : run[r].pc = "idle"
  BY IdleType DEF Init
<1>3. OneFresh /\ Recorded /\ Marked /\ Spaced
  BY <1>2 DEF Init, OneFresh, Recorded, Marked, Spaced, Fresh, At, Repairing
<1>4. StrikeSeen /\ BeforeLook /\ AfterLook /\ AfterAge
  BY <1>2, NoStateType DEF Init, StrikeSeen, BeforeLook, AfterLook, AfterAge, At
<1> QED BY <1>1, <1>3, <1>4 DEF Inv

-----------------------------------------------------------------------------
(* Kinds of steps.                                                         *)

\* What the world does to the tunnel makes it no older.
LEMMA WorldInv ==
    ASSUME Inv, tunnel' \in Tunnel, low' \in BOOLEAN, troubles' \in 0 .. Troubles,
           tunnel'.age = tunnel.age \/ tunnel'.age = 0,
           UNCHANGED <<file, due, run, repaired, seen>>
    PROVE  Inv'
<1>1. TypeOK'
  BY DEF Inv, TypeOK
<1>2. OneFresh' /\ Recorded' /\ Marked' /\ Spaced'
  BY DEF Inv, OneFresh, Recorded, Marked, Spaced, Fresh, At, Repairing
<1>3. (Unsure => Unsure') /\ (UnsureYet => UnsureYet') /\ Recent(Longest)' = Recent(Longest)
  BY DEF Unsure, UnsureYet, Recent
<1>3a. Recent(Longest + 1)' = Recent(Longest + 1)
  BY DEF Recent
<1>4. StrikeSeen' /\ BeforeLook' /\ AfterLook' /\ AfterAge'
  BY <1>3, <1>3a DEF Inv, StrikeSeen, BeforeLook, AfterLook, AfterAge, At
<1> QED BY <1>1, <1>2, <1>4 DEF Inv

\* While a run repairs nobody else is about to.
LEMMA RepairingAlone ==
    ASSUME Inv, NEW r \in Runs, Repairing(r)
    PROVE  /\ run[r].age \in repaired /\ run[r].age \in 0 .. Longest
           /\ Recent(Longest) /\ Unsure /\ UnsureYet
           /\ \A d \in Runs : ~At(d, "restart")
<1>1. run[r].age \in repaired /\ run[r].age \in 0 .. Longest
  BY DEF Inv, Marked, TypeOK, Run
<1>2. Recent(Longest) /\ Recent(Longest + 1)
  BY <1>1, Times DEF Recent
<1>3. ASSUME NEW d \in Runs, At(d, "restart") PROVE FALSE
  BY <1>1, <1>3, Times DEF Inv, Spaced
<1> QED BY <1>1, <1>2, <1>3 DEF Unsure, UnsureYet

\* A step of a repair, which may look and may be its last.
LEMMA RepairGoesOn ==
    ASSUME Inv, NEW r \in Runs, Repairing(r), NEW k \in Run, Update(r, k),
           \/ k.pc = "idle"
           \/ /\ k.pc \in RepairPCs /\ k.age = run[r].age
              /\ k.state.repairs = run[r].state.repairs,
           file' \in State,
           file' = file \/ file'.repairs = run[r].state.repairs,
           tunnel' \in Tunnel, tunnel'.age = tunnel.age,
           troubles' \in 0 .. Troubles, seen' \in Looks,
           UNCHANGED <<low, due, repaired>>
    PROVE  Inv'
<1>1. run' \in [Runs -> Run] /\ \A d \in Runs : run'[d] = IF d = r THEN k ELSE run[d]
  BY DEF Inv, TypeOK, Update
<1>2. TypeOK'
  BY <1>1 DEF Inv, TypeOK, Looks
<1>3. Recent(Longest)' /\ Unsure' /\ UnsureYet' /\ \A d \in Runs : ~At(d, "restart")
  BY RepairingAlone DEF Recent, Unsure, UnsureYet
<1>4. run[r].pc \in RepairPCs /\ repaired \subseteq run[r].state.repairs
  BY DEF Inv, Recorded, Repairing, RepairPCs, At
<1>5. Recorded'
  BY <1>1, <1>4 DEF Inv, Recorded, At
<1>6. Marked'
  BY <1>1 DEF Inv, Marked, Repairing, RepairPCs
<1>7. OneFresh'
  BY <1>1, <1>4 DEF Inv, OneFresh, Fresh, RepairPCs
<1>8. Spaced'
  BY <1>1, <1>3 DEF Spaced, At, RepairPCs
<1>9. StrikeSeen' /\ BeforeLook'
  BY <1>3 DEF StrikeSeen, BeforeLook
<1>10. AfterLook' /\ AfterAge'
  <2>1. Recent(Longest + 1)'
    BY <1>3, Times DEF Recent, Inv, TypeOK
  <2>2. ASSUME NEW d \in Runs, run'[d].pc = "strike" PROVE run'[d].problems # {}
    BY <1>1, <2>2 DEF Inv, AfterAge, At, RepairPCs
  <2> QED BY <1>3, <2>1, <2>2 DEF AfterLook, AfterAge, At
<1> QED BY <1>2, <1>5, <1>6, <1>7, <1>8, <1>9, <1>10 DEF Inv

\* A run decides to leave it at that.
LEMMA DecisionEnds ==
    ASSUME Inv, NEW r \in Runs, At(r, "decide") \/ At(r, "strike"), Update(r, Idle),
           file' \in State,
           file' = file \/ file'.repairs = run[r].state.repairs,
           file'.strikes > 0 => run[r].problems # {},
           tunnel' \in Tunnel, tunnel'.age = tunnel.age,
           troubles' \in 0 .. Troubles,
           UNCHANGED <<low, due, repaired, seen>>
    PROVE  Inv'
<1>1. run' \in [Runs -> Run] /\ \A d \in Runs : run'[d] = IF d = r THEN Idle ELSE run[d]
  BY IdleType DEF Inv, TypeOK, Update
<1>2. TypeOK'
  BY <1>1 DEF Inv, TypeOK
<1>3. repaired \subseteq run[r].state.repairs /\ Fresh(r) /\ ~due
  BY DEF Inv, Recorded, OneFresh, Fresh, At
<1>4. \A d \in Runs : Fresh(d) => d = r
  BY <1>3 DEF Inv, OneFresh
<1>5. \A d \in Runs : run'[d].pc \notin {"running", "probe", "decide", "strike", "restart"}
  BY <1>1, <1>4, IdleType DEF Fresh
<1>6. Recorded'
  BY <1>1, <1>3, IdleType DEF Inv, Recorded, At
<1>7. Marked'
  BY <1>1, IdleType DEF Inv, Marked, Repairing
<1>8. OneFresh' /\ Spaced' /\ BeforeLook' /\ AfterLook' /\ AfterAge'
  BY <1>5 DEF OneFresh, Spaced, BeforeLook, AfterLook, AfterAge, Fresh, At
<1>9. StrikeSeen'
  <2>1. file'.strikes > 0 => seen.last \/ Recent(Longest)
    BY DEF Inv, AfterLook, AfterAge
  <2>2. Recent(Longest)' = Recent(Longest)
    BY DEF Recent
  <2> QED BY <1>3, <2>1, <2>2 DEF StrikeSeen, Unsure
<1> QED BY <1>2, <1>6, <1>7, <1>8, <1>9 DEF Inv

-----------------------------------------------------------------------------
(* The steps.                                                              *)

\* A run that has not decided yet changes its place, having looked or not.
LEMMA BeginsInv ==
    ASSUME Inv, NEW r \in Runs, Begin(r)
    PROVE  Inv'
<1> DEFINE k == [Idle EXCEPT !.pc = "running", !.state = file]
<1>1. due /\ ~due' /\ run[r].pc = "idle" /\ UNCHANGED <<world, file, repaired, seen>>
  BY DEF Begin, At
<1>2. k \in Run /\ k.pc = "running" /\ k.state = file /\ k.age = 0
  BY IdleType DEF Inv, TypeOK, Run, PCs, Idle
<1>3. run' \in [Runs -> Run] /\ \A d \in Runs : run'[d] = IF d = r THEN k ELSE run[d]
  BY <1>2 DEF Inv, TypeOK, Begin, Update
<1> HIDE DEF k
<1>4. TypeOK'
  <2>1. due' = FALSE
    BY DEF Begin
  <2> QED BY <1>1, <1>3, <2>1 DEF Inv, TypeOK, world
<1>5. \A d \in Runs : ~Fresh(d)
  BY <1>1 DEF Inv, OneFresh
<1>6. OneFresh'
  BY <1>1, <1>2, <1>3, <1>5 DEF OneFresh, Fresh
<1>7. Recorded'
  BY <1>1, <1>2, <1>3 DEF Inv, Recorded, At
<1>8. Marked'
  BY <1>1, <1>2, <1>3 DEF Inv, Marked, Repairing
<1>9. Spaced' /\ AfterLook' /\ AfterAge'
  BY <1>2, <1>3, <1>5 DEF Spaced, AfterLook, AfterAge, At, Fresh
<1>10. UnsureYet' = UnsureYet
  BY <1>1 DEF UnsureYet, Recent, world
<1>11. BeforeLook'
  BY <1>1, <1>2, <1>3, <1>5, <1>10 DEF Inv, StrikeSeen, BeforeLook, Fresh
<1>12. StrikeSeen'
  <2>1. run'[r].pc = "running"
    BY <1>2, <1>3
  <2> QED BY <1>1, <2>1 DEF StrikeSeen
<1> QED BY <1>4, <1>6, <1>7, <1>8, <1>9, <1>11, <1>12 DEF Inv

\* A run before its decision goes on to k; when it has looked, what it found is
\* in seen.
LEMMA FreshGoesOn ==
    ASSUME Inv, NEW r \in Runs, run[r].pc \in {"running", "probe"}, NEW k \in Run,
           Update(r, k), k.age = run[r].age, k.state = run[r].state,
           \/ k.pc = "probe" /\ UNCHANGED seen
           \/ k.pc = "decide" /\ Look(k.problems # {}),
           troubles' \in 0 .. Troubles, UNCHANGED <<tunnel, low, file, due, repaired>>
    PROVE  Inv'
<1>1. run' \in [Runs -> Run] /\ \A d \in Runs : run'[d] = IF d = r THEN k ELSE run[d]
  BY DEF Inv, TypeOK, Update
<1>2. TypeOK'
  <2>1. \A bad \in BOOLEAN : Look(bad) => seen' \in Looks
    BY DEF Inv, TypeOK, Look, Looks
  <2>2. seen' \in Looks
    BY <2>1 DEF Inv, TypeOK, Looks
  <2> QED BY <1>1, <2>2 DEF Inv, TypeOK, Looks
<1>3. Fresh(r) /\ \A d \in Runs : Fresh(d) => d = r
  BY DEF Inv, OneFresh, Fresh
<1>4. OneFresh'
  BY <1>1, <1>3 DEF Inv, OneFresh, Fresh
<1>5. Recorded'
  BY <1>1 DEF Inv, Recorded, At
<1>6. Marked'
  BY <1>1 DEF Inv, Marked, Repairing
<1>7. Spaced'
  BY <1>1, <1>3 DEF Inv, Spaced, At, Fresh
<1>8. UnsureYet' = UnsureYet /\ Recent(Longest)' = Recent(Longest)
  BY DEF UnsureYet, Recent
<1>9. BeforeLook' /\ AfterAge'
  BY <1>1, <1>3, <1>8 DEF Inv, BeforeLook, AfterAge, At, Fresh
<1>10. AfterLook'
  <2> SUFFICES ASSUME NEW d \in Runs, run'[d].pc = "decide", run'[d].problems # {}
               PROVE  /\ seen'.last \/ Recent(Longest)'
                      /\ run'[d].state.strikes > 0 => (seen'.last /\ seen'.before) \/ UnsureYet'
    BY DEF AfterLook, At
  <2>1. d = r /\ k.pc = "decide" /\ k.problems # {}
    BY <1>1, <1>3 DEF Fresh
  <2>2. seen' = [last |-> TRUE, before |-> seen.last]
    BY <2>1 DEF Look
  <2>3. run[r].state.strikes > 0 => seen.last \/ UnsureYet
    BY DEF Inv, BeforeLook
  <2> QED BY <1>1, <1>8, <2>1, <2>2, <2>3
<1>11. StrikeSeen'
  <2>1. ~due' /\ run'[r].pc \in {"probe", "decide"}
    BY <1>1, <1>3 DEF Inv, OneFresh
  <2> QED BY <2>1 DEF StrikeSeen
<1> QED BY <1>2, <1>4, <1>5, <1>6, <1>7, <1>9, <1>10, <1>11 DEF Inv

\* Trouble and what may come of it.
LEMMA TroubleType ==
    ASSUME Inv, Trouble \/ UNCHANGED troubles
    PROVE  troubles' \in 0 .. Troubles
BY Times DEF Inv, TypeOK, Trouble

LEMMA LooksInv ==
    ASSUME Inv, NEW r \in Runs, NotRunning(r) \/ Running(r) \/ Probe(r)
    PROVE  Inv'
<1> USE DEF At
<1>0. run[r] \in Run /\ file \in State /\ tunnel \in Tunnel /\ troubles \in 0 .. Troubles
  BY DEF Inv, TypeOK
<1>1. \A bad \in BOOLEAN : Look(bad) => seen' \in Looks
  BY DEF Inv, TypeOK, Look, Looks
<1>2. CASE NotRunning(r)
  <2>0. troubles' \in 0 .. Troubles
    BY <1>2, TroubleType DEF NotRunning
  <2>1. CASE run[r].pc = "running"
    <3> DEFINE k == [run[r] EXCEPT !.problems = {}, !.pc = "decide"]
    <3>1. /\ k \in Run /\ k.pc = "decide" /\ k.problems = {}
          /\ k.age = run[r].age /\ k.state = run[r].state
      BY <1>0 DEF Run, PCs
    <3>2. Update(r, k) /\ Look(FALSE) /\ UNCHANGED <<tunnel, low, file, due, repaired>>
      BY <1>0, <1>2, <2>1 DEF NotRunning, Run
    <3> HIDE DEF k
    <3> QED BY <2>0, <2>1, <3>1, <3>2, FreshGoesOn
  <2>2. CASE run[r].pc = "again"
    <3> DEFINE k == [run[r] EXCEPT !.problems = {}, !.pc = "report"]
    <3>1. /\ k \in Run /\ k.pc = "report" /\ k.age = run[r].age /\ k.state = run[r].state
      BY <1>0 DEF Run, PCs
    <3>2. Update(r, k) /\ Look(FALSE) /\ UNCHANGED <<tunnel, low, file, due, repaired>>
      BY <1>0, <1>2, <2>2 DEF NotRunning, Run
    <3>3. Repairing(r)
      BY <2>2 DEF Repairing
    <3> HIDE DEF k
    <3> QED BY <1>0, <1>1, <2>0, <3>1, <3>2, <3>3, RepairGoesOn DEF RepairPCs
  <2> QED BY <1>2, <2>1, <2>2 DEF NotRunning
<1>3. CASE Running(r)
  <2>1. CASE run[r].pc = "running"
    <3> DEFINE k == [run[r] EXCEPT !.pc = "probe"]
    <3>1. /\ k \in Run /\ k.pc = "probe" /\ k.age = run[r].age /\ k.state = run[r].state
      BY <1>0 DEF Run, PCs
    <3>2. Update(r, k) /\ UNCHANGED <<world, file, due, repaired, seen>>
      BY <1>0, <1>3, <2>1 DEF Running, Run
    <3> HIDE DEF k
    <3> QED BY <1>0, <2>1, <3>1, <3>2, FreshGoesOn DEF world
  <2>2. CASE run[r].pc = "again"
    <3> DEFINE k == [run[r] EXCEPT !.pc = "reprobe"]
    <3>1. /\ k \in Run /\ k.pc = "reprobe" /\ k.age = run[r].age /\ k.state = run[r].state
      BY <1>0 DEF Run, PCs
    <3>2. Update(r, k) /\ UNCHANGED <<world, file, due, repaired, seen>>
      BY <1>0, <1>3, <2>2 DEF Running, Run
    <3>3. Repairing(r) /\ seen' \in Looks
      BY <2>2, <3>2 DEF Repairing, Inv, TypeOK, Looks
    <3> HIDE DEF k
    <3> QED BY <1>0, <3>1, <3>2, <3>3, RepairGoesOn DEF RepairPCs, world
  <2> QED BY <1>3, <2>1, <2>2 DEF Running
<1>4. CASE Probe(r)
  <2>0. Problems \in SUBSET Faults
    BY ProblemsType DEF Inv
  <2>1. CASE run[r].pc = "probe"
    <3> DEFINE k == [run[r] EXCEPT !.problems = Problems, !.pc = "decide"]
    <3>1. /\ k \in Run /\ k.pc = "decide" /\ k.problems = Problems
          /\ k.age = run[r].age /\ k.state = run[r].state
      BY <1>0, <2>0 DEF Run, PCs
    <3>2. Update(r, k) /\ Look(Problems # {}) /\ UNCHANGED <<world, file, due, repaired>>
      BY <1>0, <1>4, <2>1 DEF Probe, Run
    <3> HIDE DEF k
    <3> QED BY <1>0, <2>1, <3>1, <3>2, FreshGoesOn DEF world
  <2>2. CASE run[r].pc = "reprobe"
    <3> DEFINE k == [run[r] EXCEPT !.problems = Problems, !.pc = "report"]
    <3>1. /\ k \in Run /\ k.pc = "report" /\ k.age = run[r].age /\ k.state = run[r].state
      BY <1>0, <2>0 DEF Run, PCs
    <3>2. Update(r, k) /\ Look(Problems # {}) /\ UNCHANGED <<world, file, due, repaired>>
      BY <1>0, <1>4, <2>2 DEF Probe, Run
    <3>3. Repairing(r)
      BY <2>2 DEF Repairing
    <3> HIDE DEF k
    <3> QED BY <1>0, <1>1, <3>1, <3>2, <3>3, RepairGoesOn DEF RepairPCs, world
  <2> QED BY <1>4, <2>1, <2>2 DEF Probe
<1> QED BY <1>2, <1>3, <1>4

\* Of a gluetun old enough no doubt is left that came with its age.
LEMMA AgeAskedInv ==
    ASSUME Inv, NEW r \in Runs, OldEnough(r)
    PROVE  Inv'
<1> USE DEF At
<1>1. PICK blind \in BOOLEAN :
        /\ ~blind => tunnel.age > Settle
        /\ Update(r, [run[r] EXCEPT !.pc = "strike", !.blind = blind])
  BY DEF OldEnough
<1> DEFINE k == [run[r] EXCEPT !.pc = "strike", !.blind = blind]
<1>2. /\ run[r].pc = "decide" /\ run[r].problems # {} /\ run[r] \in Run
      /\ UNCHANGED <<tunnel, low, file, due, repaired, seen>>
  BY DEF OldEnough, Bad, Inv, TypeOK
<1>3. /\ k \in Run /\ k.pc = "strike" /\ k.blind = blind /\ k.age = run[r].age
      /\ k.state = run[r].state /\ k.problems = run[r].problems
  BY <1>2 DEF Run, PCs
<1>4. run' \in [Runs -> Run] /\ \A d \in Runs : run'[d] = IF d = r THEN k ELSE run[d]
  BY <1>1, <1>3 DEF Inv, TypeOK, Update
<1> HIDE DEF k
<1>5. TypeOK'
  <2>1. troubles' \in 0 .. Troubles
    BY TroubleType DEF OldEnough
  <2> QED BY <1>2, <1>4, <2>1 DEF Inv, TypeOK
<1>6. Fresh(r) /\ ~due /\ \A d \in Runs : Fresh(d) => d = r
  BY <1>2 DEF Inv, OneFresh, Fresh
<1>7. OneFresh'
  BY <1>2, <1>3, <1>4, <1>6 DEF Inv, OneFresh, Fresh
<1>8. Recorded' /\ Marked'
  BY <1>2, <1>3, <1>4 DEF Inv, Recorded, Marked, Repairing
<1>9. Spaced' /\ BeforeLook' /\ AfterLook'
  BY <1>3, <1>4, <1>6 DEF Spaced, BeforeLook, AfterLook, Fresh
<1>10. StrikeSeen'
  BY <1>2, <1>3, <1>4, <1>6 DEF StrikeSeen
<1>11. AfterAge'
  <2>1. ~blind => tunnel.age > 1
    BY <1>1, Times DEF Inv, TypeOK, Tunnel
  <2>2. /\ seen.last \/ Recent(Longest)
        /\ run[r].state.strikes > 0 =>
             (seen.last /\ seen.before) \/ blind \/ Recent(Longest + 1)
    <3>1. tunnel.age \in Nat
      BY DEF Inv, TypeOK, Tunnel
    <3>2. ~blind => ~(tunnel.age <= 1)
      BY <2>1, <3>1
    <3> QED BY <1>2, <3>2 DEF Inv, AfterLook, UnsureYet
  <2>3. \A d \in Runs : run'[d].pc = "strike" => d = r
    BY <1>4, <1>6 DEF Fresh
  <2>4. seen' = seen /\ \A n : Recent(n)' = Recent(n)
    BY <1>2 DEF Recent
  <2> QED BY <1>2, <1>3, <1>4, <2>2, <2>3, <2>4 DEF AfterAge
<1> QED BY <1>5, <1>7, <1>8, <1>9, <1>10, <1>11 DEF Inv

LEMMA DecidesInv ==
    ASSUME Inv, NEW r \in Runs,
           \/ Leak(r) \/ AllWell(r) \/ NotYet(r) \/ StrikeOne(r)
           \/ PortPushed(r) \/ Declined(r)
    PROVE  Inv'
<1>0. /\ run[r] \in Run /\ run[r].state \in State /\ file \in State
      /\ tunnel \in Tunnel /\ troubles \in 0 .. Troubles
  BY DEF Inv, TypeOK, Run
<1>1. CASE Leak(r)
  <2>1. tunnel' \in Tunnel /\ tunnel'.age = tunnel.age
    BY <1>0, <1>1 DEF Leak, Tunnel
  <2>2. troubles' \in 0 .. Troubles
    BY <1>1, TroubleType DEF Leak
  <2> QED BY <1>0, <1>1, <2>1, <2>2, DecisionEnds DEF Leak
<1>2. CASE AllWell(r)
  <2>1. file' \in State /\ file'.repairs = run[r].state.repairs /\ ~(file'.strikes > 0)
    BY <1>0, <1>2 DEF AllWell, Save, State
  <2> QED BY <1>0, <1>2, <2>1, DecisionEnds DEF AllWell, world
<1>3. CASE NotYet(r)
  BY <1>0, <1>3, DecisionEnds DEF NotYet, Bad, world
<1>4. CASE StrikeOne(r)
  <2>1. file' \in State /\ file'.repairs = run[r].state.repairs
    BY <1>0, <1>4 DEF StrikeOne, Save, State
  <2>2. run[r].problems # {}
    BY <1>4 DEF StrikeOne, Inv, AfterAge
  <2> QED BY <1>0, <1>4, <2>1, DecisionEnds, <2>2 DEF StrikeOne, world
<1>5. CASE PortPushed(r)
  <2>1. file' \in State /\ file'.repairs = run[r].state.repairs /\ ~(file'.strikes > 0)
    BY <1>0, <1>5 DEF PortPushed, Save, State
  <2>2. tunnel' \in Tunnel /\ tunnel'.age = tunnel.age
    BY <1>0, <1>5 DEF PortPushed, Tunnel
  <2> QED BY <1>0, <1>5, <2>1, <2>2, DecisionEnds DEF PortPushed, SecondStrike
<1>6. CASE Declined(r)
  <2>1. file' \in State /\ file'.repairs = run[r].state.repairs
    <3>1. Again(r) \in State /\ Again(r).repairs = run[r].state.repairs
      BY <1>0 DEF Again, State
    <3>2. TooMany(r) \in BOOLEAN
      BY DEF TooMany
    <3>3. file' = [Again(r) EXCEPT !.gaveUp = @ \/ TooMany(r)]
      BY <1>6 DEF Declined, Save
    <3> QED BY <3>1, <3>2, <3>3 DEF State
  <2>2. troubles' \in 0 .. Troubles
    BY <1>6, TroubleType DEF Declined, PastThePort
  <2>3. run[r].problems # {}
    BY <1>6 DEF Declined, PastThePort, SecondStrike, Inv, AfterAge
  <2> QED BY <1>0, <1>6, <2>1, <2>2, <2>3, DecisionEnds DEF Declined, PastThePort, SecondStrike
<1> QED BY <1>1, <1>2, <1>3, <1>4, <1>5, <1>6

\* A repair is written down: nothing is left of the doubts about the strikes.
LEMMA RepairsInv ==
    ASSUME Inv, NEW r \in Runs, Repair(r)
    PROVE  Inv' /\ ((seen.last /\ seen.before) \/ run[r].blind)
<1> USE DEF At
<1> DEFINE s == run[r].state
           new == [Again(r) EXCEPT !.repairs = @ \cup {0}]
           k == [Idle EXCEPT !.pc = "restart", !.state = new]
<1>1. run[r].pc = "strike" /\ s.strikes > 0
  BY DEF Repair, PastThePort, SecondStrike
<1>2. run[r] \in Run /\ s \in State /\ s.repairs \in SUBSET Ages
  BY DEF Inv, TypeOK, Run, State, Ages
<1>3. new \in State /\ new.repairs = s.repairs \cup {0} /\ new.strikes = 2
  <2>1. s.repairs \cup {0} \in SUBSET (0 .. Day - 1)
    BY <1>2, Times DEF Ages
  <2>2. Again(r) \in State /\ Again(r).repairs = s.repairs /\ Again(r).strikes = 2
    BY <1>2 DEF Again, State
  <2> QED BY <2>1, <2>2 DEF State
<1>4. k \in Run /\ k.pc = "restart" /\ k.state = new /\ k.age = 0
  BY <1>2, <1>3, IdleType DEF Run, PCs, Idle
<1>5. run' \in [Runs -> Run] /\ \A d \in Runs : run'[d] = IF d = r THEN k ELSE run[d]
  BY <1>4 DEF Inv, TypeOK, Repair, Update
<1>6. file' = new
  BY <1>4, <1>5 DEF Repair, Save
<1>7. UNCHANGED <<tunnel, low, due, repaired, seen>> /\ troubles' \in 0 .. Troubles
  BY TroubleType DEF Repair, PastThePort
<1>8. repaired \subseteq s.repairs /\ run[r].age = 0 /\ ~due
  BY <1>1 DEF Inv, Recorded, OneFresh, Fresh
<1>9. \A d \in Runs : Fresh(d) => d = r
  BY <1>1 DEF Inv, OneFresh, Fresh
<1> HIDE DEF k, new
<1>10. \A age \in s.repairs : age >= Cooldown
  BY <1>2, Times DEF Repair, TooSoon, Ages
<1>11. Cardinality(repaired) < MaxRepairs
  <2>1. Cardinality(s.repairs) < MaxRepairs
    <3>1. IsFiniteSet(Ages)
      BY FS_Interval, Times DEF Ages
    <3>2. Cardinality(s.repairs) \in Nat
      BY <1>2, <3>1, FS_Subset, FS_CardinalityType
    <3> QED BY <3>2, Times DEF Repair, TooMany
  <2> QED BY <1>2, <1>8, <2>1, RepairsBound
<1>12. ~Recent(Longest + 1) /\ ~Recent(Longest)
  <2>1. \A age \in repaired : age \in Nat /\ age >= Cooldown
    BY <1>2, <1>8, <1>10, Times DEF Ages
  <2> QED BY <2>1, Times DEF Recent
<1>13. seen.last /\ (seen.before \/ run[r].blind)
  BY <1>1, <1>12 DEF Inv, AfterAge
<1>14. TypeOK'
  BY <1>3, <1>5, <1>6, <1>7 DEF Inv, TypeOK
<1>15. OneFresh'
  BY <1>1, <1>4, <1>5, <1>7, <1>8, <1>9 DEF Inv, OneFresh, Fresh
<1>16. Recorded'
  BY <1>3, <1>4, <1>5, <1>6, <1>7, <1>8 DEF Inv, Recorded
<1>17. Marked'
  BY <1>4, <1>5, <1>7 DEF Inv, Marked, Repairing
<1>18. Spaced'
  BY <1>3, <1>4, <1>5, <1>6, <1>7, <1>8, <1>9, <1>10, <1>11 DEF Spaced, Fresh
<1>19. StrikeSeen' /\ BeforeLook' /\ AfterLook' /\ AfterAge'
  BY <1>4, <1>5, <1>7, <1>8, <1>9, <1>13 DEF StrikeSeen, BeforeLook, AfterLook, AfterAge, Fresh
<1> QED BY <1>13, <1>14, <1>15, <1>16, <1>17, <1>18, <1>19 DEF Inv

LEMMA RestartsVpnInv ==
    ASSUME Inv, NEW r \in Runs, RestartVpn(r)
    PROVE  Inv'
<1> USE DEF At
<1> DEFINE k == [run[r] EXCEPT !.pc = "wait"]
<1>1. run[r].pc = "restart" /\ run[r] \in Run
  BY DEF RestartVpn, Inv, TypeOK
<1>2. k \in Run /\ k.pc = "wait" /\ k.state = run[r].state /\ k.age = run[r].age
  BY <1>1 DEF Run, PCs
<1>3. run' \in [Runs -> Run] /\ \A d \in Runs : run'[d] = IF d = r THEN k ELSE run[d]
  BY <1>2 DEF Inv, TypeOK, RestartVpn, To, Update
<1> HIDE DEF k
<1>4. tunnel' \in Tunnel /\ troubles' \in 0 .. Troubles
  <2>1. ASSUME NEW faults \in SUBSET Faults, Restarted(faults) PROVE tunnel' \in Tunnel
    <3>1. 0 \in 0 .. Settle + 1 /\ {} \in SUBSET Inside /\ tunnel \in Tunnel
      BY Times DEF Inv, TypeOK
    <3> QED BY <2>1, <3>1 DEF Restarted, Tunnel
  <2>2. {"port"} \subseteq Faults /\ tunnel.faults \in SUBSET Faults
    BY DEF Faults, Inv, TypeOK, Tunnel
  <2> QED BY <2>1, <2>2, TroubleType DEF RestartVpn
<1>5. UNCHANGED <<low, file, due, seen>> /\ repaired' = repaired \cup {0}
  BY DEF RestartVpn
<1>6. TypeOK'
  <2>1. repaired' \in SUBSET (0 .. Day - 1)
    BY <1>5, Times DEF Inv, TypeOK
  <2> QED BY <1>3, <1>4, <1>5, <2>1 DEF Inv, TypeOK
<1>7. /\ run[r].age = 0 /\ ~due /\ 0 \in file.repairs /\ 0 \in run[r].state.repairs
      /\ \A d \in Runs : Fresh(d) => d = r
  BY <1>1 DEF Inv, OneFresh, Spaced, Fresh
<1>8. \A d \in Runs \ {r} : run[d].pc = "idle"
  <2>1. \A d \in Runs : ~Repairing(d)
    BY <1>1, RepairingAlone
  <2>2. \A d \in Runs : run[d].pc \in PCs
    BY DEF Inv, TypeOK, Run
  <2> QED BY <1>7, <2>1, <2>2 DEF Repairing, Fresh, PCs
<1>9. OneFresh' /\ Spaced' /\ BeforeLook' /\ AfterLook' /\ AfterAge'
  BY <1>2, <1>3, <1>8 DEF OneFresh, Spaced, BeforeLook, AfterLook, AfterAge, Fresh
<1>10. Recorded' /\ Marked'
  BY <1>1, <1>2, <1>3, <1>5, <1>7, <1>8 DEF Inv, Recorded, Marked, Repairing
<1>11. StrikeSeen'
  <2>1. Recent(Longest)' /\ ~due'
    BY <1>5, <1>7, Times DEF Recent
  <2> QED BY <2>1 DEF StrikeSeen, Unsure
<1> QED BY <1>6, <1>9, <1>10, <1>11 DEF Inv

\* What follows the restart of gluetun.
LEMMA RepairStepsInv ==
    ASSUME Inv, NEW r \in Runs,
           \/ WaitOver(r) \/ RestartQbittorrent(r) \/ RestartPeers(r)
           \/ PushPort(r) \/ Report(r)
    PROVE  Inv'
<1> USE DEF At
<1>0. /\ run[r] \in Run /\ run[r].state \in State /\ file \in State
      /\ tunnel \in Tunnel /\ troubles \in 0 .. Troubles /\ seen \in Looks
  BY DEF Inv, TypeOK, Run, Looks
<1>1. ASSUME NEW pc \in RepairPCs
      PROVE  /\ [run[r] EXCEPT !.pc = pc] \in Run
             /\ [run[r] EXCEPT !.pc = pc].pc = pc
             /\ [run[r] EXCEPT !.pc = pc].age = run[r].age
             /\ [run[r] EXCEPT !.pc = pc].state = run[r].state
  BY <1>0, <1>1 DEF Run, PCs, RepairPCs
<1>2. CASE WaitOver(r)
  <2>1. PICK port \in BOOLEAN :
          Update(r, [run[r] EXCEPT !.pc = "qbittorrent", !.port = port])
    BY <1>2 DEF WaitOver
  <2> DEFINE k == [run[r] EXCEPT !.pc = "qbittorrent", !.port = port]
  <2>2. k \in Run /\ k.pc = "qbittorrent" /\ k.age = run[r].age /\ k.state = run[r].state
    BY <1>0 DEF Run, PCs
  <2>3. Repairing(r) /\ UNCHANGED <<world, file, due, repaired, seen>>
    BY <1>2 DEF WaitOver, Repairing
  <2> HIDE DEF k
  <2> QED BY <1>0, <2>1, <2>2, <2>3, RepairGoesOn DEF RepairPCs, world, k
<1>3. ASSUME NEW pc \in RepairPCs, To(r, pc), Repairing(r), tunnel' \in Tunnel,
             tunnel'.age = tunnel.age, Trouble \/ UNCHANGED troubles,
             UNCHANGED <<low, file, due, repaired, seen>>
      PROVE  Inv'
  <2>1. troubles' \in 0 .. Troubles
    BY <1>3, TroubleType
  <2>2. Update(r, [run[r] EXCEPT !.pc = pc])
    BY <1>3 DEF To
  <2> QED BY <1>0, <1>1, <1>3, <2>1, <2>2, RepairGoesOn
<1>4. CASE RestartQbittorrent(r)
  <2>1. tunnel' \in Tunnel /\ tunnel'.age = tunnel.age
    BY <1>0, <1>4 DEF RestartQbittorrent, Tunnel, Inside
  <2> QED BY <1>3, <1>4, <2>1 DEF RestartQbittorrent, Repairing, RepairPCs
<1>5. CASE RestartPeers(r)
  <2>1. tunnel' \in Tunnel /\ tunnel'.age = tunnel.age
    BY <1>0, <1>5 DEF RestartPeers, Tunnel, Inside
  <2>2. (IF run[r].port THEN "push" ELSE "again") \in RepairPCs
    BY DEF RepairPCs
  <2> QED BY <1>3, <1>5, <2>1, <2>2 DEF RestartPeers, Repairing
<1>6. CASE PushPort(r)
  <2>1. tunnel' \in Tunnel /\ tunnel'.age = tunnel.age
    BY <1>0, <1>6 DEF PushPort, Tunnel
  <2> QED BY <1>3, <1>6, <2>1 DEF PushPort, Repairing, RepairPCs
<1>7. CASE Report(r)
  <2>1. file' \in State /\ file'.repairs = run[r].state.repairs
    BY <1>0, <1>7, MendedType DEF Report, Save
  <2>2. Update(r, Idle) /\ Repairing(r) /\ UNCHANGED <<world, due, repaired, seen>>
    BY <1>7 DEF Report, Repairing
  <2> QED BY <1>0, <2>1, <2>2, IdleType, RepairGoesOn DEF world
<1> QED BY <1>2, <1>4, <1>5, <1>6, <1>7

LEMMA TickInv ==
    ASSUME Inv, Tick
    PROVE  Inv'
<1> USE DEF At
<1>1. /\ ~due /\ due' = TRUE /\ UNCHANGED <<low, troubles, seen>>
      /\ \A r \in Runs : run[r].pc = "idle" \/ (Repairing(r) /\ run[r].age < Longest)
  BY DEF Tick
<1>2. repaired \in SUBSET Ages /\ file.repairs \in SUBSET Ages
  BY DEF Inv, TypeOK, State, Ages
<1>3. tunnel' \in Tunnel /\ (tunnel.age = 0 => tunnel'.age = 1)
  <2> DEFINE age == IF tunnel.age <= Settle THEN tunnel.age + 1 ELSE tunnel.age
  <2>1. tunnel \in Tunnel
    BY DEF Inv, TypeOK
  <2>2. age \in 0 .. Settle + 1 /\ (tunnel.age = 0 => age = 1)
    BY <2>1, Times DEF Tunnel
  <2>3. tunnel' = [tunnel EXCEPT !.age = age]
    BY <2>1 DEF Tick, Tunnel
  <2> HIDE DEF age
  <2> QED BY <2>1, <2>2, <2>3 DEF Tunnel
<1>4. file' \in State /\ file'.strikes = file.strikes /\ file'.repairs = Aged(file.repairs)
  <2>1. Aged(file.repairs) \in SUBSET (0 .. Day - 1)
    BY <1>2, AgedType DEF Ages
  <2> QED BY <2>1 DEF Tick, Inv, TypeOK, State
<1>5. ASSUME NEW r \in Runs
      PROVE  /\ run'[r] \in Run /\ run'[r].pc = run[r].pc
             /\ run[r].pc = "idle" => run'[r] = run[r]
             /\ run[r].pc # "idle" =>
                  /\ run'[r].age = run[r].age + 1 /\ run[r].age \in Nat
                  /\ run[r].age < Longest
                  /\ run'[r].state.repairs = Aged(run[r].state.repairs)
                  /\ run[r].state.repairs \in SUBSET Ages
  <2>1. CASE run[r].pc = "idle"
    BY <2>1 DEF Tick, Inv, TypeOK
  <2>2. CASE run[r].pc # "idle"
    <3> DEFINE state == [run[r].state EXCEPT !.repairs = Aged(@)]
    <3>1. run[r] \in Run /\ run[r].state \in State /\ run[r].state.repairs \in SUBSET Ages
      BY DEF Inv, TypeOK, Run, State, Ages
    <3>2. Aged(run[r].state.repairs) \in SUBSET (0 .. Day - 1)
      BY <3>1, AgedType DEF Ages
    <3>3. state \in State /\ state.repairs = Aged(run[r].state.repairs)
      BY <3>1, <3>2 DEF State
    <3>4. run[r].age < Longest /\ run[r].age \in 0 .. Longest
      BY <1>1, <2>2, <3>1 DEF Run
    <3>5. run'[r] = [[run[r] EXCEPT !.age = @ + 1] EXCEPT !.state = state]
      BY <2>2, <3>1 DEF Tick, Run
    <3> HIDE DEF state
    <3>6. run[r].age + 1 \in 0 .. Longest /\ run[r].age \in Nat
      BY <3>4, Times
    <3>7. /\ run'[r] \in Run /\ run'[r].pc = run[r].pc
          /\ run'[r].age = run[r].age + 1 /\ run'[r].state = state
      BY <3>1, <3>3, <3>5, <3>6 DEF Run
    <3> QED BY <2>2, <3>1, <3>3, <3>4, <3>6, <3>7
  <2> QED BY <2>1, <2>2
<1>6. run' \in [Runs -> Run]
  BY <1>5 DEF Tick
<1>7. repaired' = Aged(repaired) /\ repaired' \in SUBSET Ages
  BY <1>2, AgedType DEF Tick
<1>8. TypeOK'
  BY <1>1, <1>3, <1>4, <1>6, <1>7 DEF Inv, TypeOK, Ages
<1>9. \A r \in Runs : run'[r].pc \notin {"running", "probe", "decide", "strike", "restart"}
  BY <1>1, <1>5 DEF Repairing
<1>10. OneFresh' /\ Spaced' /\ BeforeLook' /\ AfterLook' /\ AfterAge'
  BY <1>9 DEF OneFresh, Spaced, BeforeLook, AfterLook, AfterAge, Fresh
<1>11. \A few, many : few \subseteq many => Aged(few) \subseteq Aged(many)
  BY DEF Aged
<1>12. Recorded'
  BY <1>4, <1>5, <1>7, <1>11 DEF Inv, Recorded
<1>13. Marked'
  <2> SUFFICES ASSUME NEW r \in Runs, Repairing(r)' PROVE run'[r].age \in repaired'
    BY DEF Marked
  <2>1. Repairing(r) /\ run[r].pc # "idle"
    BY <1>5 DEF Repairing
  <2>2. run[r].age \in repaired /\ run[r].age < Day - 1
    BY <1>5, <2>1, Times DEF Inv, Marked
  <2> QED BY <1>2, <1>5, <1>7, <2>1, <2>2, AgedType
<1>14. StrikeSeen'
  <2>1. file.strikes > 0 => seen.last \/ Unsure
    BY <1>1, <1>5, <1>9 DEF Inv, StrikeSeen
  <2>2. Recent(Longest) => Recent(Longest + 1)'
    <3> SUFFICES ASSUME NEW age \in repaired, age <= Longest PROVE Recent(Longest + 1)'
      BY DEF Recent
    <3>1. age \in Nat /\ age < Day - 1
      BY <1>2, Times DEF Ages
    <3>2. age + 1 \in repaired' /\ age + 1 <= Longest + 1
      BY <1>2, <1>7, <3>1, AgedType, Times
    <3> QED BY <3>2 DEF Recent
  <2>3. Unsure => UnsureYet'
    BY <1>3, <2>2 DEF Unsure, UnsureYet
  <2> QED BY <1>1, <1>4, <2>1, <2>3 DEF StrikeSeen
<1> QED BY <1>8, <1>10, <1>12, <1>13, <1>14 DEF Inv

LEMMA RebootInv ==
    ASSUME Inv, Reboot
    PROVE  Inv'
<1>1. \A r \in Runs : run'[r].pc = "idle"
  BY IdleType DEF Reboot
<1>2. tunnel' \in Tunnel /\ tunnel'.age = 0
  <2>1. 0 \in 0 .. Settle + 1 /\ tunnel \in Tunnel
    BY Times DEF Inv, TypeOK
  <2> QED BY <2>1 DEF Reboot, Tunnel
<1>3. TypeOK'
  BY <1>2, IdleType, TroubleType DEF Inv, TypeOK, Reboot
<1>4. OneFresh' /\ Marked' /\ Spaced' /\ BeforeLook' /\ AfterLook' /\ AfterAge'
  BY <1>1 DEF OneFresh, Marked, Spaced, BeforeLook, AfterLook, AfterAge, Fresh, Repairing, At
<1>5. Recorded'
  BY <1>1 DEF Inv, Recorded, Reboot, At
<1>6. StrikeSeen'
  BY <1>2 DEF StrikeSeen, Unsure, UnsureYet
<1> QED BY <1>3, <1>4, <1>5, <1>6 DEF Inv

THEOREM NextInv == Inv /\ [Next]_vars => Inv'
<1> SUFFICES ASSUME Inv, [Next]_vars PROVE Inv'
  OBVIOUS
<1>0. tunnel \in Tunnel /\ low \in BOOLEAN /\ troubles \in 0 .. Troubles
  BY DEF Inv, TypeOK
<1>1. ASSUME NEW r \in Runs, RunSteps(r) PROVE Inv'
  BY <1>1, BeginsInv, LooksInv, AgeAskedInv, DecidesInv, RepairsInv, RestartsVpnInv, RepairStepsInv
     DEF RunSteps
<1>2. CASE Tick
  BY <1>2, TickInv
<1>3. ASSUME NEW fault \in Faults, Breaks(fault) \/ Heals(fault) PROVE Inv'
  <2>1. tunnel' \in Tunnel /\ tunnel'.age = tunnel.age
    BY <1>0, <1>3 DEF Breaks, Heals, Tunnel
  <2>2. troubles' \in 0 .. Troubles
    BY <1>3, TroubleType DEF Breaks, Heals
  <2> QED BY <1>0, <1>3, <2>1, <2>2, WorldInv DEF Breaks, Heals
<1>4. CASE Updated
  <2>1. 0 \in 0 .. Settle + 1
    BY Times
  <2>2. tunnel' \in Tunnel /\ tunnel'.age = 0
    BY <1>0, <1>4, <2>1 DEF Updated, Restarted, Tunnel
  <2>3. troubles' \in 0 .. Troubles
    BY <1>4, TroubleType DEF Updated
  <2> QED BY <1>0, <1>4, <2>2, <2>3, WorldInv DEF Updated
<1>5. CASE Started
  <2>1. tunnel' \in Tunnel /\ tunnel'.age = tunnel.age
    BY <1>0, <1>5 DEF Started, Tunnel, Inside
  <2> QED BY <1>0, <1>5, <2>1, WorldInv DEF Started
<1>6. CASE Fills \/ Cleared
  BY <1>0, <1>6, TroubleType, WorldInv DEF Fills, Cleared
<1>7. CASE DiskGuard
  <2>1. tunnel' \in Tunnel /\ tunnel'.age = tunnel.age
    BY <1>0, <1>7 DEF DiskGuard, Tunnel
  <2> QED BY <1>0, <1>7, <2>1, WorldInv DEF DiskGuard
<1>8. CASE Reboot
  BY <1>8, RebootInv
<1>9. CASE UNCHANGED vars
  BY <1>0, <1>9, WorldInv DEF vars, world
<1> QED BY <1>1, <1>2, <1>3, <1>4, <1>5, <1>6, <1>7, <1>8, <1>9 DEF Next

THEOREM InvHolds == Spec => []Inv
BY InitInv, NextInv, PTL DEF Spec

-----------------------------------------------------------------------------
(* The properties.                                                         *)

\* Every variable keeps its type, for any number of processes, times and troubles
\* (vpn-guard.py).
THEOREM TypeCorrect == Spec => []TypeOK
<1>1. Inv => TypeOK
  BY DEF Inv
<1> QED BY <1>1, InvHolds, PTL

\* No two repairs are closer than the cooldown and no day has more than
\* MAX_REPAIRS, whatever runs overlap and wherever they are cut off (main).
THEOREM RepairsAreSpaced == Spec => RepairsSpaced
<1> DEFINE SpacedStep ==
      \A r \in Runs : At(r, "restart") /\ run'[r].pc = "wait" =>
         /\ \A age \in repaired : age >= Cooldown
         /\ Cardinality(repaired) < MaxRepairs
<1>1. Inv /\ [Next]_vars => [SpacedStep]_vars
  BY DEF Inv, Spaced
<1> QED BY <1>1, InvHolds, PTL DEF Spec, RepairsSpaced

\* gluetun is restarted only when two looks in a row found something wrong, unless
\* docker did not say how old it is: SETTLE_S and COOLDOWN_S outlast what leaves an
\* old strike behind (main).
THEOREM RepairsTakeASecondLook == Spec => SecondLook
<1> DEFINE SecondLookStep ==
      \A r \in Runs : At(r, "strike") /\ run'[r].pc = "restart" =>
         (seen.last /\ seen.before) \/ run[r].blind
<1>1. Inv /\ [Next]_vars => [SecondLookStep]_vars
  <2> SUFFICES ASSUME Inv, Next, NEW r \in Runs, At(r, "strike"), run'[r].pc = "restart"
               PROVE  (seen.last /\ seen.before) \/ run[r].blind
    OBVIOUS
  <2> USE DEF At
  <2>1. run \in [Runs -> Run] /\ run[r] \in Run
    BY DEF Inv, TypeOK
  <2>2. ASSUME NEW d \in Runs, RunSteps(d) PROVE Repair(r)
    <3>1. \E k : Update(d, k)
      BY <2>2 DEF RunSteps, Begin, NotRunning, Running, Probe, Leak, AllWell, NotYet,
         OldEnough, StrikeOne, PortPushed, Declined, Repair, RestartVpn, WaitOver,
         RestartQbittorrent,
         RestartPeers, PushPort, Report, To
    <3>2. d = r
      BY <2>1, <3>1 DEF Update
    <3>3. ~Update(r, Idle)
      BY <2>1, IdleType DEF Update
    <3> QED BY <2>2, <3>2, <3>3 DEF RunSteps, Begin, NotRunning, Running, Probe, Leak,
           AllWell, Bad, NotYet, OldEnough, StrikeOne, PortPushed, Declined, RestartVpn, WaitOver,
           RestartQbittorrent, RestartPeers, PushPort, Report
  <2>3. ~Tick
    BY DEF Tick, Repairing
  <2>4. ~Reboot
    BY IdleType DEF Reboot
  <2>5. UNCHANGED run => FALSE
    OBVIOUS
  <2> QED BY <2>2, <2>3, <2>4, <2>5, RepairsInv DEF Next, Breaks, Heals, Updated, Started,
         Fills, Cleared, DiskGuard
<1> QED BY <1>1, InvHolds, PTL DEF Spec, SecondLook

=============================================================================
