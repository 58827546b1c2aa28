---------------------------- MODULE Pushes_proofs ----------------------------
(***************************************************************************)
(* Proofs about Pushes: about NotifyBatches, for any episodes, series,     *)
(* stuck downloads and calls and any of its times, and about StaleRequests *)
(* for any requests, titles, dates and length of Seerr's pages.            *)
(***************************************************************************)
EXTENDS Pushes, FiniteSetTheorems, WellFoundedInduction, TLAPS

-----------------------------------------------------------------------------
(* Events of Sonarr and Radarr.                                            *)

\* Every episode is in one place: with its series, in one push, or done with.
Accounted ==
    /\ \A b \in Batches : batches[b] \subseteq {e \in posted \ ended : e.batch = b}
    /\ \A p \in pushes : p.eps \subseteq posted \ ended
    /\ \A p \in pushes, b \in Batches : p.eps \cap batches[b] = {}
    /\ \A p, q \in pushes : p # q => p.eps \cap q.eps = {}

\* What is gathered has a timer, and only that.
Timed ==
    /\ \A t \in timers : Gathering(t.batch)
    /\ \A b \in Batches :
         /\ last[b] <= first[b]
         /\ Gathering(b) => \E t \in timers : t.batch = b
         /\ ~Gathering(b) => first[b] = 0

\* A timer will find its series quiet for long enough or at its limit.
TimersTell ==
    \A t \in timers :
        /\ t.left + first[t.batch] <= Max
        /\ t.left + last[t.batch] >= Quiet \/ t.left + first[t.batch] >= Max

\* What was still gathered at the signal is in a push the exit waits for, or
\* its push is over.
StoppedClean ==
    /\ phase = "stopping" =>
         \A e \in kept : e \in ended \/ \E p \in pushes : p.by = "stop" /\ e \in p.eps
    /\ phase = "exited" => kept \subseteq ended

\* The table is right about every id but those it forgot.
Remembered == \A d \in Stuck : d \in cleared \/ seen[d] = said[d]

Gathered == Accounted /\ Timed /\ TimersTell

Inv == TypeOK /\ Gathered /\ StoppedClean /\ Remembered

-----------------------------------------------------------------------------
LEMMA NeverType == Never \in 0 .. Never /\ Day \in Nat
  BY TimesAssumption DEF Never

LEMMA OlderType == \A age \in 0 .. Never : Older(age) \in 0 .. Never
  BY TimesAssumption DEF Older, Never

LEMMA AgedType == \A age \in Nat : Aged(age) \in Nat
  BY TimesAssumption DEF Aged

LEMMA WaitType == \A age \in Nat : Wait(age) \in 0 .. Max
  BY TimesAssumption DEF Wait, Smaller

\* A batch no older than Max is told to wait until it is quiet or that old.
LEMMA WaitTells ==
    ASSUME NEW age \in 0 .. Max
    PROVE  Wait(age) + age <= Max /\ (Wait(age) >= Quiet \/ Wait(age) + age >= Max)
  BY TimesAssumption DEF Wait, Smaller

LEMMA IdleType == Idle \in [pc: {"idle", "reasons", "publish"}, id: Ids]
  BY DEF Idle, Ids

\* No batch is ever kept past Max.
LEMMA FirstBound == Inv => \A b \in Batches : first[b] \in 0 .. Max /\ last[b] \in 0 .. Max
<1> SUFFICES ASSUME Inv, NEW b \in Batches PROVE first[b] \in 0 .. Max /\ last[b] \in 0 .. Max
  OBVIOUS
<1>0. first[b] \in Nat /\ last[b] \in Nat /\ last[b] <= first[b]
  BY DEF Inv, TypeOK, Gathered, Timed
<1>1. CASE Gathering(b)
  <2>1. PICK t \in timers : t.batch = b
    BY <1>1 DEF Inv, Gathered, Timed
  <2>2. t.left \in 0 .. Max /\ t.left + first[b] <= Max
    BY <2>1 DEF Inv, TypeOK, Timer, Gathered, TimersTell
  <2> QED
    BY <1>0, <2>2, TimesAssumption
<1>2. CASE ~Gathering(b)
  BY <1>0, <1>2, TimesAssumption DEF Inv, Gathered, Timed
<1> QED
  BY <1>1, <1>2

-----------------------------------------------------------------------------
LEMMA Nothing ==
    ASSUME batches = [b \in Batches |-> {}], first = [b \in Batches |-> 0],
           last = [b \in Batches |-> 0], timers = {}, pushes = {}
    PROVE  Gathered
  BY DEF Gathered, Accounted, Timed, TimersTell, Gathering

LEMMA InitInv == Init => Inv
<1> SUFFICES ASSUME Init PROVE Inv
  OBVIOUS
<1>1. TypeOK
  BY NeverType, IdleType DEF Init, TypeOK
<1> QED
  BY <1>1, Nothing DEF Init, Inv, StoppedClean, Remembered

LEMMA StartStep == ASSUME Inv, Start PROVE Inv'
<1>1. TypeOK'
  BY NeverType, IdleType DEF Inv, Start, TypeOK
<1>2. Gathered'
  BY DEF Start, Gathered, Accounted, Timed, TimersTell, Gathering
<1> QED
  BY <1>1, <1>2 DEF Start, Inv, StoppedClean, Remembered

LEMMA TickStep == ASSUME Inv, Tick PROVE Inv'
<1>0. \A b \in Batches : first[b] \in 0 .. Max /\ last[b] \in 0 .. Max /\ last[b] <= first[b]
  BY FirstBound DEF Inv, Gathered, Timed
<1>1. \A b \in Batches :
        /\ first'[b] = IF Gathering(b) THEN first[b] + 1 ELSE 0
        /\ last'[b] = IF Gathering(b) THEN last[b] + 1 ELSE 0
  BY <1>0, TimesAssumption DEF Tick, Aged
<1>2. timers' = {[t EXCEPT !.left = t.left - 1] : t \in timers} /\ UNCHANGED <<batches, pushes>>
  BY DEF Tick
<1>3. \A t \in timers : t \in Timer /\ t.left \in 1 .. Max
  BY DEF Inv, TypeOK, Tick, Timer
<1>4. TypeOK'
  <2>1. timers' \subseteq Timer
    BY <1>2, <1>3, TimesAssumption DEF Timer
  <2>2. first' \in [Batches -> Nat] /\ last' \in [Batches -> Nat]
    BY AgedType DEF Tick, Inv, TypeOK
  <2>3. seen' \in [Stuck -> 0 .. Never] /\ said' \in [Stuck -> 0 .. Never]
    BY OlderType DEF Tick, Inv, TypeOK
  <2> QED
    BY <2>1, <2>2, <2>3 DEF Tick, Inv, TypeOK
<1>5. Gathered'
  <2>1. Accounted'
    BY DEF Tick, Inv, Gathered, Accounted
  <2>2. Timed'
    <3>1. \A t \in timers' : Gathering(t.batch)'
      BY <1>2, <1>3 DEF Inv, Gathered, Timed, Gathering, Timer
    <3>2. ASSUME NEW b \in Batches
          PROVE  /\ last'[b] <= first'[b]
                 /\ Gathering(b)' => \E t \in timers' : t.batch = b
                 /\ ~Gathering(b)' => first'[b] = 0
      <4>1. last'[b] <= first'[b] /\ (~Gathering(b)' => first'[b] = 0)
        BY <1>0, <1>1, <1>2 DEF Gathering
      <4>2. ASSUME Gathering(b)' PROVE \E t \in timers' : t.batch = b
        <5>1. PICK t \in timers : t.batch = b
          BY <1>2, <4>2 DEF Inv, Gathered, Timed, Gathering
        <5>2. [t EXCEPT !.left = t.left - 1] \in timers'
          BY <1>2, <5>1
        <5> QED
          BY <1>3, <5>1, <5>2 DEF Timer
      <4> QED
        BY <4>1, <4>2
    <3> QED
      BY <3>1, <3>2 DEF Timed
  <2>3. TimersTell'
    <3> SUFFICES ASSUME NEW t \in timers
                 PROVE  LET u == [t EXCEPT !.left = t.left - 1]
                        IN  /\ u.left + first'[u.batch] <= Max
                            /\ \/ u.left + last'[u.batch] >= Quiet
                               \/ u.left + first'[u.batch] >= Max
      BY <1>2 DEF TimersTell
    <3> DEFINE u == [t EXCEPT !.left = t.left - 1]
    <3>1. u.left = t.left - 1 /\ u.batch = t.batch /\ t.batch \in Batches /\ Gathering(t.batch)
      BY <1>3 DEF Timer, Inv, Gathered, Timed
    <3>2. /\ t.left + first[t.batch] <= Max
          /\ t.left + last[t.batch] >= Quiet \/ t.left + first[t.batch] >= Max
      BY DEF Inv, Gathered, TimersTell
    <3> QED
      BY <1>0, <1>1, <1>3, <3>1, <3>2, TimesAssumption
  <2> QED
    BY <2>1, <2>2, <2>3 DEF Gathered
<1>6. StoppedClean' /\ Remembered'
  BY DEF Tick, Inv, StoppedClean, Remembered
<1> QED
  BY <1>4, <1>5, <1>6 DEF Inv

LEMMA AddStep == ASSUME Inv, NEW e \in Episodes, AddEpisodes(e) PROVE Inv'
<1> DEFINE b == e.batch
           age == IF Gathering(b) THEN first[b] ELSE 0
           timer == [batch |-> b, left |-> Wait(age)]
<1>1. /\ b \in Batches
      /\ batches' = [batches EXCEPT ![b] = @ \cup {e}]
      /\ first' = [first EXCEPT ![b] = age]
      /\ last' = [last EXCEPT ![b] = 0]
      /\ timers' = {t \in timers : t.batch # b} \cup {timer}
      /\ posted' = posted \cup {e} /\ e \notin posted
      /\ UNCHANGED <<phase, pushes, marks, call, ended>>
  BY DEF AddEpisodes, RestartTimer, Batches
<1>2. age \in 0 .. Max
  BY <1>1, FirstBound, TimesAssumption
<1>3. timer \in Timer
  BY <1>1, <1>2, WaitType, TimesAssumption DEF Timer
<1> HIDE DEF age
<1>4. TypeOK'
  <2>1. timers' \subseteq Timer /\ batches' \in [Batches -> SUBSET Episodes]
    BY <1>1, <1>3 DEF Inv, TypeOK
  <2>2. first' \in [Batches -> Nat] /\ last' \in [Batches -> Nat]
    BY <1>1, <1>2, TimesAssumption DEF Inv, TypeOK
  <2>3. kept' \subseteq posted'
    BY DEF AddEpisodes, Inv, TypeOK
  <2> QED
    BY <1>1, <2>1, <2>2, <2>3 DEF Inv, TypeOK, marks
<1>5. Gathered'
  <2>0. \A x \in Batches : batches'[x] = IF x = b THEN batches[b] \cup {e} ELSE batches[x]
    BY <1>1 DEF Inv, TypeOK
  <2>1. Accounted'
    <3>1. ended \subseteq posted
      BY DEF Inv, TypeOK
    <3> QED
      BY <1>1, <2>0, <3>1 DEF Inv, Gathered, Accounted
  <2>2. \A x \in Batches :
          /\ first'[x] = IF x = b THEN age ELSE first[x]
          /\ last'[x] = IF x = b THEN 0 ELSE last[x]
    BY <1>1 DEF Inv, TypeOK
  <2>3. \A t \in timers : t.batch \in Batches
    BY DEF Inv, TypeOK, Timer
  <2>4. Timed'
    <3>1. \A t \in timers' : Gathering(t.batch)'
      BY <1>1, <2>0, <2>3 DEF Inv, Gathered, Timed, Gathering
    <3>2. \A x \in Batches : last'[x] <= first'[x]
      BY <1>2, <2>2, TimesAssumption DEF Inv, Gathered, Timed
    <3>3. \A x \in Batches : Gathering(x)' => \E t \in timers' : t.batch = x
      <4> SUFFICES ASSUME NEW x \in Batches, Gathering(x)' PROVE \E t \in timers' : t.batch = x
        OBVIOUS
      <4>1. CASE x = b
        <5>1. timer.batch = b
          OBVIOUS
        <5>2. timer \in timers'
          <6> HIDE DEF timer
          <6> QED
            BY <1>1
        <5> HIDE DEF timer
        <5> QED
          BY <4>1, <5>1, <5>2
      <4>2. CASE x # b
        <5>1. PICK t \in timers : t.batch = x
          BY <2>0, <4>2 DEF Inv, Gathered, Timed, Gathering
        <5> QED
          BY <1>1, <4>2, <5>1
      <4> QED
        BY <4>1, <4>2
    <3>4. \A x \in Batches : ~Gathering(x)' => first'[x] = 0
      BY <2>0, <2>2 DEF Inv, Gathered, Timed, Gathering
    <3> QED
      BY <3>1, <3>2, <3>3, <3>4 DEF Timed
  <2>5. TimersTell'
    <3> SUFFICES ASSUME NEW t \in timers'
                 PROVE  /\ t.left + first'[t.batch] <= Max
                        /\ t.left + last'[t.batch] >= Quiet \/ t.left + first'[t.batch] >= Max
      BY DEF TimersTell
    <3>1. CASE t = timer
      <4>1. t.left = Wait(age) /\ t.batch = b
        BY <3>1
      <4>2. Wait(age) \in 0 .. Max
        BY <1>2, WaitType, TimesAssumption
      <4>3. Wait(age) + age <= Max /\ (Wait(age) >= Quiet \/ Wait(age) + age >= Max)
        BY <1>2, WaitTells
      <4> HIDE DEF timer
      <4> QED
        BY <1>1, <1>2, <2>2, <4>1, <4>2, <4>3, TimesAssumption
    <3>2. CASE t \in timers /\ t.batch # b
      BY <2>2, <2>3, <3>2 DEF Inv, Gathered, TimersTell
    <3> QED
      BY <1>1, <3>1, <3>2
  <2> QED
    BY <2>1, <2>4, <2>5 DEF Gathered
<1>6. StoppedClean'
  BY DEF AddEpisodes, Running, Inv, StoppedClean
<1>7. Remembered'
  BY <1>1 DEF Inv, Remembered, marks
<1> QED
  BY <1>4, <1>5, <1>6, <1>7 DEF Inv

\* What flushing some batches that have episodes does to the rest.
LEMMA FlushStep ==
    ASSUME Inv, NEW flushed \in SUBSET Batches, \A b \in flushed : Gathering(b),
           NEW by \in {"timer", "stop"}, Flush(flushed, by),
           UNCHANGED <<marks, call, posted, ended>>, kept' \subseteq posted
    PROVE  /\ phase' \in {"up", "stopping", "exited", "killed"} => TypeOK'
           /\ Gathered'
           /\ \A b \in Batches : batches'[b] = IF b \in flushed THEN {} ELSE batches[b]
<1>1. /\ pushes' = pushes \cup {[eps |-> batches[b], by |-> by] : b \in flushed}
      /\ timers' = {t \in timers : t.batch \notin flushed}
      /\ \A b \in Batches :
           /\ batches'[b] = IF b \in flushed THEN {} ELSE batches[b]
           /\ first'[b] = IF b \in flushed THEN 0 ELSE first[b]
           /\ last'[b] = IF b \in flushed THEN 0 ELSE last[b]
  BY DEF Flush
<1>2. phase' \in {"up", "stopping", "exited", "killed"} => TypeOK'
  <2>1. /\ batches' \in [Batches -> SUBSET Episodes]
        /\ first' \in [Batches -> Nat] /\ last' \in [Batches -> Nat]
    BY DEF Flush, Inv, TypeOK
  <2>2. timers' \subseteq Timer
    BY <1>1 DEF Inv, TypeOK
  <2>3. pushes' \subseteq Push
    BY <1>1 DEF Inv, TypeOK, Push
  <2> QED
    BY <2>1, <2>2, <2>3 DEF Inv, TypeOK, marks
<1>3. Accounted'
  <2>1. \A b \in Batches : batches'[b] \subseteq {e \in posted \ ended : e.batch = b}
    BY <1>1 DEF Inv, Gathered, Accounted
  <2>2. \A p \in pushes' : p.eps \subseteq posted \ ended
    BY <1>1 DEF Inv, Gathered, Accounted
  <2>3. \A x, y \in Batches : x # y => batches[x] \cap batches[y] = {}
    BY DEF Inv, Gathered, Accounted
  <2>4. \A p \in pushes', b \in Batches : p.eps \cap batches'[b] = {}
    BY <1>1, <2>3 DEF Inv, Gathered, Accounted
  <2>5. ASSUME NEW p \in pushes', NEW q \in pushes', p # q PROVE p.eps \cap q.eps = {}
    <3>1. CASE p \in pushes /\ q \in pushes
      BY <2>5, <3>1 DEF Inv, Gathered, Accounted
    <3>2. CASE p \notin pushes /\ q \in pushes
      BY <1>1, <3>2 DEF Inv, Gathered, Accounted
    <3>3. CASE p \in pushes /\ q \notin pushes
      BY <1>1, <3>3 DEF Inv, Gathered, Accounted
    <3>4. CASE p \notin pushes /\ q \notin pushes
      <4>1. PICK x \in flushed : p = [eps |-> batches[x], by |-> by]
        BY <1>1, <3>4
      <4>2. PICK y \in flushed : q = [eps |-> batches[y], by |-> by]
        BY <1>1, <3>4
      <4>3. x # y
        BY <2>5, <4>1, <4>2
      <4> QED
        BY <2>3, <4>1, <4>2, <4>3
    <3> QED
      BY <3>1, <3>2, <3>3, <3>4
  <2> QED
    BY <2>1, <2>2, <2>4, <2>5 DEF Accounted
<1>4. \A t \in timers : t.batch \in Batches
  BY DEF Inv, TypeOK, Timer
<1>5. Timed'
  <2>1. \A t \in timers' : Gathering(t.batch)'
    BY <1>1, <1>4 DEF Inv, Gathered, Timed, Gathering
  <2>2. ASSUME NEW b \in Batches
        PROVE  /\ last'[b] <= first'[b]
               /\ Gathering(b)' => \E t \in timers' : t.batch = b
               /\ ~Gathering(b)' => first'[b] = 0
    BY <1>1 DEF Inv, Gathered, Timed, Gathering
  <2> QED
    BY <2>1, <2>2 DEF Timed
<1>6. TimersTell'
  BY <1>1, <1>4 DEF Inv, Gathered, TimersTell
<1> QED
  BY <1>1, <1>2, <1>3, <1>5, <1>6 DEF Gathered

LEMMA TimerStep == ASSUME Inv, NEW t \in timers, TimerFires(t) PROVE Inv'
<1> DEFINE flushed == {t.batch} \cap {b \in Batches : Gathering(b)}
<1>1. /\ flushed \in SUBSET Batches /\ \A b \in flushed : Gathering(b)
      /\ Flush(flushed, "timer")
      /\ UNCHANGED <<phase, marks, call, posted, ended, kept>>
      /\ kept' \subseteq posted
  BY DEF TimerFires, Inv, TypeOK
<1> HIDE DEF flushed
<1>2. /\ phase' \in {"up", "stopping", "exited", "killed"} => TypeOK'
      /\ Gathered'
      /\ \A b \in Batches : batches'[b] = IF b \in flushed THEN {} ELSE batches[b]
  BY <1>1, FlushStep
<1>3. phase' \in {"up", "stopping", "exited", "killed"}
  BY <1>1 DEF Inv, TypeOK
<1>4. pushes \subseteq pushes'
  BY <1>1 DEF Flush
<1>5. StoppedClean'
  BY <1>1, <1>4 DEF Inv, StoppedClean
<1> QED
  BY <1>1, <1>2, <1>3, <1>5 DEF Inv, Remembered, marks

LEMMA StopStep == ASSUME Inv, Stop PROVE Inv'
<1> DEFINE flushed == {b \in Batches : Gathering(b)}
<1>1. /\ flushed \in SUBSET Batches /\ \A b \in flushed : Gathering(b)
      /\ Flush(flushed, "stop")
      /\ phase' = "stopping"
      /\ UNCHANGED <<marks, call, posted, ended>>
      /\ kept' = UNION {batches[b] : b \in Batches}
  BY DEF Stop, FlushAll
<1>2. kept' \subseteq posted
  BY <1>1 DEF Inv, Gathered, Accounted
<1>3. TypeOK' /\ Gathered'
  <2> HIDE DEF flushed
  <2> QED
    BY <1>1, <1>2, FlushStep
<1>4. ASSUME NEW e \in kept' PROVE \E p \in pushes' : p.by = "stop" /\ e \in p.eps
  <2>1. PICK b \in Batches : e \in batches[b]
    BY <1>1
  <2>2. b \in flushed
    BY <2>1 DEF Gathering
  <2>3. [eps |-> batches[b], by |-> "stop"] \in pushes'
    BY <1>1, <2>2 DEF Flush
  <2> QED
    BY <2>1, <2>3
<1>5. StoppedClean'
  BY <1>1, <1>4 DEF StoppedClean
<1> QED
  BY <1>1, <1>3, <1>5 DEF Inv, Remembered, marks

LEMMA PushEndsStep == ASSUME Inv, NEW p \in pushes, PushEnds(p) PROVE Inv'
<1>1. /\ pushes' = pushes \ {p} /\ ended' = ended \cup p.eps
      /\ UNCHANGED <<phase, gathering, marks, call, posted, kept>>
  BY DEF PushEnds
<1>2. TypeOK'
  BY <1>1 DEF Inv, Gathered, Accounted, TypeOK, gathering, marks
<1>3. Accounted'
  BY <1>1 DEF Inv, Gathered, Accounted, gathering
<1>4. StoppedClean'
  BY <1>1 DEF Inv, StoppedClean, PushEnds, Running
<1> QED
  BY <1>1, <1>2, <1>3, <1>4 DEF Inv, Gathered, Timed, TimersTell, Gathering,
                                Remembered, gathering, marks

LEMMA PostStep == ASSUME Inv, NEW e \in Episodes, PostPlainly(e) PROVE Inv'
<1>1. /\ e \notin posted /\ posted' = posted \cup {e} /\ ended' = ended \cup {e}
      /\ UNCHANGED <<phase, gathering, pushes, marks, call, kept>>
  BY DEF PostPlainly
<1>2. TypeOK'
  BY <1>1 DEF Inv, TypeOK, gathering, marks
<1>3. Accounted'
  BY <1>1 DEF Inv, Gathered, Accounted, gathering
<1> QED
  BY <1>1, <1>2, <1>3 DEF Inv, Gathered, Timed, TimersTell, Gathering, StoppedClean,
                          Remembered, gathering, marks

\* A step of the process's that leaves the batches alone.
LEMMA OtherStep ==
    ASSUME Inv, UNCHANGED <<gathering, pushes, posted, ended, kept>>,
           phase' \in {"up", "stopping", "exited", "killed"},
           StoppedClean',
           call' \in [Calls -> [pc: {"idle", "reasons", "publish"}, id: Ids]],
           seen' \in [Stuck -> 0 .. Never], said' \in [Stuck -> 0 .. Never],
           cleared' \subseteq Stuck, Remembered'
    PROVE  Inv'
<1>1. TypeOK'
  BY DEF Inv, TypeOK, gathering
<1>2. Gathered'
  BY DEF Inv, Gathered, Accounted, Timed, TimersTell, Gathering, gathering
<1> QED
  BY <1>1, <1>2 DEF Inv

LEMMA StuckStep == ASSUME Inv, NEW c \in Calls, NEW d \in Ids, StuckImport(c, d) PROVE Inv'
<1>1. call' \in [Calls -> [pc: {"idle", "reasons", "publish"}, id: Ids]]
  BY DEF StuckImport, Announce, Inv, TypeOK
<1>2. /\ seen' \in [Stuck -> 0 .. Never] /\ said' \in [Stuck -> 0 .. Never]
      /\ cleared' \subseteq Stuck /\ Remembered'
  <2>1. CASE d = NoId
    BY <2>1 DEF StuckImport, Mark, marks, Inv, TypeOK, Remembered
  <2>2. CASE d # NoId
    <3>1. 0 \in 0 .. Never
      BY TimesAssumption DEF Never
    <3>2. \E full \in BOOLEAN :
            /\ seen' = IF full THEN [x \in Stuck |-> Never] ELSE [seen EXCEPT ![d] = 0]
            /\ said' = [said EXCEPT ![d] = 0]
            /\ cleared' = IF full THEN Stuck ELSE cleared \ {d}
      BY <2>2 DEF StuckImport, Mark
    <3> QED
      BY <3>1, <3>2, NeverType DEF Inv, TypeOK, Remembered
  <2> QED
    BY <2>1, <2>2
<1>3. StoppedClean'
  BY DEF StuckImport, Inv, StoppedClean
<1> QED
  BY <1>1, <1>2, <1>3, OtherStep DEF StuckImport, Inv, TypeOK

LEMMA NextInv == Inv /\ [Next]_vars => Inv'
<1> SUFFICES ASSUME Inv, [Next]_vars PROVE Inv'
  OBVIOUS
<1>1. CASE Tick
  BY <1>1, TickStep
<1>2. CASE \E e \in Episodes : AddEpisodes(e) \/ PostPlainly(e)
  BY <1>2, AddStep, PostStep
<1>3. CASE \E t \in timers : TimerFires(t)
  BY <1>3, TimerStep
<1>4. CASE \E p \in pushes : PushEnds(p)
  BY <1>4, PushEndsStep
<1>5. CASE \E c \in Calls : Film(c) \/ Reasons(c) \/ Published(c)
  <2>1. call' \in [Calls -> [pc: {"idle", "reasons", "publish"}, id: Ids]]
    BY <1>5, IdleType DEF Film, Reasons, Published, Announce, Inv, TypeOK, Ids
  <2>2. UNCHANGED <<phase, gathering, pushes, marks, posted, ended, kept>>
    BY <1>5 DEF Film, Reasons, Published
  <2> QED
    BY <2>1, <2>2, OtherStep DEF Inv, TypeOK, StoppedClean, Remembered, marks
<1>6. CASE \E c \in Calls, d \in Ids : StuckImport(c, d)
  BY <1>6, StuckStep
<1>7. CASE Stop
  BY <1>7, StopStep
<1>8. CASE Exit \/ Kill
  <2>1. StoppedClean'
    BY <1>8 DEF Exit, Kill, Inv, StoppedClean
  <2> QED
    BY <1>8, <2>1, OtherStep DEF Exit, Kill, Inv, TypeOK, Remembered, marks
<1>9. CASE Start
  BY <1>9, StartStep
<1>10. CASE UNCHANGED vars
  BY <1>10, OtherStep DEF vars, Inv, TypeOK, StoppedClean, Remembered, marks
<1> QED
  BY <1>1, <1>2, <1>3, <1>4, <1>5, <1>6, <1>7, <1>8, <1>9, <1>10 DEF Next

THEOREM Invariance == Spec => []Inv
  BY InitInv, NextInv, PTL DEF Spec

\* The types hold and no timer is set past MAX_MS (addEpisodes).
THEOREM TypeCorrect == Spec => []TypeOK
<1>1. Inv => TypeOK
  BY DEF Inv
<1> QED
  BY <1>1, Invariance, PTL

\* Every episode is announced in one push (flush).
THEOREM OnePushForEach == Spec => []OnePushEach
<1>1. Inv => OnePushEach
  BY DEF Inv, Gathered, Accounted, OnePushEach
<1> QED
  BY <1>1, Invariance, PTL

\* No batch is kept open longer than MAX_MS (addEpisodes).
THEOREM MaxIsKept == Spec => []NeverPastMax
<1>1. Inv => NeverPastMax
  BY FirstBound DEF NeverPastMax
<1> QED
  BY <1>1, Invariance, PTL

\* No push is sent while its series still gathers and has time (addEpisodes).
THEOREM NoPushTooSoon == Spec => []SentWhenQuietOrFull
<1>1. Inv => SentWhenQuietOrFull
  <2> SUFFICES ASSUME Inv, NEW t \in timers, t.left = 0
               PROVE  /\ Gathering(t.batch)
                      /\ last[t.batch] >= Quiet \/ first[t.batch] >= Max
    BY DEF SentWhenQuietOrFull
  <2>1. t.batch \in Batches /\ first[t.batch] \in Nat /\ last[t.batch] \in Nat
    BY DEF Inv, TypeOK, Timer
  <2>2. t.left + last[t.batch] >= Quiet \/ t.left + first[t.batch] >= Max
    BY DEF Inv, Gathered, TimersTell
  <2>3. last[t.batch] >= Quiet \/ first[t.batch] >= Max
    BY <2>1, <2>2, TimesAssumption
  <2> QED
    BY <2>3 DEF Inv, Gathered, Timed
<1> QED
  BY <1>1, Invariance, PTL

\* A stop ends only when the push of every episode still gathered at the signal
\* is over (flushAll).
THEOREM StopAwaitsItsPushes == Spec => []StopFlushes
<1>1. Inv => StopFlushes
  BY DEF Inv, StoppedClean, StopFlushes
<1> QED
  BY <1>1, Invariance, PTL

\* No download is announced stuck twice within a day (handleArrEvent).
THEOREM StuckToldOnceADay == Spec => StuckOnceADay
<1> DEFINE Told ==
      \A c \in Calls, d \in Stuck :
        call[c] = Idle /\ call'[c].pc = "reasons" /\ call'[c].id = d
          => said[d] >= Day \/ d \in cleared
<1>1. Inv /\ [Next]_vars => [Told]_vars
  <2> SUFFICES ASSUME Inv, Next, NEW c \in Calls, NEW d \in Stuck,
                      call[c] = Idle, call'[c].pc = "reasons", call'[c].id = d
               PROVE  said[d] >= Day \/ d \in cleared
    OBVIOUS
  <2>0. call[c].pc = "idle" /\ d # NoId
    BY NoIdAssumption DEF Idle
  <2>1. StuckImport(c, d)
    <3>1. CASE \E x \in Calls, y \in Ids : StuckImport(x, y)
      <4>1. PICK x \in Calls, y \in Ids : StuckImport(x, y)
        BY <3>1
      <4>2. x = c /\ y = d
        BY <2>0, <4>1 DEF StuckImport, Announce, Inv, TypeOK
      <4> QED
        BY <4>1, <4>2
    <3>2. CASE \E x \in Calls : Film(x) \/ Reasons(x) \/ Published(x)
      BY <2>0, <3>2 DEF Film, Reasons, Published, Announce, Idle, Inv, TypeOK
    <3>3. CASE Start
      BY <3>3 DEF Start, Idle
    <3>4. CASE \/ Tick \/ Stop \/ Exit \/ Kill
               \/ \E e \in Episodes : AddEpisodes(e) \/ PostPlainly(e)
               \/ \E t \in timers : TimerFires(t)
               \/ \E p \in pushes : PushEnds(p)
      <4>1. UNCHANGED call
        BY <3>4 DEF Tick, Stop, Exit, Kill, AddEpisodes, PostPlainly, TimerFires, PushEnds
      <4> QED
        BY <2>0, <4>1
    <3> QED
      BY <3>1, <3>2, <3>3, <3>4 DEF Next
  <2>2. ~(seen[d] < Day) /\ seen[d] \in 0 .. Never
    BY <2>1 DEF StuckImport, Recently, Inv, TypeOK
  <2> QED
    BY <2>2, NeverType, TimesAssumption DEF Inv, Remembered, Never
<1> QED
  BY <1>1, Invariance, PTL DEF Spec, StuckOnceADay

-----------------------------------------------------------------------------
(* The wording of a push.                                                  *)

\* Of subsets of a finite set there is one that contains no other.
LEMMA SmallestSet ==
    ASSUME NEW S, IsFiniteSet(S), NEW F, F # {}, \A T \in F : T \subseteq S
    PROVE  \E m \in F : \A T \in F : T \subseteq m => T = m
<1>1. F \subseteq FiniteSubsetsOf(S)
  BY FS_FiniteSubsetsOfFinite
<1>2. IsWellFoundedOn(StrictSubsetOrdering(S), FiniteSubsetsOf(S))
  BY FS_StrictSubsetOrderingWellFounded
<1>3. PICK m \in F : \A T \in F : <<T, m>> \notin StrictSubsetOrdering(S)
  BY <1>1, <1>2, WFMin
<1>4. ASSUME NEW T \in F, T \subseteq m, T # m PROVE FALSE
  <2>1. <<T, m>> \in StrictSubsetOrdering(S)
    BY <1>4 DEF StrictSubsetOrdering
  <2> QED
    BY <1>3, <2>1
<1> QED
  BY <1>4

\* A run of numbers has a last one ...
LEMMA RunEnds ==
    ASSUME NEW numbers \in SUBSET Nat, IsFiniteSet(numbers), NEW n \in numbers
    PROVE  \E b \in numbers : n <= b /\ n .. b \subseteq numbers /\ b + 1 \notin numbers
<1> DEFINE above(b) == {x \in numbers : b < x}
           ends == {b \in numbers : n <= b /\ n .. b \subseteq numbers}
           F == {above(b) : b \in ends}
<1>1. \A T \in F : T \subseteq numbers
  OBVIOUS
<1>2. F # {}
  <2>1. n \in ends
    OBVIOUS
  <2> QED
    BY <2>1
<1>3. PICK least \in F : \A T \in F : T \subseteq least => T = least
  <2> HIDE DEF F
  <2> QED
    BY <1>1, <1>2, SmallestSet
<1>4. PICK b \in ends : \A c \in ends : above(c) \subseteq above(b) => above(c) = above(b)
  <2>1. PICK b \in ends : least = above(b)
    OBVIOUS
  <2>2. \A c \in ends : above(c) \in F
    OBVIOUS
  <2> HIDE DEF F, above, ends
  <2> QED
    BY <1>3, <2>1, <2>2
<1>5. ASSUME b + 1 \in numbers PROVE FALSE
  <2>1. n .. (b + 1) \subseteq numbers /\ n <= b + 1
    <3>1. n \in Nat /\ b \in Nat /\ n <= b /\ n .. b \subseteq numbers
      BY <1>4
    <3>2. ASSUME NEW x \in n .. (b + 1) PROVE x \in n .. b \/ x = b + 1
      BY <3>1
    <3> QED
      BY <1>5, <3>1, <3>2
  <2>2. b + 1 \in ends
    BY <1>5, <2>1
  <2>3. above(b + 1) \subseteq above(b)
    <3>1. ASSUME NEW x \in Nat, b + 1 < x PROVE b < x
      <4>1. b \in Nat
        OBVIOUS
      <4> QED
        BY <3>1, <4>1
    <3> QED
      BY <3>1
  <2>4. b + 1 \in above(b) /\ b + 1 \notin above(b + 1)
    BY <1>5
  <2> QED
    BY <1>4, <2>2, <2>3, <2>4
<1> QED
  BY <1>4, <1>5

\* ... and a first.
LEMMA RunBegins ==
    ASSUME NEW numbers \in SUBSET Nat, IsFiniteSet(numbers), NEW n \in numbers
    PROVE  \E a \in numbers :
             a <= n /\ a .. n \subseteq numbers /\ \A m \in numbers : m + 1 # a
<1> DEFINE below(a) == {x \in numbers : x < a}
           begins == {a \in numbers : a <= n /\ a .. n \subseteq numbers}
           F == {below(a) : a \in begins}
<1>1. \A T \in F : T \subseteq numbers
  OBVIOUS
<1>2. F # {}
  <2>1. n \in begins
    OBVIOUS
  <2> QED
    BY <2>1
<1>3. PICK least \in F : \A T \in F : T \subseteq least => T = least
  <2> HIDE DEF F
  <2> QED
    BY <1>1, <1>2, SmallestSet
<1>4. PICK a \in begins : \A c \in begins : below(c) \subseteq below(a) => below(c) = below(a)
  <2>1. PICK a \in begins : least = below(a)
    OBVIOUS
  <2>2. \A c \in begins : below(c) \in F
    OBVIOUS
  <2> HIDE DEF F, below, begins
  <2> QED
    BY <1>3, <2>1, <2>2
<1>5. ASSUME NEW m \in numbers, m + 1 = a PROVE FALSE
  <2>1. m .. n \subseteq numbers /\ m <= n
    <3>1. n \in Nat /\ m \in Nat /\ m + 1 <= n /\ (m + 1) .. n \subseteq numbers
      BY <1>4, <1>5
    <3>2. ASSUME NEW x \in m .. n PROVE x \in (m + 1) .. n \/ x = m
      BY <3>1
    <3> QED
      BY <3>1, <3>2
  <2>2. m \in begins
    BY <2>1
  <2>3. below(m) \subseteq below(a)
    <3>1. ASSUME NEW x \in Nat, x < m PROVE x < a
      <4>1. m \in Nat
        OBVIOUS
      <4> QED
        BY <1>5, <3>1, <4>1
    <3> QED
      BY <3>1
  <2>4. m \in below(a) /\ m \notin below(m)
    <3>1. m \in Nat
      OBVIOUS
    <3>2. m < a /\ ~(m < m)
      BY <1>5, <3>1
    <3> QED
      BY <3>2
  <2> QED
    BY <1>4, <2>2, <2>3, <2>4
<1> QED
  BY <1>4, <1>5

\* The ranges cover the numbers and nothing else.
LEMMA RangesCover ==
    ASSUME NEW numbers \in SUBSET Nat, IsFiniteSet(numbers), NEW n \in Nat
    PROVE  n \in numbers <=> \E r \in Ranges(numbers) : r[1] <= n /\ n <= r[2]
<1>1. ASSUME NEW r \in Ranges(numbers), r[1] <= n, n <= r[2] PROVE n \in numbers
  <2>1. r[1] .. r[2] \subseteq numbers /\ r[1] \in Nat /\ r[2] \in Nat
    BY DEF Ranges
  <2> QED
    BY <1>1, <2>1
<1>2. ASSUME n \in numbers
      PROVE  \E r \in Ranges(numbers) : r[1] <= n /\ n <= r[2]
  <2>1. PICK a \in numbers :
          a <= n /\ a .. n \subseteq numbers /\ \A m \in numbers : m + 1 # a
    BY <1>2, RunBegins
  <2>2. PICK b \in numbers : n <= b /\ n .. b \subseteq numbers /\ b + 1 \notin numbers
    BY <1>2, RunEnds
  <2>3. a .. b \subseteq numbers /\ a <= b
    BY <2>1, <2>2
  <2>4. <<a, b>> \in Ranges(numbers)
    BY <2>1, <2>2, <2>3 DEF Ranges
  <2> QED
    BY <2>1, <2>2, <2>4
<1> QED
  BY <1>1, <1>2

\* A message names the episodes it was made for.
LEMMA MessageSays ==
    ASSUME NEW eps \in SUBSET Episodes, IsFiniteSet(eps)
    PROVE  Mentioned(Message(eps)) = {<<e.season, e.number>> : e \in eps}
<1> DEFINE of(s) == {x \in eps : x.season = s}
           numbers(s) == {e.number : e \in of(s)}
           seasons == {e.season : e \in eps}
<1>1. ASSUME NEW s
      PROVE  numbers(s) \in SUBSET Nat /\ IsFiniteSet(numbers(s))
  <2> DEFINE f == [e \in of(s) |-> e.number]
  <2>1. numbers(s) \in SUBSET Nat
    BY EpisodesAssumption
  <2>2. IsFiniteSet(of(s))
    <3>1. of(s) \in SUBSET eps
      OBVIOUS
    <3> QED
      BY <3>1, FS_Subset
  <2>3. f \in Surjection(of(s), numbers(s))
    BY DEF Surjection
  <2> HIDE DEF f, of, numbers
  <2> QED
    BY <2>1, <2>2, <2>3, FS_Surjection
<1>2. Message(eps) = [s \in seasons |-> Ranges(numbers(s))]
  BY DEF Message
<1>3. ASSUME NEW s \in seasons, NEW n \in Nat
      PROVE  (\E r \in Message(eps)[s] : r[1] <= n /\ n <= r[2]) <=> n \in numbers(s)
  <2> HIDE DEF numbers, seasons
  <2> QED
    BY <1>1, <1>2, <1>3, RangesCover
<1>4. \A e \in Episodes : e.number \in Nat
  BY EpisodesAssumption
<1>5. ASSUME NEW x \in Mentioned(Message(eps))
      PROVE  x \in {<<e.season, e.number>> : e \in eps}
  <2>1. /\ x \in seasons \X {e.number : e \in Episodes}
        /\ \E r \in Message(eps)[x[1]] : r[1] <= x[2] /\ x[2] <= r[2]
    BY <1>2 DEF Mentioned
  <2>2. x[1] \in seasons /\ x[2] \in Nat /\ x = <<x[1], x[2]>>
    BY <1>4, <2>1
  <2>3. x[2] \in numbers(x[1])
    BY <1>3, <2>1, <2>2
  <2>4. PICK e \in eps : e.season = x[1] /\ e.number = x[2]
    BY <2>3
  <2> QED
    BY <2>2, <2>4
<1>6. ASSUME NEW e \in eps
      PROVE  <<e.season, e.number>> \in Mentioned(Message(eps))
  <2>1. /\ e.season \in seasons /\ e.number \in Nat /\ e.number \in numbers(e.season)
        /\ e \in Episodes
    BY <1>4
  <2>2. \E r \in Message(eps)[e.season] : r[1] <= e.number /\ e.number <= r[2]
    BY <1>3, <2>1
  <2>3. DOMAIN Message(eps) = seasons
    BY <1>2
  <2> QED
    BY <2>1, <2>2, <2>3 DEF Mentioned
<1> QED
  BY <1>5, <1>6

\* Only so many episodes have been reported.
Few == IsFiniteSet(posted)

LEMMA FewPosted == Spec => []Few
<1>1. Init => Few
  BY FS_EmptySet DEF Init, Few
<1>2. Few /\ [Next]_vars => Few'
  <2> SUFFICES ASSUME IsFiniteSet(posted), [Next]_vars PROVE IsFiniteSet(posted')
    BY DEF Few
  <2>1. CASE \E e \in Episodes : AddEpisodes(e) \/ PostPlainly(e)
    <3>1. PICK e \in Episodes : posted' = posted \cup {e}
      BY <2>1 DEF AddEpisodes, PostPlainly
    <3> QED
      BY <3>1, FS_AddElement
  <2>2. CASE UNCHANGED posted
    BY <2>2
  <2> QED
    BY <2>1, <2>2
       DEF Next, vars, Tick, TimerFires, PushEnds, Film, Reasons, Published, StuckImport, Stop,
           Exit, Kill, Start
<1> QED
  BY <1>1, <1>2, PTL DEF Spec

\* Every push names exactly the episodes gathered for it, however many there are
\* and whatever their numbers (ranges, episodeMessage).
THEOREM NamesExactly == Spec => []SaysWhatItHas
<1>1. Inv /\ Few => SaysWhatItHas
  <2> SUFFICES ASSUME Inv, IsFiniteSet(posted), NEW p \in pushes
               PROVE  Mentioned(Message(p.eps)) = {<<e.season, e.number>> : e \in p.eps}
    BY DEF SaysWhatItHas, Few
  <2>1. p.eps \in SUBSET Episodes /\ p.eps \in SUBSET posted
    BY DEF Inv, TypeOK, Gathered, Accounted, Push
  <2>2. IsFiniteSet(p.eps)
    BY <2>1, FS_Subset
  <2> QED
    BY <2>1, <2>2, MessageSays
<1> QED
  BY <1>1, Invariance, FewPosted, PTL

-----------------------------------------------------------------------------
(* Late requests.                                                          *)

ProgressKnown ==
    /\ percent \in [Stale!Keys -> Stale!Progress]
    /\ lastPercent \in [Stale!Keys -> Stale!Progress]
    /\ view \in [Stale!Keys -> Stale!Progress]
    /\ run.downloads \in [Stale!Keys -> Stale!Progress]

\* The tick before is the last look, unless a view came after it.
LastLook == \A k \in Stale!Keys : ticked[k] = Stale!None \/ ticked[k] = lastPercent[k]

\* What was told is on record: in the file or, while telling, in the list that
\* will replace it.
OnRecord ==
    /\ told \subseteq (IF Stale!At("tell") THEN run.notified ELSE notified) \cup excused
    /\ Stale!At("tell") => run.todo \cap run.notified = {}
    /\ ~Stale!At("tell") => run.notified = {}

StaleInv == ProgressKnown /\ LastLook /\ OnRecord

-----------------------------------------------------------------------------
LEMMA NothingType ==
    /\ Stale!Nothing \in [Stale!Keys -> Stale!Progress]
    /\ \A k \in Stale!Keys : Stale!Nothing[k] = Stale!None
  BY DEF Stale!Nothing, Stale!Progress, Stale!None

LEMMA LookedType ==
    ASSUME NEW downloads \in [Stale!Keys -> Stale!Progress],
           lastPercent \in [Stale!Keys -> Stale!Progress]
    PROVE  Stale!Looked(downloads) \in [Stale!Keys -> Stale!Progress]
  BY DEF Stale!Looked

LEMMA InitStale == Stale!Init => StaleInv
<1> SUFFICES ASSUME Stale!Init PROVE StaleInv
  OBVIOUS
<1>1. /\ percent = Stale!Nothing /\ lastPercent = Stale!Nothing
      /\ view = Stale!Nothing /\ ticked = Stale!Nothing
      /\ run = Stale!Idle /\ told = {}
  BY DEF Stale!Init
<1>2. run.downloads = Stale!Nothing /\ run.pc = "idle" /\ run.notified = {}
  BY <1>1 DEF Stale!Idle
<1> QED
  BY <1>1, <1>2, NothingType DEF StaleInv, ProgressKnown, LastLook, OnRecord, Stale!At

LEMMA WorldStale == ASSUME StaleInv, Stale!World PROVE StaleInv'
<1>1. /\ told' \subseteq told /\ excused' = excused \cap told'
      /\ UNCHANGED <<notified, lastPercent, run, view, ticked>>
  BY DEF Stale!World
<1>2. percent' \in [Stale!Keys -> Stale!Progress]
  <2>1. CASE \/ Stale!DayPasses \/ \E r \in Requests : Stale!Leaves(r)
             \/ \E r \in Films : Stale!Announced(r)
    BY <2>1 DEF Stale!DayPasses, Stale!Leaves, Stale!Announced, StaleInv, ProgressKnown
  <2>2. CASE \E r \in Requests : Stale!Arrives(r)
    <3>1. PICK r \in Requests : percent' = [percent EXCEPT ![KeyOf[r]] = Stale!None]
      BY <2>2 DEF Stale!Arrives
    <3>2. Stale!None \in Stale!Progress
      BY DEF Stale!Progress, Stale!None
    <3> QED
      BY <3>1, <3>2 DEF StaleInv, ProgressKnown
  <2>3. CASE \E k \in Slow : Stale!Downloads(k)
    <3>1. PICK k \in Slow : percent[k] < Full /\ percent' = [percent EXCEPT ![k] = @ + 1]
      BY <2>3 DEF Stale!Downloads
    <3>2. k \in Stale!Keys => percent[k] + 1 \in Stale!Progress
      BY <3>1 DEF StaleInv, ProgressKnown, Stale!Progress, Stale!None
    <3> QED
      BY <3>1, <3>2 DEF StaleInv, ProgressKnown
  <2> QED
    BY <2>1, <2>2, <2>3 DEF Stale!World
<1> QED
  BY <1>1, <1>2 DEF StaleInv, ProgressKnown, LastLook, OnRecord, Stale!At

LEMMA TitlesStale == ASSUME StaleInv, Stale!Titles PROVE StaleInv'
<1>1. /\ lastPercent' = Stale!Looked(run.downloads) /\ ticked' = lastPercent'
      /\ Stale!At("titles") /\ run'.pc = "load"
      /\ run'.downloads = run.downloads /\ run'.notified = run.notified
      /\ UNCHANGED <<percent, notified, view, told, excused>>
  BY DEF Stale!Titles, Stale!world
<1>2. ProgressKnown'
  BY <1>1, LookedType DEF StaleInv, ProgressKnown
<1>3. LastLook' /\ OnRecord'
  BY <1>1 DEF StaleInv, LastLook, OnRecord, Stale!At
<1> QED
  BY <1>2, <1>3 DEF StaleInv

LEMMA LoadStale == ASSUME StaleInv, Stale!Load PROVE StaleInv'
<1>1. PICK known \in {notified, {}} :
        /\ run' = [run EXCEPT !.pc = "tell", !.downloads = Stale!Nothing, !.requests = {},
                              !.todo = @ \ Stale!Knows(known), !.notified = Stale!Knows(known)]
        /\ excused' = excused \cup (told \cap (notified \ (known \cap run.requests)))
  BY DEF Stale!Load
<1>2. /\ Stale!At("load") /\ UNCHANGED <<percent, notified, lastPercent, view, told, ticked>>
  BY DEF Stale!Load, Stale!world
<1>3. ProgressKnown' /\ LastLook'
  BY <1>1, <1>2, NothingType DEF StaleInv, ProgressKnown, LastLook
<1>4. OnRecord'
  BY <1>1, <1>2 DEF StaleInv, OnRecord, Stale!At, Stale!Knows
<1> QED
  BY <1>3, <1>4 DEF StaleInv

LEMMA TellStale == ASSUME StaleInv, NEW r \in Requests, Stale!Tell(r) PROVE StaleInv'
<1>1. /\ Stale!At("tell") /\ r \in run.todo
      /\ run' = [run EXCEPT !.todo = @ \ {r}, !.notified = @ \cup {r}]
      /\ told' = (IF Stale!Listed(r) THEN told \cup {r} ELSE told)
      /\ excused' = excused \ {r}
      /\ UNCHANGED <<percent, notified, lastPercent, view, ticked>>
  BY DEF Stale!Tell, Stale!world
<1> QED
  BY <1>1 DEF StaleInv, ProgressKnown, LastLook, OnRecord, Stale!At

LEMMA StepStale == StaleInv /\ [Stale!Next]_(Stale!vars) => StaleInv'
<1> SUFFICES ASSUME StaleInv, [Stale!Next]_(Stale!vars) PROVE StaleInv'
  OBVIOUS
<1>1. CASE Stale!World
  BY <1>1, WorldStale
<1>2. CASE Stale!Begin
  BY <1>2, NothingType
     DEF Stale!Begin, Stale!world, Stale!history, StaleInv, ProgressKnown, LastLook, OnRecord,
         Stale!At, Stale!Idle
<1>3. CASE Stale!Page
  <2>1. /\ Stale!At("page") /\ run'.pc # "tell"
        /\ run'.downloads = run.downloads /\ run'.notified = run.notified
        /\ UNCHANGED <<percent, notified, lastPercent, view, told, excused, ticked>>
    BY <1>3 DEF Stale!Page, Stale!world, Stale!history
  <2> QED
    BY <2>1 DEF StaleInv, ProgressKnown, LastLook, OnRecord, Stale!At
<1>4. CASE Stale!Titles
  BY <1>4, TitlesStale
<1>5. CASE Stale!Load
  BY <1>5, LoadStale
<1>6. CASE Stale!Save
  BY <1>6, NothingType
     DEF Stale!Save, Stale!world, Stale!history, StaleInv, ProgressKnown, LastLook, OnRecord,
         Stale!At, Stale!Idle
<1>7. CASE Stale!Fails
  BY <1>7, NothingType
     DEF Stale!Fails, Stale!world, StaleInv, ProgressKnown, LastLook, OnRecord, Stale!At,
         Stale!Cut, Stale!Idle
<1>8. CASE \E r \in Requests : Stale!Tell(r)
  BY <1>8, TellStale
<1>9. CASE Stale!ViewBegins
  BY <1>9
     DEF Stale!ViewBegins, Stale!world, Stale!history, StaleInv, ProgressKnown, LastLook,
         OnRecord, Stale!At
<1>10. CASE Stale!ViewLooks
  BY <1>10, NothingType, LookedType
     DEF Stale!ViewLooks, Stale!world, StaleInv, ProgressKnown, LastLook, OnRecord, Stale!At
<1>11. CASE Stale!Restart
  BY <1>11, NothingType
     DEF Stale!Restart, Stale!world, StaleInv, ProgressKnown, LastLook, OnRecord, Stale!At,
         Stale!Cut, Stale!Idle
<1>12. CASE UNCHANGED Stale!vars
  BY <1>12
     DEF Stale!vars, Stale!world, Stale!history, StaleInv, ProgressKnown, LastLook, OnRecord,
         Stale!At
<1> QED
  BY <1>1, <1>2, <1>3, <1>4, <1>5, <1>6, <1>7, <1>8, <1>9, <1>10, <1>11, <1>12 DEF Stale!Next

THEOREM StaleInvariance == Stale!Spec => []StaleInv
  BY InitStale, StepStale, PTL DEF Stale!Spec

\* A request on the list is told once, unless the record of it was lost (check).
THEOREM EachIsToldOnce == Stale!Spec => ToldOnce
<1>1. StaleInv /\ [Stale!Next]_(Stale!vars) =>
        [\A r \in Requests : Stale!Tell(r) => r \notin told \/ r \in excused]_(Stale!vars)
  BY DEF StaleInv, OnRecord, Stale!Tell
<1> QED
  BY <1>1, StaleInvariance, PTL DEF Stale!Spec, ToldOnce, Stale!ToldOnce

\* A download that moved since the last tick is not called stuck (lastPercent).
THEOREM MovingIsNotStuck == Stale!Spec => SlowIsNotDead
<1> DEFINE A ==
      \A r \in Requests : r \in run'.todo \ run.todo =>
        ticked[KeyOf[r]] = Stale!None \/ run.downloads[KeyOf[r]] <= ticked[KeyOf[r]]
<1>1. StaleInv /\ [Stale!Next]_(Stale!vars) => [A]_(Stale!vars)
  <2> SUFFICES ASSUME StaleInv, Stale!Next, NEW r \in Requests, r \in run'.todo \ run.todo
               PROVE  ticked[KeyOf[r]] = Stale!None \/ run.downloads[KeyOf[r]] <= ticked[KeyOf[r]]
    OBVIOUS
  <2>1. CASE Stale!Titles
    <3>1. r \in run.requests /\ KeyOf[r] \notin Stale!Moving(run.downloads)
      BY <2>1 DEF Stale!Titles
    <3> QED
      BY <3>1
     DEF Stale!Moving, StaleInv, LastLook, ProgressKnown, Stale!Progress, Stale!None,
         Stale!Keys
  <2>2. CASE ~Stale!Titles
    <3>1. CASE Stale!Page \/ Stale!Load \/ \E x \in Requests : Stale!Tell(x)
      <4>1. run'.todo \subseteq run.todo
        <5>1. CASE Stale!Page
          BY <5>1 DEF Stale!Page
        <5>2. CASE Stale!Load
          BY <5>2 DEF Stale!Load
        <5>3. CASE \E x \in Requests : Stale!Tell(x)
          BY <5>3 DEF Stale!Tell
        <5> QED
          BY <3>1, <5>1, <5>2, <5>3
      <4> QED
        BY <4>1
    <3>2. CASE Stale!Begin \/ Stale!Save \/ Stale!Fails \/ Stale!Restart
      <4>1. Stale!Idle.todo = {} /\ Stale!Cut.todo = {}
        BY DEF Stale!Idle, Stale!Cut
      <4>2. CASE Stale!Begin
        <5>1. PICK d \in {percent, Stale!Nothing} :
                run' = [Stale!Idle EXCEPT !.pc = "page", !.downloads = d]
          BY <4>2 DEF Stale!Begin
        <5>2. run'.todo = {}
          BY <5>1 DEF Stale!Idle
        <5> QED
          BY <5>2
      <4>3. CASE Stale!Save \/ Stale!Fails \/ Stale!Restart
        <5>1. run'.todo = {}
          BY <4>1, <4>3 DEF Stale!Save, Stale!Fails, Stale!Restart
        <5> QED
          BY <5>1
      <4> QED
        BY <3>2, <4>2, <4>3
    <3>3. CASE Stale!World \/ Stale!ViewBegins \/ Stale!ViewLooks
      <4>1. UNCHANGED run
        BY <3>3 DEF Stale!World, Stale!ViewBegins, Stale!ViewLooks
      <4> QED
        BY <4>1
    <3> QED
      BY <2>2, <3>1, <3>2, <3>3 DEF Stale!Next
  <2> QED
    BY <2>1, <2>2
<1> QED
  BY <1>1, StaleInvariance, PTL DEF Stale!Spec, SlowIsNotDead, Stale!SlowIsNotDead

=============================================================================
