----------------------------- MODULE TaskProofs -----------------------------
(***************************************************************************)
(* The two tasks an endpoint has: its collector and its log tailer.        *)
(*                                                                         *)
(* The schedule keeps its bounds, skips missed slots and answers a forced  *)
(* refresh at once, for any number of endpoints, range of intervals and    *)
(* length of a scrape.  That a deadline is never further behind than the   *)
(* longest scrape is not inductive: it needs that a waiting task is never  *)
(* behind, since no time passes while it could run, and that one in a      *)
(* scrape is at most as far behind as the scrape is old.                   *)
(*                                                                         *)
(* The tailer finds each line once, for any limits of a line, a read and a *)
(* batch, any file and any interference with it.  What it found is not     *)
(* enough to go on from: the invariant says what it carries as well.       *)
(***************************************************************************)
EXTENDS Collector, LogTail, FoldTheorems, SequenceTheorems

-----------------------------------------------------------------------------
(* The collectors' schedule.                                               *)

OnTime ==
  \A e \in Endpoints :
    /\ ~ busy[e] => busyFor[e] = 0
    /\ ahead[e] + busyFor[e] >= 0

\* An owed refresh is still to be seen by its task.
OwedIsForced == \A e \in Endpoints : owed[e] => forced[e]

Inv == TypeOK /\ OnTime /\ OwedIsForced

LEMMA Bounds ==
  /\ MinRefresh \in Nat /\ MinRefresh >= 4 /\ MaxRefresh \in Nat /\ MaxBusy \in Nat
  /\ FirstRefresh \in Int /\ MinRefresh <= FirstRefresh /\ FirstRefresh <= MaxRefresh
  /\ \A e \in Endpoints : phase_offset(e) \in 0 .. 3
<1>1. \A e \in Nat : e % 4 \in 0 .. 3
  BY SMT
<1>2. Endpoints \subseteq Nat
  BY NumEndpointsAssumption, SMT DEF Endpoints
<1>3. \A e \in Endpoints : phase_offset(e) \in 0 .. 3
  BY <1>1, <1>2 DEF phase_offset
<1>4. FirstRefresh \in Int /\ MinRefresh <= FirstRefresh /\ FirstRefresh <= MaxRefresh
  BY RefreshAssumption, SMT
<1> QED BY <1>3, <1>4, RefreshAssumption, MaxBusyAssumption

\* A slot that is missed leads to the next multiple of the cadence: strictly
\* later than now, at most one cadence away.
LEMMA NextSlot ==
  ASSUME NEW anchor \in Int, NEW cadence \in Nat, cadence > 0
  PROVE  /\ next_slot(anchor, cadence) \in Int
         /\ next_slot(anchor, cadence) > 0
         /\ anchor > 0 => next_slot(anchor, cadence) = anchor
         /\ anchor <= 0 => next_slot(anchor, cadence) <= cadence
<1>1. CASE anchor > 0
  BY <1>1, SMT DEF next_slot
<1>2. CASE anchor <= 0
  <2> DEFINE late == - anchor
             q == late \div cadence
             r == late % cadence
  <2>1. late \in Nat
    BY <1>2, SMT
  <2>2. q \in Int /\ r \in Int /\ late = cadence * q + r /\ 0 <= r /\ r < cadence
    BY <2>1, SMT
  <2>3. cadence * (q + 1) = cadence * q + cadence
    BY <2>2, SMT
  <2>4. next_slot(anchor, cadence) = anchor + cadence * (q + 1)
    BY <1>2, SMT DEF next_slot
  <2>5. next_slot(anchor, cadence) = cadence - r
    <3> HIDE DEF q, r
    <3>1. cadence * q \in Int
      BY <2>2, SMT
    <3> QED BY <2>2, <2>3, <2>4, <3>1, SMT
  <2> QED BY <1>2, <2>2, <2>5, SMT
<1> QED BY <1>1, <1>2, SMT

-----------------------------------------------------------------------------
LEMMA Initial == Init => Inv
<1> SUFFICES ASSUME Init PROVE Inv
  OBVIOUS
<1>1. TypeOK
  BY Bounds, SMT DEF Init, TypeOK
<1>2. OnTime
  BY Bounds, SMT DEF Init, OnTime
<1>3. OwedIsForced
  BY DEF Init, OwedIsForced
<1> QED BY <1>1, <1>2, <1>3 DEF Inv

LEMMA AfterStart ==
  ASSUME Inv, NEW e \in Endpoints, StartOnTime(e) \/ StartForced(e)
  PROVE  Inv'
<1>1. Start(e) /\ forced' \in [Endpoints -> BOOLEAN]
      /\ \A f \in Endpoints : f # e => forced'[f] = forced[f]
  BY DEF Inv, TypeOK, StartOnTime, StartForced
<1>2. TypeOK'
  BY <1>1, Bounds, SMT DEF Inv, TypeOK, Start
<1>3. OnTime'
  BY <1>1, SMT DEF Inv, TypeOK, OnTime, Start
<1>4. OwedIsForced'
  BY <1>1 DEF Inv, TypeOK, OwedIsForced, Start
<1> QED BY <1>2, <1>3, <1>4 DEF Inv

LEMMA AfterRephase ==
  ASSUME Inv, NEW e \in Endpoints, Rephase(e)
  PROVE  Inv'
<1>1. Phase(e) \in 0 .. 3
  BY Bounds DEF Phase
<1>2. TypeOK'
  BY <1>1, Bounds, SMT DEF Inv, TypeOK, Rephase
<1>3. OnTime'
  BY <1>1, SMT DEF Inv, TypeOK, OnTime, Rephase
<1>4. OwedIsForced'
  BY DEF Inv, OwedIsForced, Rephase
<1> QED BY <1>2, <1>3, <1>4 DEF Inv

\* Where the end of a scrape leaves its deadline.
LEMMA Finishing ==
  ASSUME Inv, NEW e \in Endpoints, Finish(e)
  PROVE  /\ ahead' = [ahead EXCEPT ![e] = NextStart(e)]
         /\ NextStart(e) \in 1 .. MaxRefresh
         /\ ahead[e] <= 0 => NextStart(e) <= interval
<1>1. interval \in Nat /\ interval > 0 /\ interval <= MaxRefresh
      /\ ahead[e] \in Int /\ ahead[e] <= MaxRefresh
  BY Bounds, SMT DEF Inv, TypeOK
<1>2. /\ NextStart(e) \in Int /\ NextStart(e) > 0
      /\ ahead[e] > 0 => NextStart(e) = ahead[e]
      /\ ahead[e] <= 0 => NextStart(e) <= interval
  BY <1>1, NextSlot DEF NextStart
<1> QED BY <1>1, <1>2, Bounds, SMT DEF Finish

LEMMA AfterFinish ==
  ASSUME Inv, NEW e \in Endpoints, Finish(e)
  PROVE  Inv'
<1>1. /\ ahead' = [ahead EXCEPT ![e] = NextStart(e)]
      /\ NextStart(e) \in 1 .. MaxRefresh
  BY Finishing
<1>2. forced' = forced
  BY DEF Inv, TypeOK, Finish, SeesForce
<1>3. TypeOK'
  BY <1>1, <1>2, Bounds, SMT DEF Inv, TypeOK, Finish
<1>4. OnTime'
  BY <1>1, SMT DEF Inv, TypeOK, OnTime, Finish
<1>5. OwedIsForced'
  BY <1>2 DEF Inv, OwedIsForced, Finish
<1> QED BY <1>3, <1>4, <1>5 DEF Inv

LEMMA AfterKeys ==
  ASSUME Inv,
         ForceRefresh \/ \E direction \in {-1, 1} : AdjustInterval(direction)
  PROVE  Inv'
<1>1. CASE ForceRefresh
  <2>1. TypeOK'
    BY <1>1 DEF Inv, TypeOK, ForceRefresh
  <2>2. OnTime' /\ OwedIsForced'
    BY <1>1 DEF Inv, OnTime, OwedIsForced, ForceRefresh
  <2> QED BY <2>1, <2>2 DEF Inv
<1>2. ASSUME NEW direction \in {-1, 1}, AdjustInterval(direction)
      PROVE  Inv'
  <2>1. interval + direction * Step \in Int
    BY Bounds, SMT DEF Inv, TypeOK, Step
  <2>2. Clamp(interval + direction * Step) \in MinRefresh .. MaxRefresh
    BY <2>1, Bounds, SMT DEF Clamp
  <2>3. TypeOK'
    BY <1>2, <2>2 DEF Inv, TypeOK, AdjustInterval, histVars
  <2>4. OnTime' /\ OwedIsForced'
    BY <1>2 DEF Inv, OnTime, OwedIsForced, AdjustInterval, histVars
  <2> QED BY <2>3, <2>4 DEF Inv
<1> QED BY <1>1, <1>2

LEMMA AfterElapse ==
  ASSUME Inv, Elapse
  PROVE  Inv'
<1>1. \A e \in Endpoints : ~ busy[e] => ahead[e] > 0
  BY SMT DEF Inv, TypeOK, Elapse, Runnable
<1>2. ASSUME NEW e \in Endpoints
      PROVE  /\ ahead[e] - 1 \in - MaxBusy .. MaxRefresh
             /\ (IF busy[e] THEN busyFor[e] + 1 ELSE 0) \in 0 .. MaxBusy
             /\ ahead[e] - 1 + (IF busy[e] THEN busyFor[e] + 1 ELSE 0) >= 0
             /\ (IF sinceStart[e] < MinRefresh THEN sinceStart[e] + 1 ELSE MinRefresh) \in 0 .. MinRefresh
  BY <1>1, Bounds, SMT DEF Inv, TypeOK, OnTime, Elapse
<1>3. TypeOK'
  BY <1>2, SMT DEF Inv, TypeOK, Elapse, ctlVars
<1>4. OnTime'
  BY <1>2, SMT DEF Inv, OnTime, Elapse
<1>5. OwedIsForced'
  BY DEF Inv, OwedIsForced, Elapse, ctlVars
<1> QED BY <1>3, <1>4, <1>5 DEF Inv

LEMMA Preserved == Inv /\ [Next]_vars => Inv'
<1> SUFFICES ASSUME Inv, [Next]_vars PROVE Inv'
  OBVIOUS
<1>1. CASE UNCHANGED vars
  BY <1>1 DEF Inv, TypeOK, OnTime, OwedIsForced, vars, ctlVars, histVars
<1>2. CASE Next
  BY <1>2, AfterStart, AfterRephase, AfterFinish, AfterKeys, AfterElapse DEF Next
<1> QED BY <1>1, <1>2

LEMMA AlwaysInv == Spec => []Inv
  BY Initial, Preserved, PTL DEF Spec

-----------------------------------------------------------------------------
\* The types, and with them the bounds of a deadline (CollectorTask::run):
\* never further behind than the longest scrape, nor ahead than the longest
\* interval.
THEOREM DeadlinesAreBounded == Spec => []TypeOK
<1>1. Inv => TypeOK
  BY DEF Inv
<1> QED BY <1>1, AlwaysInv, PTL

\* A scrape that outlasted its slots comes back to the next one that lies
\* ahead, at most one cadence away (next_slot_strictly_after).
THEOREM SlotsAreSkipped == Spec => SkipsMissedSlots
<1>1. ASSUME Inv, Next, NEW e \in Endpoints, busy[e], ~ busy'[e]
      PROVE  ahead'[e] > 0 /\ (ahead[e] <= 0 => ahead'[e] <= interval)
  <2>1. Finish(e)
    <3>1. ASSUME NEW f \in Endpoints, StartOnTime(f) \/ StartForced(f)
          PROVE  FALSE
      BY <1>1, <3>1 DEF StartOnTime, StartForced, Start, Inv, TypeOK
    <3>2. ASSUME NEW f \in Endpoints, Finish(f), f # e
          PROVE  FALSE
      BY <1>1, <3>2 DEF Finish, Inv, TypeOK
    <3>3. ~ \E f \in Endpoints : Rephase(f)
      BY <1>1 DEF Rephase
    <3>4. ~ (ForceRefresh \/ Elapse \/ \E direction \in {-1, 1} : AdjustInterval(direction))
      BY <1>1 DEF ForceRefresh, Elapse, AdjustInterval
    <3> QED BY <1>1, <3>1, <3>2, <3>3, <3>4 DEF Next
  <2>2. ahead'[e] = NextStart(e)
    BY <1>1, <2>1, Finishing DEF Inv, TypeOK
  <2> QED BY <1>1, <2>1, <2>2, Finishing, Bounds, SMT
<1>2. Inv /\ [Next]_vars =>
        [\A e \in Endpoints : busy[e] /\ ~ busy'[e] =>
           /\ ahead'[e] > 0
           /\ ahead[e] <= 0 => ahead'[e] <= interval]_vars
  BY <1>1
<1> QED BY <1>2, AlwaysInv, PTL DEF Spec, SkipsMissedSlots

\* No time passes between the end of a scrape and the start of the one that a
\* key has asked for in the meantime (force_rx in wait_for_start).
THEOREM RefreshIsImmediate == Spec => RefreshIsPrompt
<1>1. ASSUME Inv, Elapse, NEW e \in Endpoints, owed[e]
      PROVE  busy[e]
  BY <1>1 DEF Inv, OwedIsForced, Elapse, Runnable
<1>2. Inv /\ [Next]_vars => [Elapse => \A e \in Endpoints : owed[e] => busy[e]]_vars
  BY <1>1
<1> QED BY <1>2, AlwaysInv, PTL DEF Spec, RefreshIsPrompt

-----------------------------------------------------------------------------
(* The phases.  Staggered alone is not inductive: a task that takes a new   *)
(* interval joins those that have taken it, and it has to be known that     *)
(* this happens at the instant their grids begin.                           *)

\* The slots of e, seen from its own phase.
Origin(e) == ahead[e] - phase_offset(e)

\* While some waiting task has yet to take the interval, no time has passed
\* since it was set.
GridsBeginTogether ==
  (\E e \in Endpoints : changed[e] /\ ~ busy[e])
    => \A f \in Endpoints : Settled(f) => Origin(f) % interval = 0

LEMMA Multiples ==
  ASSUME NEW c \in Nat, c > 0, NEW x \in Int
  PROVE  x % c = 0 <=> \E k \in Int : x = c * k
<1> DEFINE q == x \div c
           r == x % c
<1>1. q \in Int /\ r \in Int /\ x = c * q + r /\ 0 <= r /\ r < c
  BY SMT
<1> HIDE DEF q, r
<1>2. ASSUME r = 0 PROVE x = c * q
  <2>1. c * q \in Int
    BY <1>1, SMT
  <2> QED BY <1>1, <1>2, <2>1, SMT
<1>3. ASSUME NEW k \in Int, x = c * k PROVE r = 0
  <2>1. c * (k - q) = r
    <3>1. c * (k - q) = c * k - c * q
      BY <1>1, SMT
    <3> QED BY <1>1, <1>3, <3>1, SMT
  <2>2. k - q >= 1 => c * (k - q) >= c
    BY <1>1, SMT
  <2>3. k - q <= -1 => c * (k - q) <= - c
    BY <1>1, SMT
  <2>4. k - q \in Int
    BY <1>1, SMT
  <2>5. k - q = 0
    BY <1>1, <2>1, <2>2, <2>3, <2>4, SMT
  <2> QED BY <2>1, <2>5, SMT
<1>4. x % c = 0 <=> r = 0
  BY DEF r
<1> QED BY <1>1, <1>2, <1>3, <1>4

\* Divisibility survives differences and whole steps.
LEMMA Congruent ==
  ASSUME NEW c \in Nat, c > 0, NEW x \in Int, NEW y \in Int, NEW m \in Int
  PROVE  /\ x % c = 0 /\ y % c = 0 => (x - y) % c = 0
         /\ (x - y) % c = 0 => (y - x) % c = 0
         /\ x % c = 0 => (x + c * m) % c = 0
<1>1. ASSUME x % c = 0, y % c = 0 PROVE (x - y) % c = 0
  <2>1. PICK k \in Int : x = c * k
    BY <1>1, Multiples
  <2>2. PICK l \in Int : y = c * l
    BY <1>1, Multiples
  <2>3. x - y = c * (k - l)
    BY <2>1, <2>2, SMT
  <2>4. k - l \in Int /\ x - y \in Int
    BY SMT
  <2> QED BY <2>3, <2>4, Multiples
<1>2. ASSUME (x - y) % c = 0 PROVE (y - x) % c = 0
  <2>1. x - y \in Int /\ y - x \in Int
    BY SMT
  <2>2. PICK k \in Int : x - y = c * k
    BY <1>2, <2>1, Multiples
  <2>3. y - x = c * (- k) /\ - k \in Int
    BY <2>2, SMT
  <2> QED BY <2>1, <2>3, Multiples
<1>3. ASSUME NEW z \in Int, z % c = 0 PROVE (z + c * m) % c = 0
  <2>1. PICK k \in Int : z = c * k
    BY <1>3, Multiples
  <2>2. z + c * m = c * (k + m) /\ k + m \in Int /\ z + c * m \in Int
    BY <2>1, SMT
  <2> QED BY <2>2, Multiples
<1> QED BY <1>1, <1>2, <1>3

LEMMA Shifted ==
  ASSUME NEW c \in Nat, c > 0, NEW x \in Int, NEW y \in Int, NEW m \in Int,
         NEW z \in Int, z = x + c * m, (x - y) % c = 0
  PROVE  (z - y) % c = 0
<1>1. x - y \in Int /\ z - y \in Int
  BY SMT
<1>2. PICK k \in Int : x - y = c * k
  BY <1>1, Multiples
<1>3. z - y = c * (k + m) /\ k + m \in Int
  BY <1>2, SMT
<1> QED BY <1>1, <1>3, Multiples

\* next_slot_strictly_after stays on the grid of its anchor.
LEMMA SameGrid ==
  ASSUME NEW anchor \in Int, NEW cadence \in Nat, cadence > 0
  PROVE  \E m \in Int : next_slot(anchor, cadence) = anchor + cadence * m
<1>1. CASE anchor > 0
  <2>1. next_slot(anchor, cadence) = anchor + cadence * 0
    BY <1>1, SMT DEF next_slot
  <2> QED BY <2>1
<1>2. CASE anchor <= 0
  <2>1. (- anchor) \div cadence + 1 \in Int
    BY SMT
  <2> QED BY <1>2, <2>1 DEF next_slot
<1> QED BY <1>1, <1>2, SMT

Grids == Staggered /\ GridsBeginTogether

LEMMA OriginType ==
  ASSUME Inv, NEW e \in Endpoints
  PROVE  Origin(e) \in Int /\ interval \in Nat /\ interval > 0
  BY Bounds, SMT DEF Inv, TypeOK, Origin

LEMMA InPhaseIs == \A e, f \in Endpoints : InPhase(e, f) <=> (Origin(e) - Origin(f)) % interval = 0
  BY DEF InPhase, Origin

LEMMA GridsInit == Init => Grids
<1> SUFFICES ASSUME Init PROVE Grids
  OBVIOUS
<1>1. Inv
  BY Initial
<1>2. \A e \in Endpoints : Origin(e) = 0
  BY Bounds, SMT DEF Init, Origin
<1>3. interval \in Nat /\ interval > 0 /\ 0 % interval = 0
  BY Bounds, SMT DEF Init
<1>4. Staggered
  <2> SUFFICES ASSUME NEW e \in Endpoints, NEW f \in Endpoints
               PROVE  (Origin(e) - Origin(f)) % interval = 0
    BY InPhaseIs DEF Staggered
  <2>1. Origin(e) - Origin(f) = 0
    BY <1>2, SMT
  <2> QED BY <2>1, <1>3
<1>5. GridsBeginTogether
  BY DEF Init, GridsBeginTogether
<1> QED BY <1>4, <1>5 DEF Grids

\* A step that moves no deadline and settles nobody new.
LEMMA GridsKept ==
  ASSUME Inv, Grids, UNCHANGED <<interval, changed, ahead, deaf>>,
         \A e \in Endpoints : changed[e] /\ ~ busy'[e] => ~ busy[e]
  PROVE  Grids'
<1>1. \A e \in Endpoints : Origin(e)' = Origin(e) /\ Settled(e)' = Settled(e)
  BY DEF Origin, Settled
<1>2. \A e, f \in Endpoints : InPhase(e, f)' = InPhase(e, f)
  BY DEF InPhase
<1> QED BY <1>1, <1>2 DEF Grids, Staggered, GridsBeginTogether

LEMMA GridsAfterRephase ==
  ASSUME Inv, Grids, NEW e \in Endpoints, Rephase(e)
  PROVE  Grids'
<1>1. Inv'
  BY AfterRephase
<1>2. interval' = interval /\ busy' = busy
  BY DEF Rephase
<1>3. \A f \in Endpoints : f # e => Origin(f)' = Origin(f) /\ Settled(f)' = Settled(f)
  BY DEF Rephase, Origin, Settled, Inv, TypeOK
<1>4. Origin(e)' = 0
  BY Bounds, SMT DEF Rephase, Origin, Phase, Inv, TypeOK
<1>5. \A f \in Endpoints : Settled(f) => Origin(f) % interval = 0
  BY DEF Grids, GridsBeginTogether, Rephase
<1>6. interval \in Nat /\ interval > 0 /\ 0 % interval = 0
  BY OriginType, SMT
<1>7. \A f \in Endpoints : Settled(f)' => Origin(f)' % interval' = 0
  BY <1>2, <1>3, <1>4, <1>5, <1>6
<1>8. ASSUME NEW f \in Endpoints, NEW g \in Endpoints, Settled(f)', Settled(g)'
      PROVE  InPhase(f, g)'
  <2>1. Origin(f)' \in Int /\ Origin(g)' \in Int
    BY <1>1, Bounds, SMT DEF Inv, TypeOK, Origin
  <2>2. (Origin(f)' - Origin(g)') % interval' = 0
    BY <1>2, <1>6, <1>7, <1>8, <2>1, Congruent
  <2> QED BY <2>2 DEF InPhase, Origin
<1> QED BY <1>7, <1>8 DEF Grids, Staggered, GridsBeginTogether

LEMMA GridsAfterFinish ==
  ASSUME Inv, Grids, NEW e \in Endpoints, Finish(e)
  PROVE  Grids'
<1>1. interval' = interval /\ interval \in Nat /\ interval > 0
  BY OriginType DEF Finish
<1>2. ahead[e] \in Int
  BY DEF Inv, TypeOK
<1>3. PICK m \in Int : NextStart(e) = ahead[e] + interval * m
  BY <1>1, <1>2, SameGrid DEF NextStart
<1>4. Origin(e)' = Origin(e) + interval * m
  <2>1. ahead'[e] = ahead[e] + interval * m
    BY <1>3, Finishing DEF Inv, TypeOK
  <2>2. interval * m \in Int /\ phase_offset(e) \in Int
    BY <1>1, Bounds, SMT
  <2> QED BY <1>2, <2>1, <2>2, SMT DEF Origin
<1>5. \A f \in Endpoints : f # e => Origin(f)' = Origin(f)
  BY Finishing DEF Origin, Inv, TypeOK
<1>6. \A f \in Endpoints : Settled(f)' => Settled(f)
  BY DEF Settled, Finish, Inv, TypeOK
<1>7. \A f \in Endpoints : changed'[f] /\ ~ busy'[f] => changed[f] /\ ~ busy[f]
  BY DEF Finish, Inv, TypeOK
<1>8. \A f \in Endpoints : Origin(f) \in Int
  BY OriginType
<1>9. PICK x \in Int : x = Origin(e) + interval * m
  <2>1. Origin(e) + interval * m \in Int
    BY <1>1, <1>8, SMT
  <2> QED BY <2>1
<1>10. Origin(e)' = x
  BY <1>4, <1>9
<1>11. \A f \in Endpoints : (Origin(e) - Origin(f)) % interval = 0 => (x - Origin(f)) % interval = 0
  BY <1>1, <1>8, <1>9, Shifted
<1>12. ASSUME NEW f \in Endpoints, Origin(f) % interval = 0
      PROVE  Origin(f)' % interval' = 0
  BY <1>1, <1>4, <1>5, <1>8, <1>12, Congruent
<1>13. ASSUME NEW f \in Endpoints, NEW g \in Endpoints, (Origin(f) - Origin(g)) % interval = 0
       PROVE  (Origin(f)' - Origin(g)') % interval' = 0
  <2>1. CASE f # e /\ g # e
    BY <1>1, <1>5, <1>13, <2>1
  <2>2. CASE f = e /\ g # e
    <3>1. (x - Origin(g)) % interval = 0
      BY <1>13, <2>2, <1>11
    <3> QED BY <1>1, <1>5, <1>10, <2>2, <3>1
  <2>3. CASE f # e /\ g = e
    <3>1. (Origin(g) - Origin(f)) % interval = 0
      BY <1>1, <1>8, <1>13, Congruent
    <3>2. (x - Origin(f)) % interval = 0
      BY <2>3, <3>1, <1>11
    <3>3. (Origin(f) - x) % interval = 0
      BY <1>1, <1>8, <3>2, Congruent
    <3> QED BY <1>1, <1>5, <1>10, <2>3, <3>3
  <2>4. CASE f = e /\ g = e
    <3>1. Origin(e)' - Origin(e)' = 0
      <4>1. Origin(e)' \in Int
        BY <1>1, <1>4, <1>8, SMT
      <4> QED BY <4>1, SMT
    <3>2. 0 % interval = 0
      BY <1>1, SMT
    <3> QED BY <1>1, <2>4, <3>1, <3>2
  <2> QED BY <2>1, <2>2, <2>3, <2>4
<1>14. Staggered'
  <2> SUFFICES ASSUME NEW f \in Endpoints, NEW g \in Endpoints, Settled(f)', Settled(g)'
               PROVE  InPhase(f, g)'
    BY DEF Staggered
  <2>1. (Origin(f) - Origin(g)) % interval = 0
    BY <1>6, InPhaseIs DEF Grids, Staggered
  <2>2. (Origin(f)' - Origin(g)') % interval' = 0
    BY <1>13, <2>1
  <2> QED BY <2>2 DEF InPhase, Origin
<1>15. GridsBeginTogether'
  BY <1>6, <1>7, <1>12 DEF Grids, GridsBeginTogether
<1> QED BY <1>14, <1>15 DEF Grids

LEMMA GridsAfterElapse ==
  ASSUME Inv, Grids, Elapse
  PROVE  Grids'
<1>1. \A e \in Endpoints : ~ (changed'[e] /\ ~ busy'[e])
  BY DEF Elapse, Runnable, ctlVars
<1>2. \A e, f \in Endpoints : Origin(e)' - Origin(f)' = Origin(e) - Origin(f)
  BY Bounds, SMT DEF Elapse, Origin, Inv, TypeOK
<1>3. interval' = interval /\ \A e \in Endpoints : Settled(e)' = Settled(e)
  BY DEF Elapse, Settled, ctlVars
<1>4. \A e, f \in Endpoints : InPhase(e, f)' <=> (Origin(e)' - Origin(f)') % interval' = 0
  BY DEF InPhase, Origin
<1> QED BY <1>1, <1>2, <1>3, <1>4, InPhaseIs DEF Grids, Staggered, GridsBeginTogether

LEMMA GridsPreserved == Inv /\ Grids /\ [Next]_vars => Grids'
<1> SUFFICES ASSUME Inv, Grids, [Next]_vars PROVE Grids'
  OBVIOUS
<1>1. CASE UNCHANGED vars
  BY <1>1, GridsKept DEF vars, ctlVars, histVars
<1>2. ASSUME NEW e \in Endpoints, StartOnTime(e) \/ StartForced(e)
      PROVE  Grids'
  BY <1>2, GridsKept DEF StartOnTime, StartForced, Start, Inv, TypeOK
<1>3. CASE ForceRefresh
  BY <1>3, GridsKept DEF ForceRefresh
<1>4. ASSUME NEW direction \in {-1, 1}, AdjustInterval(direction)
      PROVE  Grids'
  <2>1. \A e \in Endpoints : ~ Settled(e)'
    BY <1>4 DEF AdjustInterval, Settled
  <2> QED BY <2>1 DEF Grids, Staggered, GridsBeginTogether
<1> QED BY <1>1, <1>2, <1>3, <1>4, GridsAfterRephase, GridsAfterFinish, GridsAfterElapse DEF Next

\* The fleet stays staggered: whatever was slow, forced or set anew, endpoints
\* that took the interval while they waited keep their phases apart
\* (CollectorTask::wait_for_start, phase_offset).
THEOREM FleetStaysStaggered == Spec => []Staggered
<1>1. Grids => Staggered
  BY DEF Grids
<1>2. Init => Grids
  BY GridsInit
<1>3. Inv /\ Grids /\ [Next]_vars => Grids'
  BY GridsPreserved
<1> QED BY <1>1, <1>2, <1>3, AlwaysInv, PTL DEF Spec

-----------------------------------------------------------------------------
(* Lines.                                                                  *)

LEMMA LimitsAre ==
  /\ MaxReadPerTick \in Nat \ {0} /\ MaxLineBytes \in Nat \ {0} /\ MaxEventsPerTick \in Nat \ {0}
  /\ MaxEntries \in Nat \ {0} /\ ChannelCapacity \in Nat \ {0} /\ MaxFileBytes \in Nat \ {0}
BY LimitsAssumption

LEMMA SubSeqAgrees ==
  ASSUME NEW S, NEW s \in Seq(S), NEW t \in Seq(S), NEW m \in Nat \ {0}, NEW n \in Nat,
         n <= Len(s), n <= Len(t), \A i \in m .. n : t[i] = s[i]
  PROVE  SubSeq(t, m, n) = SubSeq(s, m, n)
<1> DEFINE u == SubSeq(t, m, n)
           v == SubSeq(s, m, n)
<1>1. \A i \in m .. n : t[i] \in S /\ s[i] \in S
  OBVIOUS
<1>2. /\ u \in Seq(S) /\ Len(u) = (IF m <= n THEN n - m + 1 ELSE 0)
      /\ \A i \in 1 .. n - m + 1 : u[i] = t[m + i - 1]
  BY <1>1, SubSeqProperties
<1>3. /\ v \in Seq(S) /\ Len(v) = (IF m <= n THEN n - m + 1 ELSE 0)
      /\ \A i \in 1 .. n - m + 1 : v[i] = s[m + i - 1]
  BY <1>1, SubSeqProperties
<1> HIDE DEF u, v
<1>4. \A i \in 1 .. Len(u) : i \in 1 .. n - m + 1 /\ m + i - 1 \in m .. n
  BY <1>2
<1>5. \A i \in 1 .. Len(u) : u[i] = v[i]
  BY <1>2, <1>3, <1>4
<1>6. u = v
  BY <1>2, <1>3, <1>5, SeqEqual
<1> QED BY <1>6 DEF u, v

LEMMA SubSeqGrows ==
  ASSUME NEW S, NEW t \in Seq(S), NEW m \in Nat \ {0}, NEW n \in Nat, m <= n, n <= Len(t)
  PROVE  SubSeq(t, m, n) = Append(SubSeq(t, m, n - 1), t[n])
<1>1. m \in 1 .. Len(t) /\ n \in m .. Len(t) /\ n - 1 \in Int /\ \A i \in m .. n - 1 : t[i] \in S
  OBVIOUS
<1>2. SubSeq(t, m, n) = SubSeq(t, m, n - 1) \o <<t[n]>>
  BY <1>1, SubSeqRecursiveSecond
<1>3. SubSeq(t, m, n - 1) \in Seq(S)
  BY <1>1, SubSeqProperties
<1>4. t[n] \in S
  BY <1>1
<1> QED BY <1>2, <1>3, <1>4, AppendIsConcat

LEMMA ParsedLine ==
  ASSUME NEW line \in Seq(Bytes)
  PROVE  ParseLine(line) \in Seq(Marks)
<1> DEFINE marks(kind) == {i \in DOMAIN line : line[i][1] = kind}
<1>1. ASSUME NEW kind \in {"received", "finished"}, marks(kind) # {}
      PROVE  <<line[Min(marks(kind))]>> \in Seq(Marks)
  <2>1. marks(kind) \in SUBSET Nat
    OBVIOUS
  <2> DEFINE S == marks(kind)
  <2>2. S \in SUBSET Nat /\ S # {} /\ \A i \in S : i \in 1 .. Len(line) /\ line[i][1] = kind
    BY <1>1
  <2> HIDE DEF S
  <2>3. \E n \in S : \A m \in S : n <= m
    BY <2>2, LeastNatural
  <2>4. Min(S) \in S
    BY <2>3 DEF Min
  <2> DEFINE m == Min(S)
  <2>5. line[m] \in Bytes /\ line[m][1] = kind
    <3>1. m \in S
      BY <2>4
    <3> HIDE DEF m
    <3>2. m \in 1 .. Len(line) /\ line[m][1] = kind
      BY <2>2, <3>1
    <3> QED BY <3>2, ElementOfSeq
  <2>6. line[Min(S)] \in Marks
    BY <2>5 DEF Bytes, NL, Other
  <2> HIDE DEF Marks
  <2>7. <<line[Min(S)]>> \in Seq(Marks)
    BY <2>6
  <2> QED BY <2>7 DEF S
<1>2. <<>> \in Seq(Marks)
  OBVIOUS
<1> HIDE DEF marks
<1>3. \/ ParseLine(line) = <<>>
      \/ \E kind \in {"received", "finished"} : marks(kind) # {} /\ ParseLine(line) = <<line[Min(marks(kind))]>>
  BY Zenon DEF ParseLine, marks
<1> QED BY <1>1, <1>2, <1>3

\* The line that is not complete yet.
Rest(s) == LineOf(s, Len(s) + 1)
LastEnd(s, n) == Max({0} \cup {i \in 1 .. n - 1 : s[i] = NL})

LEMMA LastEndIs ==
  ASSUME NEW s, NEW n \in Nat \ {0}
  PROVE  /\ LastEnd(s, n) \in 0 .. n - 1
         /\ LastEnd(s, n) = 0 \/ s[LastEnd(s, n)] = NL
         /\ \A i \in 1 .. n - 1 : s[i] = NL => i <= LastEnd(s, n)
<1> DEFINE S == {0} \cup {i \in 1 .. n - 1 : s[i] = NL}
<1>1. S \in SUBSET Int /\ S \in SUBSET (0 .. n - 1) /\ S # {}
  OBVIOUS
<1>2. IsFiniteSet(0 .. n - 1)
  BY FS_Interval
<1>3. IsFiniteSet(S)
  BY <1>1, <1>2, FS_Subset
<1>4. \A i : i \in S <=> i = 0 \/ (i \in 1 .. n - 1 /\ s[i] = NL)
  OBVIOUS
<1>5. LastEnd(s, n) = Max(S)
  BY DEF LastEnd
<1> HIDE DEF S
<1>6. Max(S) \in S /\ \A m \in S : m <= Max(S)
  BY <1>1, <1>3, MaxIs
<1> QED BY <1>1, <1>4, <1>5, <1>6

LEMMA LineIs ==
  ASSUME NEW s \in Seq(Bytes), NEW n \in 1 .. Len(s) + 1
  PROVE  LineOf(s, n) \in Seq(Bytes) /\ LineOf(s, n) = SubSeq(s, LastEnd(s, n) + 1, n - 1)
<1>1. LastEnd(s, n) \in 0 .. n - 1
  BY LastEndIs
<1>2. \A i \in LastEnd(s, n) + 1 .. n - 1 : s[i] \in Bytes
  BY <1>1
<1>3. SubSeq(s, LastEnd(s, n) + 1, n - 1) \in Seq(Bytes)
  BY <1>1, <1>2, SubSeqProperties
<1>4. LineOf(s, n) = SubSeq(s, LastEnd(s, n) + 1, n - 1)
  BY Zenon DEF LineOf, LastEnd
<1> QED BY <1>3, <1>4

\* What a byte more makes of the lines.
LEMMA LineKept ==
  ASSUME NEW s \in Seq(Bytes), NEW b \in Bytes, NEW n \in 1 .. Len(s) + 1
  PROVE  LineOf(Append(s, b), n) = LineOf(s, n)
<1> DEFINE t == Append(s, b)
<1>1. t \in Seq(Bytes) /\ Len(t) = Len(s) + 1 /\ \A i \in 1 .. Len(s) : t[i] = s[i]
  OBVIOUS
<1> HIDE DEF t
<1>2. {i \in 1 .. n - 1 : t[i] = NL} = {i \in 1 .. n - 1 : s[i] = NL}
  BY <1>1
<1>3. LastEnd(t, n) = LastEnd(s, n)
  BY <1>2, Zenon DEF LastEnd
<1>4. LineOf(t, n) = SubSeq(t, LastEnd(s, n) + 1, n - 1) /\ LineOf(s, n) = SubSeq(s, LastEnd(s, n) + 1, n - 1)
  BY <1>1, <1>3, LineIs
<1>5. LastEnd(s, n) \in 0 .. n - 1
  BY LastEndIs
<1> DEFINE e == LastEnd(s, n)
<1> HIDE DEF e
<1>6. SubSeq(t, e + 1, n - 1) = SubSeq(s, e + 1, n - 1)
  <2>1. /\ e + 1 \in Nat \ {0} /\ n - 1 \in Nat /\ n - 1 <= Len(s) /\ n - 1 <= Len(t)
        /\ \A i \in e + 1 .. n - 1 : t[i] = s[i]
    BY <1>1, <1>5 DEF e
  <2> QED BY <1>1, <2>1, SubSeqAgrees
<1> QED BY <1>4, <1>6 DEF t, e

LEMMA RestGrows ==
  ASSUME NEW s \in Seq(Bytes), NEW b \in Bytes
  PROVE  Rest(Append(s, b)) = IF b = NL THEN <<>> ELSE Append(Rest(s), b)
<1> DEFINE t == Append(s, b)
           n == Len(s) + 1
           e == LastEnd(s, n)
           f == LastEnd(t, n + 1)
<1>1. /\ t \in Seq(Bytes) /\ Len(t) = n /\ n \in Nat \ {0} /\ t[n] = b
      /\ \A i \in 1 .. Len(s) : t[i] = s[i]
  OBVIOUS
<1>2. Rest(s) = SubSeq(s, e + 1, n - 1)
  BY LineIs DEF Rest
<1> HIDE DEF t
<1>3. Rest(t) = SubSeq(t, f + 1, n)
  <2>1. Rest(t) = LineOf(t, n + 1) /\ n + 1 \in 1 .. Len(t) + 1 /\ (n + 1) - 1 = n
    BY <1>1 DEF Rest
  <2>2. LineOf(t, n + 1) = SubSeq(t, f + 1, (n + 1) - 1)
    BY <1>1, <2>1, LineIs
  <2> QED BY <2>1, <2>2
<1>4. /\ e \in 0 .. n - 1 /\ (e = 0 \/ s[e] = NL) /\ \A i \in 1 .. n - 1 : s[i] = NL => i <= e
  BY LastEndIs
<1>5. /\ f \in 0 .. n /\ (f = 0 \/ t[f] = NL) /\ \A i \in 1 .. n : t[i] = NL => i <= f
  <2>1. n + 1 \in Nat \ {0} /\ (n + 1) - 1 = n
    BY <1>1
  <2> QED BY <2>1, LastEndIs
<1> HIDE DEF e, f
<1>6. CASE b = NL
  <2>1. f = n
    BY <1>1, <1>5, <1>6
  <2>2. SubSeq(t, n + 1, n) = <<>>
    BY <1>1, SubSeqEmpty
  <2> QED BY <1>3, <1>6, <2>1, <2>2 DEF t
<1>7. CASE b # NL
  <2>1. f = e
    <3>1. f # n
      BY <1>1, <1>5, <1>7
    <3>2. f = 0 \/ s[f] = NL
      BY <1>1, <1>5, <3>1
    <3>3. f <= e
      BY <1>1, <1>4, <1>5, <3>1, <3>2
    <3>4. e <= f
      BY <1>1, <1>4, <1>5
    <3> QED BY <1>1, <1>4, <1>5, <3>3, <3>4
  <2>2. SubSeq(t, e + 1, n) = Append(SubSeq(t, e + 1, n - 1), b)
    <3>1. e + 1 \in Nat \ {0} /\ e + 1 <= n /\ n <= Len(t)
      BY <1>1, <1>4
    <3> HIDE DEF n
    <3> QED BY <1>1, <3>1, SubSeqGrows
  <2>3. SubSeq(t, e + 1, n - 1) = SubSeq(s, e + 1, n - 1)
    <3>1. /\ e + 1 \in Nat \ {0} /\ n - 1 \in Nat /\ n - 1 <= Len(s) /\ n - 1 <= Len(t)
          /\ \A i \in e + 1 .. n - 1 : t[i] = s[i]
      BY <1>1, <1>4
    <3> HIDE DEF n
    <3> QED BY <1>1, <3>1, SubSeqAgrees
  <2> QED BY <1>2, <1>3, <1>7, <2>1, <2>2, <2>3 DEF t
<1> QED BY <1>6, <1>7

\* The events of s, line by line.
IsFound(g, s) ==
  /\ g \in [0 .. Len(s) -> Seq(Marks)] /\ g[0] = <<>>
  /\ \A i \in 1 .. Len(s) : g[i] = g[i - 1] \o EventsAt(s, i)

LEMMA EventsAre ==
  ASSUME NEW s \in Seq(Bytes), NEW n \in 1 .. Len(s)
  PROVE  EventsAt(s, n) \in Seq(Marks)
<1>1. ParseLine(LineOf(s, n)) \in Seq(Marks)
  BY LineIs, ParsedLine
<1>2. <<>> \in Seq(Marks)
  OBVIOUS
<1> QED BY <1>1, <1>2, Zenon DEF EventsAt

LEMMA EventsInIs ==
  ASSUME NEW s \in Seq(Bytes)
  PROVE  \E g : IsFound(g, s) /\ EventsIn(s) = g[Len(s)]
<1> DEFINE n == Len(s)
           V == Seq(Marks)
           seq == [i \in DOMAIN s |-> EventsAt(s, i)]
           step == [p \in (1 .. n) \X V |-> p[2] \o EventsAt(s, p[1])]
           P(g) == g = [i \in 0 .. n |-> IF i = 0 THEN <<>> ELSE g[i - 1] \o seq[i]]
           G == CHOOSE g : P(g)
<1>1. n \in Nat /\ DOMAIN s = 1 .. n /\ \A i \in 1 .. n : seq[i] = EventsAt(s, i)
  OBVIOUS
<1>2. Len(seq) = n
  BY <1>1
<1>3. EventsIn(s) = G[n]
  BY <1>2, Zenon DEF EventsIn, Fold
<1>4. \A i \in 1 .. n : EventsAt(s, i) \in V
  BY EventsAre
<1>5. \A u, v \in V : u \o v \in V
  BY ConcatProperties
<1>6. <<>> \in V
  OBVIOUS
<1> HIDE DEF V, n, seq
<1>7. step \in [(1 .. n) \X V -> V]
  BY <1>4, <1>5
<1>8. PICK c \in [0 .. n -> V] : IsChain(c, step, <<>>, n)
  BY <1>1, <1>6, <1>7, ChainExists
<1>9. ASSUME NEW g PROVE IsChain(g, step, <<>>, n) /\ g \in [0 .. n -> V] => P(g)
  <2>1. ASSUME g \in [0 .. n -> V], IsChain(g, step, <<>>, n) PROVE P(g)
    <3>1. ASSUME NEW i \in 0 .. n PROVE g[i] = IF i = 0 THEN <<>> ELSE g[i - 1] \o seq[i]
      <4>1. g[i] = IF i = 0 THEN <<>> ELSE step[<<i, g[i - 1]>>]
        BY <2>1 DEF IsChain
      <4>2. i # 0 => i \in 1 .. n /\ g[i - 1] \in V /\ <<i, g[i - 1]>> \in (1 .. n) \X V
        BY <1>1, <2>1
      <4>3. i # 0 => step[<<i, g[i - 1]>>] = g[i - 1] \o seq[i]
        BY <1>1, <4>2
      <4> HIDE DEF step
      <4> QED BY <4>1, <4>3
    <3>2. g = [i \in 0 .. n |-> g[i]]
      BY <2>1
    <3> QED BY <3>1, <3>2
  <2> QED BY <2>1
<1>10. P(c)
  BY <1>8, <1>9
<1> HIDE DEF step
<1>11. P(G)
  BY <1>10, Zenon
<1> DEFINE T == {i \in 0 .. n : G[i] \in V}
<1> HIDE DEF G
<1>12. G[0] = <<>> /\ \A i \in 1 .. n : G[i] = G[i - 1] \o seq[i]
  <2>1. \A i \in 0 .. n : G[i] = IF i = 0 THEN <<>> ELSE G[i - 1] \o seq[i]
    BY <1>11
  <2>2. 0 \in 0 .. n /\ \A i \in 1 .. n : i \in 0 .. n /\ i # 0
    BY <1>1
  <2> QED BY <2>1, <2>2, Zenon
<1>13. DOMAIN G = 0 .. n
  BY <1>11
<1> HIDE DEF P
<1>14. 0 \in T
  BY <1>1, <1>6, <1>12
<1>15. ASSUME NEW i \in 1 .. n, i - 1 \in T PROVE i \in T
  <2>1. G[i] = G[i - 1] \o seq[i] /\ G[i - 1] \in V /\ seq[i] \in V
    BY <1>1, <1>4, <1>12, <1>15, Zenon
  <2>2. G[i] \in V
    BY <1>5, <2>1
  <2> QED BY <1>1, <2>2
<1>16. \A i \in 0 .. n : i \in T
  BY <1>1, <1>14, <1>15, Climb
<1>17. G \in [0 .. n -> V]
  <2>1. G = [i \in 0 .. n |-> G[i]]
    BY <1>11 DEF P
  <2> QED BY <1>16, <2>1
<1>18. IsFound(G, s)
  <2>1. G[0] = <<>> /\ \A i \in 1 .. n : G[i] = G[i - 1] \o EventsAt(s, i)
    BY <1>1, <1>12, Zenon
  <2> QED BY <1>17, <2>1 DEF IsFound, V, n
<1> QED BY <1>3, <1>18 DEF n

LEMMA EventsInGrows ==
  ASSUME NEW s \in Seq(Bytes), NEW b \in Bytes
  PROVE  /\ EventsIn(s) \in Seq(Marks)
         /\ EventsIn(Append(s, b)) =
              IF b = NL /\ Len(Rest(s)) <= MaxLineBytes THEN EventsIn(s) \o ParseLine(Rest(s)) ELSE EventsIn(s)
<1> DEFINE t == Append(s, b)
           n == Len(s)
<1>1. t \in Seq(Bytes) /\ Len(t) = n + 1 /\ t[n + 1] = b /\ n \in Nat /\ \A i \in 1 .. n : t[i] = s[i]
  OBVIOUS
<1>2. \A i \in 1 .. n + 1 : LineOf(t, i) = LineOf(s, i)
  BY LineKept
<1> HIDE DEF t
<1>3. PICK g : IsFound(g, s) /\ EventsIn(s) = g[n]
  BY EventsInIs
<1>4. PICK h : IsFound(h, t) /\ EventsIn(t) = h[n + 1]
  BY <1>1, EventsInIs
<1>5. \A i \in 1 .. n : EventsAt(t, i) = EventsAt(s, i)
  BY <1>1, <1>2 DEF EventsAt
<1>6. g[0] = <<>> /\ h[0] = <<>> /\ h[n + 1] = h[n] \o EventsAt(t, n + 1)
      /\ \A i \in 1 .. n : g[i] = g[i - 1] \o EventsAt(s, i) /\ h[i] = h[i - 1] \o EventsAt(t, i)
  <2>1. n + 1 \in 1 .. n + 1 /\ (n + 1) - 1 = n /\ \A i \in 1 .. n : i \in 1 .. n + 1
    BY <1>1
  <2> QED BY <1>1, <1>3, <1>4, <2>1 DEF IsFound
<1> DEFINE T == {i \in 0 .. n : g[i] = h[i]}
<1> HIDE DEF n
<1>7. 0 \in T
  BY <1>1, <1>6
<1>8. ASSUME NEW i \in 1 .. n, i - 1 \in T PROVE i \in T
  <2>1. g[i - 1] = h[i - 1] /\ i \in 0 .. n
    BY <1>1, <1>8
  <2>2. g[i] = h[i]
    BY <1>5, <1>6, <2>1, Zenon
  <2> QED BY <2>1, <2>2
<1>9. g[n] = h[n]
  <2> HIDE DEF T
  <2>1. \A i \in 0 .. n : i \in T
    BY <1>1, <1>7, <1>8, Climb
  <2>2. n \in T
    BY <1>1, <2>1
  <2> QED BY <2>2 DEF T
<1>10. EventsIn(t) = EventsIn(s) \o EventsAt(t, n + 1)
  BY <1>3, <1>4, <1>6, <1>9
<1>11. EventsIn(s) \in Seq(Marks)
  <2>1. n \in 0 .. n
    BY <1>1
  <2> QED BY <1>3, <2>1 DEF IsFound, n
<1>12. LineOf(t, n + 1) = Rest(s)
  BY <1>1, <1>2 DEF Rest, n
<1>13. EventsAt(t, n + 1) = IF b = NL /\ Len(Rest(s)) <= MaxLineBytes THEN ParseLine(Rest(s)) ELSE <<>>
  BY <1>1, <1>12, Zenon DEF EventsAt
<1>14. EventsIn(s) \o <<>> = EventsIn(s)
  BY <1>11, ConcatEmptySeq
<1> QED BY <1>10, <1>11, <1>13, <1>14 DEF t

\* What is known after reading s: nothing of a line too long, all of a shorter.
IsRead(c, k, p, s) ==
  /\ p = EventsIn(s)
  /\ IF Len(Rest(s)) > MaxLineBytes THEN k = TRUE /\ c = <<>> ELSE k = FALSE /\ c = Rest(s)

LEMMA NothingRead == IsRead(<<>>, FALSE, <<>>, <<>>)
<1> DEFINE s == <<>>
<1>1. s \in Seq(Bytes) /\ Len(s) = 0
  OBVIOUS
<1>2. PICK g : IsFound(g, s) /\ EventsIn(s) = g[Len(s)]
  BY <1>1, EventsInIs
<1>3. EventsIn(s) = <<>>
  BY <1>1, <1>2 DEF IsFound
<1> HIDE DEF s
<1>4. Rest(s) = SubSeq(s, LastEnd(s, 1) + 1, 0) /\ LastEnd(s, 1) \in 0 .. 0
  <2>1. 1 \in 1 .. Len(s) + 1 /\ Len(s) + 1 = 1 /\ 1 - 1 = 0 /\ 1 \in Nat \ {0}
    BY <1>1
  <2>2. LineOf(s, 1) = SubSeq(s, LastEnd(s, 1) + 1, 1 - 1) /\ LastEnd(s, 1) \in 0 .. 1 - 1
    BY <1>1, <2>1, LineIs, LastEndIs
  <2> QED BY <2>1, <2>2 DEF Rest
<1>5. Rest(s) = <<>>
  <2>1. LastEnd(s, 1) + 1 \in Int /\ 0 \in Int /\ 0 < LastEnd(s, 1) + 1
    BY <1>4
  <2> QED BY <1>4, <2>1, SubSeqEmpty
<1>6. Len(Rest(s)) = 0 /\ ~ (0 > MaxLineBytes)
  BY <1>5, LimitsAre
<1>7. IsRead(<<>>, FALSE, <<>>, s)
  BY <1>3, <1>5, <1>6 DEF IsRead, s
<1> QED BY <1>7 DEF s

-----------------------------------------------------------------------------
(* The loop of consume_bytes.                                              *)

IsFeed(st) ==
  /\ st \in [carry : Seq(Bytes \ {NL}), skipping : BOOLEAN, found : Seq(Marks)]
  /\ Len(st.carry) <= MaxLineBytes

\* A turn of it.
IsTurn(st, b, out) ==
  IF b = NL THEN /\ out.carry = <<>> /\ out.skipping = FALSE
                 /\ out.found = st.found \o IF st.skipping THEN <<>> ELSE ParseLine(st.carry)
  ELSE IF st.skipping \/ Len(st.carry) >= MaxLineBytes
  THEN /\ out.carry = (IF st.skipping THEN st.carry ELSE <<>>) /\ out.skipping = TRUE
       /\ out.found = st.found
  ELSE out.carry = Append(st.carry, b) /\ out.skipping = FALSE /\ out.found = st.found

LEMMA FeedIs ==
  ASSUME NEW st, IsFeed(st), NEW b \in Bytes
  PROVE  IsFeed(Feed(st, b)) /\ IsTurn(st, b, Feed(st, b))
<1> DEFINE out == Feed(st, b)
           C == Seq(Bytes \ {NL})
           M == Seq(Marks)
<1>1. /\ st \in [carry : C, skipping : BOOLEAN, found : M] /\ Len(st.carry) <= MaxLineBytes
      /\ st.carry \in C /\ st.skipping \in BOOLEAN /\ st.found \in M
      /\ st = [carry |-> st.carry, skipping |-> st.skipping, found |-> st.found]
  BY DEF IsFeed
<1>2. <<>> \in C /\ Len(<<>>) <= MaxLineBytes
  BY LimitsAre
<1>3. ParseLine(st.carry) \in M /\ <<>> \in M
  <2>1. st.carry \in Seq(Bytes)
    BY <1>1, SeqMonotonic
  <2> QED BY <2>1, ParsedLine
<1>4. CASE b = NL
  <2> DEFINE x == IF st.skipping THEN <<>> ELSE ParseLine(st.carry)
  <2>1. x \in M
    BY <1>3
  <2>2. st.found \o x \in M
    BY <1>1, <2>1, ConcatProperties
  <2>3. out = [carry |-> <<>>, skipping |-> FALSE, found |-> st.found \o x]
    BY <1>4, Zenon DEF Feed
  <2> DEFINE y == st.found \o x
  <2>4. y \in M /\ out = [carry |-> <<>>, skipping |-> FALSE, found |-> y]
    BY <2>2, <2>3
  <2>5. y = st.found \o IF st.skipping THEN <<>> ELSE ParseLine(st.carry)
    OBVIOUS
  <2> HIDE DEF x, y, C, M, out
  <2>6. out \in [carry : C, skipping : BOOLEAN, found : M] /\ out.carry = <<>> /\ out.skipping = FALSE /\ out.found = y
    BY <1>2, <2>4
  <2>7. IsTurn(st, b, out)
    BY <1>4, <2>5, <2>6, Zenon DEF IsTurn
  <2>8. Len(out.carry) <= MaxLineBytes
    BY <1>2, <2>6
  <2> QED BY <2>6, <2>7, <2>8, Zenon DEF IsFeed, C, M, out
<1>5. CASE b # NL /\ st.skipping
  <2>1. out = st
    BY <1>5, Zenon DEF Feed
  <2>2. st.skipping = TRUE
    BY <1>1, <1>5
  <2>3. IsTurn(st, b, st)
    BY <1>5, <2>2, Zenon DEF IsTurn
  <2> QED BY <2>1, <2>3
<1>6. CASE b # NL /\ ~ st.skipping /\ Len(st.carry) >= MaxLineBytes
  <2>1. out = [st EXCEPT !.carry = <<>>, !.skipping = TRUE]
    BY <1>6, Zenon DEF Feed
  <2> HIDE DEF C, M, out
  <2>2. /\ out \in [carry : C, skipping : BOOLEAN, found : M]
        /\ out.carry = <<>> /\ out.skipping = TRUE /\ out.found = st.found
    BY <1>1, <1>2, <2>1
  <2>3. IsTurn(st, b, out)
    BY <1>6, <2>2, Zenon DEF IsTurn
  <2>4. Len(out.carry) <= MaxLineBytes
    BY <1>2, <2>2
  <2> QED BY <2>2, <2>3, <2>4, Zenon DEF IsFeed, C, M, out
<1>7. CASE b # NL /\ ~ st.skipping /\ ~ (Len(st.carry) >= MaxLineBytes)
  <2> DEFINE c == Append(st.carry, b)
  <2>1. c \in C /\ Len(c) = Len(st.carry) + 1 /\ Len(st.carry) \in Nat
    BY <1>1, <1>7
  <2>2. out = [st EXCEPT !.carry = c]
    BY <1>7, Zenon DEF Feed
  <2>3. c = Append(st.carry, b)
    OBVIOUS
  <2> HIDE DEF C, M, out, c
  <2>4. /\ out \in [carry : C, skipping : BOOLEAN, found : M]
        /\ out.carry = c /\ out.skipping = st.skipping /\ out.found = st.found
    BY <1>1, <2>1, <2>2
  <2>5. st.skipping = FALSE
    BY <1>1, <1>7
  <2>6. IsTurn(st, b, out)
    BY <1>7, <2>3, <2>4, <2>5, Zenon DEF IsTurn
  <2>7. Len(out.carry) <= MaxLineBytes
    BY <1>7, <2>1, <2>4, LimitsAre
  <2> QED BY <2>4, <2>6, <2>7, Zenon DEF IsFeed, C, M, out
<1> QED BY <1>4, <1>5, <1>6, <1>7

LEMMA FeedReads ==
  ASSUME NEW s \in Seq(Bytes), NEW st, IsFeed(st), NEW b \in Bytes, NEW q \in Seq(Marks),
         IsRead(st.carry, st.skipping, q \o st.found, s), NEW out, IsTurn(st, b, out)
  PROVE  IsRead(out.carry, out.skipping, q \o out.found, Append(s, b))
<1> DEFINE t == Append(s, b)
           r == Rest(s)
           x == IF b = NL /\ Len(r) <= MaxLineBytes THEN ParseLine(r) ELSE <<>>
<1>1. /\ q \o st.found = EventsIn(s)
      /\ IF Len(r) > MaxLineBytes THEN st.skipping = TRUE /\ st.carry = <<>> ELSE st.skipping = FALSE /\ st.carry = r
  BY Zenon DEF IsRead
<1>2. EventsIn(t) = IF b = NL /\ Len(r) <= MaxLineBytes THEN EventsIn(s) \o ParseLine(r) ELSE EventsIn(s)
  BY EventsInGrows
<1>3. Rest(t) = IF b = NL THEN <<>> ELSE Append(r, b)
  BY RestGrows
<1>4. r \in Seq(Bytes) /\ Len(r) \in Nat /\ MaxLineBytes \in Nat /\ st.found \in Seq(Marks) /\ ParseLine(r) \in Seq(Marks)
  <2>1. r \in Seq(Bytes)
    <3>1. Len(s) + 1 \in 1 .. Len(s) + 1
      OBVIOUS
    <3> QED BY <3>1, LineIs DEF Rest
  <2>2. ParseLine(r) \in Seq(Marks)
    BY <2>1, ParsedLine
  <2> HIDE DEF r
  <2> QED BY <2>1, <2>2, LimitsAre DEF IsFeed
<1>5. Len(<<>>) = 0 /\ ~ (0 > MaxLineBytes)
  BY LimitsAre
<1> HIDE DEF r, t
<1>6. CASE b = NL /\ Len(r) > MaxLineBytes
  <2>1. ~ (Len(r) <= MaxLineBytes)
    BY <1>4, <1>6
  <2>2. st.skipping = TRUE
    BY <1>1, <1>6, Zenon
  <2>3. out.carry = <<>> /\ out.skipping = FALSE /\ out.found = st.found \o <<>>
    BY <1>6, <2>2, Zenon DEF IsTurn
  <2>4. out.found = st.found
    BY <1>4, <2>3, ConcatEmptySeq
  <2>5. Rest(t) = <<>> /\ EventsIn(t) = EventsIn(s)
    BY <1>2, <1>3, <1>6, <2>1, Zenon
  <2> QED BY <1>1, <1>5, <2>3, <2>4, <2>5, Zenon DEF IsRead, t
<1>7. CASE b = NL /\ ~ (Len(r) > MaxLineBytes)
  <2>1. Len(r) <= MaxLineBytes
    BY <1>4, <1>7
  <2>2. st.skipping = FALSE /\ st.carry = r
    BY <1>1, <1>7, Zenon
  <2>3. out.carry = <<>> /\ out.skipping = FALSE /\ out.found = st.found \o ParseLine(r)
    BY <1>7, <2>2, Zenon DEF IsTurn
  <2>4. q \o out.found = (q \o st.found) \o ParseLine(r)
    <3>1. q \o (st.found \o ParseLine(r)) = (q \o st.found) \o ParseLine(r)
      <4> DEFINE f == st.found
                 p == ParseLine(r)
                 M == Seq(Marks)
      <4>1. q \in M /\ f \in M /\ p \in M
        BY <1>4
      <4> HIDE DEF f, p
      <4>2. q \o (f \o p) = (q \o f) \o p
        BY <4>1, ConcatAssociative
      <4> QED BY <4>2, Zenon DEF f, p
    <3> QED BY <2>3, <3>1, Zenon
  <2>5. Rest(t) = <<>> /\ EventsIn(t) = EventsIn(s) \o ParseLine(r)
    BY <1>2, <1>3, <1>7, <2>1, Zenon
  <2> QED BY <1>1, <1>5, <2>3, <2>4, <2>5, Zenon DEF IsRead, t
<1>8. CASE b # NL
  <2> DEFINE u == Append(r, b)
  <2>1. Len(u) = Len(r) + 1
    BY <1>4
  <2>2. Rest(t) = u /\ EventsIn(t) = EventsIn(s)
    BY <1>2, <1>3, <1>8, Zenon
  <2>3. CASE Len(r) > MaxLineBytes
    <3>1. st.skipping = TRUE /\ st.carry = <<>>
      BY <1>1, <2>3, Zenon
    <3>2. out.carry = <<>> /\ out.skipping = TRUE /\ out.found = st.found
      BY <1>8, <3>1, Zenon DEF IsTurn
    <3>3. Len(u) > MaxLineBytes
      BY <1>4, <2>1, <2>3
    <3> QED BY <1>1, <2>2, <3>2, <3>3, Zenon DEF IsRead, t
  <2>4. CASE ~ (Len(r) > MaxLineBytes) /\ Len(r) >= MaxLineBytes
    <3>1. st.skipping = FALSE /\ st.carry = r
      BY <1>1, <2>4, Zenon
    <3>2. out.carry = <<>> /\ out.skipping = TRUE /\ out.found = st.found
      BY <1>8, <2>4, <3>1, Zenon DEF IsTurn
    <3>3. Len(u) > MaxLineBytes
      BY <1>4, <2>1, <2>4
    <3> QED BY <1>1, <2>2, <3>2, <3>3, Zenon DEF IsRead, t
  <2>5. CASE ~ (Len(r) >= MaxLineBytes)
    <3>1. ~ (Len(r) > MaxLineBytes)
      BY <1>4, <2>5
    <3>2. st.skipping = FALSE /\ st.carry = r
      BY <1>1, <3>1, Zenon
    <3>3. out.carry = u /\ out.skipping = FALSE /\ out.found = st.found
      BY <1>8, <2>5, <3>2, Zenon DEF IsTurn
    <3>4. ~ (Len(u) > MaxLineBytes)
      BY <1>4, <2>1, <2>5
    <3> QED BY <1>1, <2>2, <3>3, <3>4, Zenon DEF IsRead, t
  <2> QED BY <2>3, <2>4, <2>5
<1> QED BY <1>6, <1>7, <1>8

\* What the loop carries and has found, turn by turn.
IsConsuming(g, st, chunk) ==
  /\ g[0] = st
  /\ \A i \in 0 .. Len(chunk) : IsFeed(g[i])
  /\ \A i \in 1 .. Len(chunk) : IsTurn(g[i - 1], chunk[i], g[i])

LEMMA ConsumedIs ==
  ASSUME NEW chunk \in Seq(Bytes), NEW st, IsFeed(st)
  PROVE  \E g : IsConsuming(g, st, chunk) /\ Fold(Feed, st, chunk) = g[Len(chunk)]
<1> DEFINE n == Len(chunk)
           F == [carry : Seq(Bytes \ {NL}), skipping : BOOLEAN, found : Seq(Marks)]
           V == {f \in F : Len(f.carry) <= MaxLineBytes}
           step == [p \in (1 .. n) \X V |-> Feed(p[2], chunk[p[1]])]
           P(g) == g = [i \in 0 .. n |-> IF i = 0 THEN st ELSE Feed(g[i - 1], chunk[i])]
           G == CHOOSE g : P(g)
<1>1. n \in Nat /\ \A i \in 1 .. n : chunk[i] \in Bytes
  OBVIOUS
<1>2. Fold(Feed, st, chunk) = G[n]
  BY Zenon DEF Fold
<1>3. \A f : f \in V <=> IsFeed(f)
  BY Zenon DEF IsFeed
<1> HIDE DEF V, n
<1>4. \A f \in V : \A i \in 1 .. n : Feed(f, chunk[i]) \in V /\ IsTurn(f, chunk[i], Feed(f, chunk[i]))
  BY <1>1, <1>3, FeedIs
<1>5. step \in [(1 .. n) \X V -> V]
  BY <1>4
<1>6. st \in V
  BY <1>3
<1>7. PICK c \in [0 .. n -> V] : IsChain(c, step, st, n)
  BY <1>1, <1>5, <1>6, ChainExists
<1>8. P(c)
  <2>1. ASSUME NEW i \in 0 .. n PROVE c[i] = IF i = 0 THEN st ELSE Feed(c[i - 1], chunk[i])
    <3>1. c[i] = IF i = 0 THEN st ELSE step[<<i, c[i - 1]>>]
      BY <1>7 DEF IsChain
    <3>2. i # 0 => i \in 1 .. n /\ c[i - 1] \in V /\ <<i, c[i - 1]>> \in (1 .. n) \X V
      BY <1>1, <1>7
    <3>3. i # 0 => step[<<i, c[i - 1]>>] = Feed(c[i - 1], chunk[i])
      BY <3>2
    <3> HIDE DEF step
    <3> QED BY <3>1, <3>3
  <2>2. c = [i \in 0 .. n |-> c[i]]
    BY <1>7
  <2> QED BY <2>1, <2>2
<1> HIDE DEF step
<1>9. P(G)
  BY <1>8, Zenon
<1> DEFINE T == {i \in 0 .. n : G[i] \in V}
<1> HIDE DEF G
<1>10. G[0] = st /\ \A i \in 1 .. n : G[i] = Feed(G[i - 1], chunk[i])
  <2>1. \A i \in 0 .. n : G[i] = IF i = 0 THEN st ELSE Feed(G[i - 1], chunk[i])
    BY <1>9
  <2>2. 0 \in 0 .. n /\ \A i \in 1 .. n : i \in 0 .. n /\ i # 0
    BY <1>1
  <2> QED BY <2>1, <2>2, Zenon
<1> HIDE DEF P
<1>11. 0 \in T
  BY <1>1, <1>6, <1>10
<1>12. ASSUME NEW i \in 1 .. n, i - 1 \in T PROVE i \in T
  <2>1. G[i - 1] \in V
    BY <1>12
  <2>2. G[i] = Feed(G[i - 1], chunk[i])
    BY <1>10
  <2>3. G[i] \in V
    BY <1>4, <2>1, <2>2
  <2> QED BY <1>1, <2>3
<1>13. \A i \in 0 .. n : G[i] \in V
  <2> HIDE DEF T
  <2>1. \A i \in 0 .. n : i \in T
    BY <1>1, <1>11, <1>12, Climb
  <2> QED BY <2>1 DEF T
<1>14. \A i \in 1 .. n : IsTurn(G[i - 1], chunk[i], G[i])
  <2>1. \A i \in 1 .. n : i - 1 \in 0 .. n
    BY <1>1
  <2> QED BY <1>4, <1>10, <1>13, <2>1
<1>15. IsConsuming(G, st, chunk)
  BY <1>3, <1>10, <1>13, <1>14 DEF IsConsuming, n
<1> QED BY <1>2, <1>15, Zenon DEF n

\* Reading on from where one is: of s, from m, the bytes up to and with m + k.
ReadsOn(out, q, s) == IsRead(out.carry, out.skipping, q \o out.found, s)
Consumed(c, sk, chunk) == Fold(Feed, [carry |-> c, skipping |-> sk, found |-> <<>>], chunk)

LEMMA ConsumedReads ==
  ASSUME NEW s \in Seq(Bytes), NEW b \in Nat, NEW m \in Nat, NEW k \in Nat, b <= m, m + k <= Len(s),
         NEW c \in Seq(Bytes \ {NL}), Len(c) <= MaxLineBytes, NEW sk \in BOOLEAN, NEW q \in Seq(Marks),
         IsRead(c, sk, q, SubSeq(s, b + 1, m))
  PROVE  ReadsOn(Consumed(c, sk, SubSeq(s, m + 1, m + k)), q, SubSeq(s, b + 1, m + k))
<1> DEFINE st == [carry |-> c, skipping |-> sk, found |-> <<>>]
           chunk == SubSeq(s, m + 1, m + k)
           all(i) == SubSeq(s, b + 1, m + i)
<1>1. IsFeed(st) /\ st.carry = c /\ st.skipping = sk /\ st.found = <<>>
  <2>1. <<>> \in Seq(Marks)
    OBVIOUS
  <2> DEFINE M == Seq(Marks)
             C == Seq(Bytes \ {NL})
  <2>2. <<>> \in M /\ c \in C
    BY <2>1
  <2> HIDE DEF M, C
  <2>3. st \in [carry : C, skipping : BOOLEAN, found : M]
    BY <2>2
  <2> QED BY <2>3 DEF IsFeed, M, C
<1>2. chunk \in Seq(Bytes) /\ Len(chunk) = k /\ \A i \in 1 .. k : chunk[i] = s[m + i]
  <2>1. \A i \in m + 1 .. m + k : s[i] \in Bytes
    OBVIOUS
  <2>2. /\ chunk \in Seq(Bytes) /\ Len(chunk) = (IF m + 1 <= m + k THEN (m + k) - (m + 1) + 1 ELSE 0)
        /\ \A i \in 1 .. (m + k) - (m + 1) + 1 : chunk[i] = s[(m + 1) + i - 1]
    BY <2>1, SubSeqProperties
  <2> HIDE DEF chunk
  <2>3. Len(chunk) = k /\ (m + k) - (m + 1) + 1 = k /\ \A i \in 1 .. k : (m + 1) + i - 1 = m + i
    BY <2>2
  <2> QED BY <2>2, <2>3
<1> HIDE DEF st, chunk
<1>3. PICK g : IsConsuming(g, st, chunk) /\ Fold(Feed, st, chunk) = g[k]
  BY <1>1, <1>2, ConsumedIs
<1> DEFINE T == {i \in 0 .. k : IsRead(g[i].carry, g[i].skipping, q \o g[i].found, all(i))}
<1>4. 0 \in T
  <2>1. g[0] = st
    BY <1>3 DEF IsConsuming
  <2>2. q \o <<>> = q
    BY ConcatEmptySeq
  <2>3. m + 0 = m
    OBVIOUS
  <2>4. IsRead(g[0].carry, g[0].skipping, q \o g[0].found, all(0))
    BY <1>1, <2>1, <2>2, <2>3, Zenon
  <2> QED BY <2>4
<1>5. ASSUME NEW i \in 1 .. k, i - 1 \in T PROVE i \in T
  <2>1. IsRead(g[i - 1].carry, g[i - 1].skipping, q \o g[i - 1].found, all(i - 1))
    BY <1>5
  <2>2. IsFeed(g[i - 1]) /\ IsTurn(g[i - 1], chunk[i], g[i]) /\ i - 1 \in 0 .. k
    <3>1. i - 1 \in 0 .. Len(chunk) /\ i \in 1 .. Len(chunk) /\ i - 1 \in 0 .. k
      BY <1>2
    <3> QED BY <1>3, <3>1, Zenon DEF IsConsuming
  <2>3. all(i) = Append(all(i - 1), s[m + i])
    <3>1. b + 1 \in Nat \ {0} /\ m + i \in Nat /\ b + 1 <= m + i /\ m + i <= Len(s) /\ (m + i) - 1 = m + (i - 1)
      OBVIOUS
    <3>2. SubSeq(s, b + 1, m + i) = Append(SubSeq(s, b + 1, (m + i) - 1), s[m + i])
      BY <3>1, SubSeqGrows
    <3> QED BY <3>1, <3>2
  <2>4. all(i - 1) \in Seq(Bytes)
    <3>1. \A j \in b + 1 .. m + (i - 1) : s[j] \in Bytes
      OBVIOUS
    <3> QED BY <3>1, SubSeqProperties
  <2>5. chunk[i] \in Bytes /\ chunk[i] = s[m + i]
    BY <1>2
  <2> HIDE DEF all
  <2>6. IsRead(g[i].carry, g[i].skipping, q \o g[i].found, Append(all(i - 1), chunk[i]))
    BY <2>1, <2>2, <2>4, <2>5, FeedReads
  <2>7. IsRead(g[i].carry, g[i].skipping, q \o g[i].found, all(i))
    BY <2>3, <2>5, <2>6
  <2> QED BY <2>7
<1>6. k \in T
  <2> HIDE DEF T
  <2>1. \A i \in 0 .. k : i \in T
    BY <1>4, <1>5, Climb
  <2> QED BY <2>1
<1> HIDE DEF all
<1>7. ReadsOn(g[k], q, all(k))
  BY <1>6, Zenon DEF ReadsOn
<1>8. Consumed(c, sk, chunk) = g[k]
  BY <1>3, Zenon DEF Consumed, st
<1> QED BY <1>7, <1>8, Zenon DEF chunk, all

-----------------------------------------------------------------------------
(* The newest of a sequence, and the ring.                                 *)

IsEndOf(u, s) == \E d \in Nat : \A i \in 1 .. Len(u) : i + d \in 1 .. Len(s) /\ u[i] = s[i + d]

LEMMA NewestIs ==
  ASSUME NEW S, NEW s \in Seq(S), NEW n \in Nat \ {0}
  PROVE  /\ Newest(s, n) \in Seq(S) /\ Len(Newest(s, n)) <= n
         /\ IsEndOf(Newest(s, n), s)
<1>1. CASE Len(s) > n
  <2> DEFINE d == Len(s) - n
             u == SubSeq(s, d + 1, Len(s))
  <2>1. d \in Nat /\ d + 1 <= Len(s) /\ Len(s) - (d + 1) + 1 = n
    BY <1>1
  <2>2. \A i \in d + 1 .. Len(s) : s[i] \in S
    BY <2>1
  <2>3. d + 1 \in Int /\ Len(s) \in Int
    BY <2>1
  <2> DEFINE m == d + 1
             l == Len(s)
  <2> HIDE DEF d
  <2>4. /\ u \in Seq(S) /\ Len(u) = (IF m <= l THEN l - m + 1 ELSE 0)
        /\ \A i \in 1 .. l - m + 1 : u[i] = s[m + i - 1]
    BY <2>2, <2>3, SubSeqProperties
  <2> HIDE DEF u
  <2>5. Len(u) = n /\ \A i \in 1 .. n : u[i] = s[i + d] /\ i + d \in 1 .. Len(s)
    <3>1. \A i \in 1 .. n : m + i - 1 = i + d /\ i + d \in 1 .. Len(s)
      BY <2>1
    <3> QED BY <2>1, <2>4, <3>1
  <2>6. Newest(s, n) = u
    BY <1>1 DEF Newest, u, d
  <2>7. IsEndOf(u, s)
    BY <2>1, <2>5 DEF IsEndOf
  <2>8. Len(u) <= n
    BY <2>5
  <2> QED BY <2>4, <2>6, <2>7, <2>8
<1>2. CASE ~ (Len(s) > n)
  <2>1. Newest(s, n) = s
    BY <1>2, Zenon DEF Newest
  <2>2. Len(s) <= n /\ 0 \in Nat /\ \A i \in 1 .. Len(s) : i + 0 \in 1 .. Len(s) /\ s[i] = s[i + 0]
    BY <1>2
  <2>3. IsEndOf(s, s)
    BY <2>2 DEF IsEndOf
  <2> QED BY <2>1, <2>2, <2>3
<1> QED BY <1>1, <1>2

Rows == [id : Ids, done : BOOLEAN]

\* The request ring: within its capacity, one row per request.
IsRing(r) ==
  /\ r \in Seq(Rows) /\ Len(r) <= MaxEntries
  /\ \A i, j \in 1 .. Len(r) : r[i].id = r[j].id => i = j

LEMMA NoteKeeps ==
  ASSUME NEW r, IsRing(r), NEW e \in Marks
  PROVE  IsRing(Note(r, e))
<1> DEFINE kind == e[1]
           id == e[2]
           fin == kind = "finished"
<1>1. id \in Ids /\ fin \in BOOLEAN
  BY DEF Marks
<1>2. /\ r \in Seq(Rows) /\ Len(r) \in Nat /\ Len(r) <= MaxEntries /\ DOMAIN r = 1 .. Len(r)
      /\ \A i \in 1 .. Len(r) : r[i] \in Rows
      /\ \A i, j \in 1 .. Len(r) : r[i].id = r[j].id => i = j
  BY DEF IsRing
<1>3. CASE EntryOf(r, id) # {}
  <2> DEFINE row(i) == IF r[i].id = id THEN [r[i] EXCEPT !.done = fin] ELSE r[i]
             q == [i \in DOMAIN r |-> row(i)]
  <2>1. \A x \in Rows : \A d \in BOOLEAN : [x EXCEPT !.done = d] \in Rows /\ [x EXCEPT !.done = d].id = x.id
    BY DEF Rows
  <2> HIDE DEF fin
  <2>2. \A i \in 1 .. Len(r) : row(i) \in Rows /\ row(i).id = r[i].id
    BY <1>1, <1>2, <2>1
  <2>3. Note(r, e) = q
    BY <1>3, Zenon DEF Note, fin
  <2> HIDE DEF row
  <2>4. q \in Seq(Rows) /\ Len(q) = Len(r) /\ \A i \in 1 .. Len(r) : q[i].id = r[i].id
    BY <1>2, <2>2
  <2> HIDE DEF q
  <2>5. IsRing(q)
    BY <1>2, <2>4 DEF IsRing
  <2> QED BY <2>3, <2>5
<1>4. CASE EntryOf(r, id) = {} /\ kind = "received"
  <2> DEFINE x == [id |-> id, done |-> FALSE]
             t == Append(r, x)
             q == Newest(t, MaxEntries)
  <2>1. x \in Rows /\ x.id = id
    BY <1>1 DEF Rows
  <2>2. Note(r, e) = q
    BY <1>4, Zenon DEF Note
  <2>3. \A i \in 1 .. Len(r) : r[i].id # id
    BY <1>2, <1>4 DEF EntryOf
  <2> HIDE DEF x
  <2>4. t \in Seq(Rows) /\ Len(t) = Len(r) + 1 /\ t[Len(r) + 1] = x /\ \A i \in 1 .. Len(r) : t[i] = r[i]
    BY <1>2, <2>1
  <2> HIDE DEF t
  <2>5. \A i, j \in 1 .. Len(t) : t[i].id = t[j].id => i = j
    <3> SUFFICES ASSUME NEW i \in 1 .. Len(t), NEW j \in 1 .. Len(t), t[i].id = t[j].id PROVE i = j
      OBVIOUS
    <3>1. CASE i \in 1 .. Len(r) /\ j \in 1 .. Len(r)
      BY <1>2, <2>4, <3>1
    <3>2. CASE i = Len(r) + 1 /\ j \in 1 .. Len(r)
      BY <2>1, <2>3, <2>4, <3>2
    <3>3. CASE j = Len(r) + 1 /\ i \in 1 .. Len(r)
      BY <2>1, <2>3, <2>4, <3>3
    <3>4. CASE i = Len(r) + 1 /\ j = Len(r) + 1
      BY <3>4
    <3> QED BY <1>2, <2>4, <3>1, <3>2, <3>3, <3>4
  <2>6. q \in Seq(Rows) /\ Len(q) <= MaxEntries
    BY <2>4, LimitsAre, NewestIs
  <2>10. IsEndOf(q, t)
    BY <2>4, LimitsAre, NewestIs
  <2> HIDE DEF q
  <2>7. PICK d \in Nat : \A i \in 1 .. Len(q) : i + d \in 1 .. Len(t) /\ q[i] = t[i + d]
    BY <2>10 DEF IsEndOf
  <2>8. \A i, j \in 1 .. Len(q) : q[i].id = q[j].id => i = j
    <3> SUFFICES ASSUME NEW i \in 1 .. Len(q), NEW j \in 1 .. Len(q), q[i].id = q[j].id PROVE i = j
      OBVIOUS
    <3>1. i + d \in 1 .. Len(t) /\ j + d \in 1 .. Len(t) /\ t[i + d].id = t[j + d].id
      BY <2>7
    <3>2. i + d = j + d
      BY <2>5, <3>1
    <3> QED BY <3>2
  <2>9. IsRing(q)
    BY <2>6, <2>8 DEF IsRing
  <2> QED BY <2>2, <2>9
<1>5. CASE EntryOf(r, id) = {} /\ kind # "received"
  <2>1. Note(r, e) = r
    BY <1>5, Zenon DEF Note
  <2> QED BY <2>1
<1> QED BY <1>3, <1>4, <1>5, Zenon

LEMMA RingKept ==
  ASSUME NEW events \in Seq(Marks), NEW r, IsRing(r)
  PROVE  IsRing(Fold(Note, r, events))
<1> DEFINE n == Len(events)
           V == {v \in Seq(Rows) : Len(v) <= MaxEntries /\ \A i, j \in 1 .. Len(v) : v[i].id = v[j].id => i = j}
           step == [p \in (1 .. n) \X V |-> Note(p[2], events[p[1]])]
           P(g) == g = [i \in 0 .. n |-> IF i = 0 THEN r ELSE Note(g[i - 1], events[i])]
           G == CHOOSE g : P(g)
<1>1. n \in Nat /\ \A i \in 1 .. n : events[i] \in Marks
  OBVIOUS
<1>2. Fold(Note, r, events) = G[n]
  BY Zenon DEF Fold
<1>3. \A f : f \in V <=> IsRing(f)
  BY Zenon DEF IsRing
<1> HIDE DEF V, n
<1>4. \A f \in V : \A i \in 1 .. n : Note(f, events[i]) \in V
  BY <1>1, <1>3, NoteKeeps
<1>5. step \in [(1 .. n) \X V -> V]
  BY <1>4
<1>6. r \in V
  BY <1>3
<1>7. PICK c \in [0 .. n -> V] : IsChain(c, step, r, n)
  BY <1>1, <1>5, <1>6, ChainExists
<1>8. P(c)
  <2>1. ASSUME NEW i \in 0 .. n PROVE c[i] = IF i = 0 THEN r ELSE Note(c[i - 1], events[i])
    <3>1. c[i] = IF i = 0 THEN r ELSE step[<<i, c[i - 1]>>]
      BY <1>7 DEF IsChain
    <3>2. i # 0 => i \in 1 .. n /\ c[i - 1] \in V /\ <<i, c[i - 1]>> \in (1 .. n) \X V
      BY <1>1, <1>7
    <3>3. i # 0 => step[<<i, c[i - 1]>>] = Note(c[i - 1], events[i])
      BY <3>2
    <3> HIDE DEF step
    <3> QED BY <3>1, <3>3
  <2>2. c = [i \in 0 .. n |-> c[i]]
    BY <1>7
  <2> QED BY <2>1, <2>2
<1> HIDE DEF step
<1>9. P(G)
  BY <1>8, Zenon
<1> DEFINE T == {i \in 0 .. n : G[i] \in V}
<1> HIDE DEF G
<1>10. G[0] = r /\ \A i \in 1 .. n : G[i] = Note(G[i - 1], events[i])
  <2>1. \A i \in 0 .. n : G[i] = IF i = 0 THEN r ELSE Note(G[i - 1], events[i])
    BY <1>9
  <2>2. 0 \in 0 .. n /\ \A i \in 1 .. n : i \in 0 .. n /\ i # 0
    BY <1>1
  <2> QED BY <2>1, <2>2, Zenon
<1> HIDE DEF P
<1>11. 0 \in T
  BY <1>1, <1>6, <1>10
<1>12. ASSUME NEW i \in 1 .. n, i - 1 \in T PROVE i \in T
  <2>1. G[i - 1] \in V
    BY <1>12
  <2>2. G[i] = Note(G[i - 1], events[i])
    BY <1>10
  <2>3. G[i] \in V
    BY <1>4, <2>1, <2>2
  <2> QED BY <1>1, <2>3
<1>13. G[n] \in V
  <2> HIDE DEF T
  <2>1. \A i \in 0 .. n : i \in T
    BY <1>1, <1>11, <1>12, Climb
  <2>2. n \in T
    BY <1>1, <2>1
  <2> QED BY <2>2 DEF T
<1> QED BY <1>2, <1>3, <1>13

LEMMA OneRowEach ==
  ASSUME IsRing(ring)
  PROVE  OneRowPerRequest
<1>1. Len(ring) <= MaxEntries
  BY DEF IsRing
<1>2. ASSUME NEW id \in Ids PROVE Cardinality(EntryOf(ring, id)) <= 1
  <2> DEFINE E == EntryOf(ring, id)
  <2>1. \A i, j \in E : i = j
    BY DEF EntryOf, IsRing
  <2>2. CASE E = {}
    BY <2>2, FS_EmptySet
  <2>3. CASE E # {}
    <3>1. PICK i \in E : TRUE
      BY <2>3
    <3> HIDE DEF E
    <3>2. E = {i}
      BY <2>1, <3>1
    <3>3. Cardinality(E) = 1
      BY <3>2, FS_Singleton
    <3> QED BY <3>3 DEF E
  <2> QED BY <2>2, <2>3
<1> QED BY <1>1, <1>2 DEF OneRowPerRequest

-----------------------------------------------------------------------------
(* The invariant.                                                          *)

Messages == [status : {"other", "missing", "tailing"}, events : Seq(Marks)]

FileInv ==
  /\ exists \in BOOLEAN /\ file \in Seq(Bytes) /\ Len(file) <= MaxFileBytes
  /\ files \in Nat \ {0}

TaskInv ==
  /\ initialized \in BOOLEAN /\ skipping \in BOOLEAN
  /\ offset \in Nat
  /\ carry \in Seq(Bytes \ {NL}) /\ Len(carry) <= MaxLineBytes

HistoryInv ==
  /\ blind \in BOOLEAN /\ base \in Nat /\ base <= offset
  /\ parsed \in Seq(Marks) /\ readFrom \in Nat /\ readFrom <= files

\* metadata showed something to read, or the tailer would not be about to.
StepInv ==
  /\ pc \in {"tick", "read"} /\ metaLen \in Nat
  /\ pc = "read" => offset < metaLen

ChannelInv ==
  /\ lastStatus \in {"none", "missing", "tailing"}
  /\ channel \in Seq(Messages) /\ Len(channel) <= ChannelCapacity

AppInv == tailStatus \in {"none", "missing", "tailing"} /\ IsRing(ring)

\* What is carried and was found is what there is in the bytes read so far.
\* At offset 0 that is nothing, whichever file they came from.
ReadInv ==
  /\ offset = 0 => base = 0 /\ carry = <<>> /\ skipping = FALSE /\ parsed = <<>>
  /\ ~ blind /\ readFrom = files /\ exists =>
       offset <= Len(file) /\ IsRead(carry, skipping, parsed, SubSeq(file, base + 1, offset))

TailInv == FileInv /\ TaskInv /\ HistoryInv /\ StepInv /\ ChannelInv /\ AppInv /\ ReadInv

LEMMA TailInvHolds ==
  ASSUME TailInv
  PROVE  TailTypeOK /\ ReadsEachLineOnce /\ OneRowPerRequest
<1>1. TailTypeOK
  BY DEF TailInv, FileInv, TaskInv, HistoryInv, StepInv, ChannelInv, AppInv, TailTypeOK
<1>2. ReadsEachLineOnce
  BY Zenon DEF TailInv, ReadInv, IsRead, ReadsEachLineOnce
<1>3. OneRowPerRequest
  BY OneRowEach DEF TailInv, AppInv
<1> QED BY <1>1, <1>2, <1>3

LEMMA ReportKeeps ==
  ASSUME ChannelInv, NEW status \in {"missing", "tailing"}, NEW events \in Seq(Marks), Report(status, events)
  PROVE  ChannelInv' /\ pc' = "tick" /\ metaLen' = 0 /\ UNCHANGED <<fileVars, others, appVars>>
<1> DEFINE m == [status |-> status, events |-> events]
<1>1. pc' = "tick" /\ metaLen' = 0 /\ UNCHANGED <<fileVars, others, appVars>>
  BY Zenon DEF Report
<1>2. m \in Messages
  <2> DEFINE E == Seq(Marks)
  <2> HIDE DEF E
  <2>1. events \in E => m \in [status : {"other", "missing", "tailing"}, events : E]
    OBVIOUS
  <2> QED BY <2>1 DEF E, Messages
<1>3. \/ lastStatus' = lastStatus /\ channel' = channel
      \/ lastStatus' = status /\ channel' = channel
      \/ lastStatus' = status /\ Len(channel) < ChannelCapacity /\ channel' = Append(channel, m)
  BY Zenon DEF Report
<1> HIDE DEF m
<1>4. channel' \in Seq(Messages) /\ Len(channel') <= ChannelCapacity
  <2>1. channel \in Seq(Messages) /\ Len(channel) <= ChannelCapacity /\ ChannelCapacity \in Nat
    BY LimitsAre DEF ChannelInv
  <2> DEFINE M == Messages
  <2> HIDE DEF M
  <2>2. channel \in Seq(M) /\ m \in M
    BY <1>2, <2>1 DEF M
  <2> DEFINE c == Append(channel, m)
  <2>4. c \in Seq(M) /\ Len(c) = Len(channel) + 1 /\ Len(channel) \in Nat
    BY <2>2
  <2> HIDE DEF c
  <2>5. Len(channel) < ChannelCapacity => Len(c) <= ChannelCapacity
    BY <2>1, <2>4
  <2>6. channel' = channel \/ (Len(channel) < ChannelCapacity /\ channel' = c)
    BY <1>3, Zenon DEF c
  <2>3. channel' \in Seq(M) /\ Len(channel') <= ChannelCapacity
    BY <2>1, <2>2, <2>4, <2>5, <2>6, Zenon
  <2> QED BY <2>3 DEF M
<1>5. lastStatus' \in {"none", "missing", "tailing"}
  BY <1>3 DEF ChannelInv
<1>6. ChannelInv'
  BY <1>4, <1>5 DEF ChannelInv
<1> QED BY <1>1, <1>6

LEMMA RestartKeeps ==
  ASSUME FileInv, NEW at \in Nat, at <= Len(file), Restart(at), UNCHANGED fileVars, initialized' \in BOOLEAN
  PROVE  FileInv' /\ TaskInv' /\ HistoryInv' /\ ReadInv'
<1>1. /\ offset' = at /\ carry' = <<>> /\ skipping' = FALSE /\ base' = at /\ parsed' = <<>>
      /\ readFrom' = files /\ blind' = FALSE
  BY Zenon DEF Restart
<1>2. exists' = exists /\ file' = file /\ files' = files
  BY DEF fileVars
<1>3. FileInv'
  BY <1>2 DEF FileInv
<1>4. <<>> \in Seq(Bytes \ {NL}) /\ Len(<<>>) <= MaxLineBytes /\ <<>> \in Seq(Marks)
  BY LimitsAre
<1>5. TaskInv'
  <2> DEFINE C == Seq(Bytes \ {NL})
  <2>1. <<>> \in C
    BY <1>4
  <2> HIDE DEF C
  <2>2. carry' \in C /\ Len(carry') <= MaxLineBytes /\ skipping' \in BOOLEAN /\ offset' \in Nat
    BY <1>1, <1>4, <2>1
  <2> QED BY <2>2 DEF TaskInv, C
<1>6. HistoryInv'
  <2> DEFINE M == Seq(Marks)
  <2>1. <<>> \in M
    BY <1>4
  <2> HIDE DEF M
  <2>2. parsed' \in M
    BY <1>1, <2>1, Zenon
  <2>3. base' \in Nat /\ base' <= offset' /\ readFrom' \in Nat /\ readFrom' <= files'
    BY <1>1, <1>2 DEF FileInv
  <2>4. blind' \in BOOLEAN
    BY <1>1
  <2> QED BY <2>2, <2>3, <2>4, Zenon DEF HistoryInv, M
<1>7. SubSeq(file, at + 1, at) = <<>>
  BY SubSeqEmpty
<1>8. IsRead(carry', skipping', parsed', SubSeq(file', base' + 1, offset'))
  BY <1>1, <1>2, <1>7, NothingRead, Zenon
<1>9. offset' <= Len(file')
  BY <1>1, <1>2
<1>10. ReadInv'
  BY <1>1, <1>8, <1>9 DEF ReadInv
<1> QED BY <1>3, <1>5, <1>6, <1>10

LEMMA TailStarts ==
  ASSUME TailInit
  PROVE  TailInv
<1>1. /\ exists \in BOOLEAN /\ file \in {<<>>, <<Other>>} /\ files = 1 /\ pc = "tick" /\ metaLen = 0
      /\ offset = 0 /\ initialized = FALSE /\ carry = <<>> /\ skipping = FALSE /\ lastStatus = "none"
      /\ channel = <<>> /\ ring = <<>> /\ tailStatus = "none" /\ parsed = <<>> /\ base = 0
      /\ readFrom = 1 /\ blind = FALSE
  BY DEF TailInit
<1>2. FileInv
  <2>1. Other \in Bytes
    BY DEF Bytes
  <2> DEFINE B == Bytes
  <2> HIDE DEF B
  <2>2. Other \in B => <<Other>> \in Seq(B) /\ <<>> \in Seq(B) /\ Len(<<Other>>) = 1 /\ Len(<<>>) = 0
    OBVIOUS
  <2>4. file \in Seq(B) /\ Len(file) \in {0, 1}
    BY <1>1, <2>1, <2>2 DEF B
  <2>3. file \in Seq(Bytes) /\ Len(file) <= MaxFileBytes
    BY <2>4, LimitsAre DEF B
  <2> QED BY <1>1, <2>3 DEF FileInv
<1>3. <<>> \in Seq(Bytes \ {NL}) /\ Len(<<>>) = 0 /\ <<>> \in Seq(Marks) /\ <<>> \in Seq(Messages) /\ <<>> \in Seq(Rows)
  OBVIOUS
<1>4. TaskInv
  <2>1. carry \in Seq(Bytes \ {NL})
    BY <1>1, <1>3, Zenon
  <2>2. Len(carry) <= MaxLineBytes
    BY <1>1, <1>3, LimitsAre
  <2>3. initialized \in BOOLEAN /\ skipping \in BOOLEAN
    BY <1>1
  <2>4. offset \in Nat
    BY <1>1
  <2> QED BY <2>1, <2>2, <2>3, <2>4, Zenon DEF TaskInv
<1>5. HistoryInv
  <2>1. parsed \in Seq(Marks)
    BY <1>1, <1>3, Zenon
  <2>2. blind \in BOOLEAN
    BY <1>1
  <2>3. base \in Nat /\ base <= offset /\ readFrom \in Nat /\ readFrom <= files
    BY <1>1
  <2> QED BY <2>1, <2>2, <2>3, Zenon DEF HistoryInv
<1>6. StepInv
  BY <1>1 DEF StepInv
<1>7. ChannelInv
  BY <1>1, <1>3, LimitsAre DEF ChannelInv
<1>8. AppInv
  BY <1>1, <1>3, LimitsAre DEF AppInv, IsRing
<1>9. ReadInv
  <2>1. SubSeq(file, 1, 0) = <<>>
    BY <1>2, SubSeqEmpty DEF FileInv
  <2>2. 0 + 1 = 1
    OBVIOUS
  <2>3. IsRead(carry, skipping, parsed, SubSeq(file, base + 1, offset))
    BY <1>1, <2>1, <2>2, NothingRead, Zenon
  <2>4. offset <= Len(file)
    BY <1>1, <1>2 DEF FileInv
  <2> QED BY <1>1, <2>3, <2>4 DEF ReadInv
<1> QED BY <1>2, <1>4, <1>5, <1>6, <1>7, <1>8, <1>9 DEF TailInv

-----------------------------------------------------------------------------
(* Each action keeps it.                                                   *)

LEMMA WriteKeeps ==
  ASSUME TailInv, NEW b \in Bytes, Write(b)
  PROVE  TailInv'
<1>1. /\ exists /\ Len(file) < MaxFileBytes /\ file' = Append(file, b)
      /\ exists' = exists /\ files' = files
      /\ UNCHANGED <<errors, pc, taskVars, channel, others, appVars, readVars>>
  BY DEF Write
<1>2. file \in Seq(Bytes) /\ file' \in Seq(Bytes) /\ Len(file') = Len(file) + 1 /\ Len(file) \in Nat
      /\ \A i \in 1 .. Len(file) : file'[i] = file[i]
  BY <1>1 DEF TailInv, FileInv
<1>3. FileInv'
  <2>1. Len(file') <= MaxFileBytes
    BY <1>1, <1>2, LimitsAre
  <2> QED BY <1>1, <1>2, <2>1 DEF TailInv, FileInv
<1>4. TaskInv' /\ HistoryInv' /\ StepInv' /\ ChannelInv' /\ AppInv'
  BY <1>1 DEF TailInv, TaskInv, HistoryInv, StepInv, ChannelInv, AppInv, taskVars, readVars, appVars
<1>5. ReadInv'
  <2>1. offset' = offset /\ base' = base /\ carry' = carry /\ skipping' = skipping /\ parsed' = parsed
        /\ blind' = blind /\ readFrom' = readFrom
    BY <1>1 DEF taskVars, readVars
  <2>2. ASSUME ~ blind, readFrom = files, exists
        PROVE  /\ offset <= Len(file')
               /\ IsRead(carry, skipping, parsed, SubSeq(file', base + 1, offset))
    <3>1. offset <= Len(file) /\ IsRead(carry, skipping, parsed, SubSeq(file, base + 1, offset))
      BY <2>2, Zenon DEF TailInv, ReadInv
    <3>2. base + 1 \in Nat \ {0} /\ offset \in Nat /\ offset <= Len(file') /\ base \in Nat
      BY <1>2, <3>1 DEF TailInv, TaskInv, HistoryInv
    <3>3. \A i \in base + 1 .. offset : file'[i] = file[i]
      BY <1>2, <3>1, <3>2
    <3>4. SubSeq(file', base + 1, offset) = SubSeq(file, base + 1, offset)
      BY <1>2, <3>1, <3>2, <3>3, SubSeqAgrees
    <3> QED BY <3>1, <3>2, <3>4
  <2> QED BY <1>1, <2>1, <2>2, Zenon DEF TailInv, ReadInv
<1> QED BY <1>3, <1>4, <1>5 DEF TailInv

\* The file that was read is not this one, or not there.
LEMMA ReplaceKeeps ==
  ASSUME TailInv, Replace \/ Unlink
  PROVE  TailInv'
<1>1. /\ UNCHANGED <<pc, taskVars, channel, others, appVars, readVars>> /\ file' = <<>>
      /\ \/ exists' = TRUE /\ files' = files + 1
         \/ exists' = FALSE /\ files' = files
  BY DEF Replace, Unlink
<1>2. FileInv'
  <2>1. <<>> \in Seq(Bytes) /\ Len(<<>>) = 0
    OBVIOUS
  <2>2. file' \in Seq(Bytes) /\ Len(file') <= MaxFileBytes
    BY <1>1, <2>1, LimitsAre
  <2>3. exists' \in BOOLEAN
    BY <1>1
  <2>4. files' \in Nat \ {0}
    BY <1>1 DEF TailInv, FileInv
  <2> QED BY <2>2, <2>3, <2>4, Zenon DEF FileInv
<1>3. TaskInv' /\ StepInv' /\ ChannelInv' /\ AppInv'
  BY <1>1 DEF TailInv, TaskInv, StepInv, ChannelInv, AppInv, taskVars, appVars
<1>6. HistoryInv'
  <2>1. readFrom' = readFrom /\ files \in Nat /\ readFrom \in Nat /\ readFrom <= files
    BY <1>1 DEF readVars, TailInv, FileInv, HistoryInv
  <2>2. readFrom' <= files' /\ readFrom' \in Nat
    BY <1>1, <2>1
  <2> QED BY <1>1, <2>2 DEF TailInv, HistoryInv, readVars, taskVars
<1>4. ~ (readFrom' = files' /\ exists')
  <2>1. readFrom' = readFrom /\ files \in Nat /\ readFrom \in Nat /\ readFrom <= files
    BY <1>1 DEF readVars, TailInv, FileInv, HistoryInv
  <2> QED BY <1>1, <2>1
<1>5. ReadInv'
  <2>1. offset' = offset /\ base' = base /\ carry' = carry /\ skipping' = skipping /\ parsed' = parsed
    BY <1>1 DEF taskVars, readVars
  <2> QED BY <1>4, <2>1, Zenon DEF TailInv, ReadInv
<1> QED BY <1>2, <1>3, <1>5, <1>6 DEF TailInv

LEMMA RestartingKeeps ==
  ASSUME TailInv, FindMissing \/ FirstSight \/ Emptied
  PROVE  TailInv'
<1>1. PICK at \in Nat, status \in {"missing", "tailing"} :
        at <= Len(file) /\ Restart(at) /\ initialized' \in BOOLEAN /\ Report(status, <<>>)
  <2>1. file \in Seq(Bytes) /\ Len(file) \in Nat /\ initialized \in BOOLEAN
    BY DEF TailInv, FileInv, TaskInv
  <2>2. CASE FindMissing
    <3>1. Restart(0) /\ Report("missing", <<>>) /\ initialized' = TRUE
      BY <2>2, Zenon DEF FindMissing
    <3>2. initialized' \in BOOLEAN /\ 0 \in Nat /\ 0 <= Len(file) /\ "missing" \in {"missing", "tailing"}
      BY <2>1, <3>1
    <3> QED BY <3>1, <3>2, Zenon
  <2>3. CASE FirstSight
    <3>1. Restart(Len(file)) /\ Report("tailing", <<>>) /\ initialized' = TRUE
      BY <2>3, Zenon DEF FirstSight
    <3>2. initialized' \in BOOLEAN /\ Len(file) <= Len(file) /\ "tailing" \in {"missing", "tailing"}
      BY <2>1, <3>1
    <3> QED BY <2>1, <3>1, <3>2, Zenon
  <2>4. CASE Emptied
    <3>1. Restart(0) /\ Report("tailing", <<>>) /\ initialized' = initialized
      BY <2>4 DEF Emptied
    <3>2. initialized' \in BOOLEAN /\ 0 \in Nat /\ 0 <= Len(file) /\ "tailing" \in {"missing", "tailing"}
      BY <2>1, <3>1
    <3> QED BY <3>1, <3>2, Zenon
  <2> QED BY <2>2, <2>3, <2>4
<1>2. <<>> \in Seq(Marks)
  OBVIOUS
<1>3. ChannelInv' /\ pc' = "tick" /\ metaLen' = 0 /\ UNCHANGED <<fileVars, others, appVars>>
  BY <1>1, <1>2, ReportKeeps DEF TailInv
<1>4. UNCHANGED fileVars
  BY <1>3, Zenon
<1>5. FileInv' /\ TaskInv' /\ HistoryInv' /\ ReadInv'
  BY <1>1, <1>4, RestartKeeps DEF TailInv
<1>6. AppInv'
  BY <1>3 DEF TailInv, AppInv, appVars
<1>7. StepInv'
  BY <1>3 DEF StepInv
<1> QED BY <1>3, <1>5, <1>6, <1>7 DEF TailInv

LEMMA UnchangedKeeps ==
  ASSUME TailInv, Unchanged \/ OpenFails \/ SeekFails
  PROVE  TailInv'
<1>1. UNCHANGED <<offset, initialized, carry, skipping, readVars>>
  BY Zenon DEF Unchanged, OpenFails, SeekFails
<1>2. PICK status \in {"missing", "tailing"} : Report(status, <<>>)
  BY Zenon DEF Unchanged, OpenFails, SeekFails
<1>3. <<>> \in Seq(Marks)
  OBVIOUS
<1>4. ChannelInv' /\ pc' = "tick" /\ metaLen' = 0 /\ UNCHANGED <<fileVars, others, appVars>>
  BY <1>2, <1>3, ReportKeeps DEF TailInv
<1>5. FileInv' /\ TaskInv' /\ HistoryInv' /\ AppInv'
  BY <1>1, <1>4 DEF TailInv, FileInv, TaskInv, HistoryInv, AppInv, readVars, fileVars, appVars
<1>6. StepInv'
  BY <1>4 DEF StepInv
<1>7. ReadInv'
  <2>1. /\ offset' = offset /\ base' = base /\ carry' = carry /\ skipping' = skipping /\ parsed' = parsed
        /\ blind' = blind /\ readFrom' = readFrom /\ files' = files /\ exists' = exists /\ file' = file
    BY <1>1, <1>4 DEF readVars, fileVars
  <2> QED BY <2>1 DEF TailInv, ReadInv
<1> QED BY <1>4, <1>5, <1>6, <1>7 DEF TailInv

LEMMA FindMoreKeeps ==
  ASSUME TailInv, FindMore
  PROVE  TailInv'
<1>1. /\ Len(file) # offset /\ file # <<>> /\ pc' = "read" /\ metaLen' = Len(file)
      /\ UNCHANGED <<fileVars, errors, initialized, lastStatus, channel, others, appVars>>
  BY Zenon DEF FindMore
<1>2. IF Shrunk(Len(file)) THEN Restart(0) ELSE UNCHANGED <<offset, carry, skipping, readVars>>
  BY Zenon DEF FindMore
<1>3. ChannelInv' /\ AppInv' /\ FileInv'
  BY <1>1 DEF TailInv, ChannelInv, AppInv, FileInv, fileVars, appVars
<1>4. file \in Seq(Bytes) /\ Len(file) \in Nat /\ Len(file) # 0 /\ offset \in Nat /\ initialized \in BOOLEAN
  BY <1>1 DEF TailInv, FileInv, TaskInv
<1>5. CASE Shrunk(Len(file))
  <2>1. Restart(0) /\ UNCHANGED fileVars /\ initialized' = initialized
    BY <1>1, <1>2, <1>5, Zenon
  <2>2. initialized' \in BOOLEAN /\ 0 \in Nat /\ 0 <= Len(file)
    BY <1>4, <2>1
  <2>3. TaskInv' /\ HistoryInv' /\ ReadInv'
    BY <2>1, <2>2, RestartKeeps DEF TailInv
  <2>4. offset' = 0
    BY <2>1, Zenon DEF Restart
  <2>5. StepInv'
    BY <1>1, <1>4, <2>4 DEF StepInv
  <2> QED BY <1>3, <2>3, <2>5 DEF TailInv
<1>6. CASE ~ Shrunk(Len(file))
  <2>1. UNCHANGED <<offset, carry, skipping, readVars>>
    BY <1>2, <1>6, Zenon
  <2>2. /\ offset' = offset /\ base' = base /\ carry' = carry /\ skipping' = skipping /\ parsed' = parsed
        /\ blind' = blind /\ readFrom' = readFrom /\ files' = files /\ exists' = exists /\ file' = file
        /\ initialized' = initialized
    BY <1>1, <2>1 DEF readVars, fileVars
  <2>3. TaskInv' /\ HistoryInv'
    BY <2>2 DEF TailInv, TaskInv, HistoryInv
  <2>4. ReadInv'
    BY <2>2 DEF TailInv, ReadInv
  <2>5. offset' < metaLen'
    BY <1>1, <1>4, <1>6, <2>2 DEF Shrunk
  <2>6. StepInv'
    BY <1>1, <1>4, <2>5 DEF StepInv
  <2> QED BY <1>3, <2>3, <2>4, <2>6 DEF TailInv
<1> QED BY <1>5, <1>6

LEMMA OthersSendKeeps ==
  ASSUME TailInv, OthersSend
  PROVE  TailInv'
<1> DEFINE m == [status |-> "other", events |-> <<>>]
           c == Append(channel, m)
<1>1. /\ Len(channel) < ChannelCapacity /\ channel' = c
      /\ UNCHANGED <<fileVars, errors, pc, taskVars, appVars, readVars>>
  BY DEF OthersSend
<1>2. m \in Messages
  <2> DEFINE E == Seq(Marks)
  <2>1. <<>> \in E
    OBVIOUS
  <2> HIDE DEF E
  <2>2. m \in [status : {"other", "missing", "tailing"}, events : E]
    BY <2>1
  <2> QED BY <2>2 DEF E, Messages
<1> HIDE DEF m
<1>3. c \in Seq(Messages) /\ Len(c) <= ChannelCapacity
  <2> DEFINE M == Messages
  <2> HIDE DEF M
  <2>1. channel \in Seq(M) /\ m \in M /\ Len(channel) < ChannelCapacity /\ ChannelCapacity \in Nat
    BY <1>1, <1>2, LimitsAre DEF M, TailInv, ChannelInv
  <2>2. c \in Seq(M) /\ Len(c) <= ChannelCapacity
    BY <2>1
  <2> QED BY <2>2 DEF M
<1> HIDE DEF c
<1>4. FileInv' /\ TaskInv' /\ HistoryInv' /\ StepInv' /\ AppInv' /\ ReadInv' /\ lastStatus' = lastStatus
  BY <1>1 DEF TailInv, FileInv, TaskInv, HistoryInv, StepInv, AppInv, ReadInv, fileVars, taskVars, appVars, readVars
<1>5. ChannelInv'
  BY <1>1, <1>3, <1>4 DEF TailInv, ChannelInv
<1> QED BY <1>4, <1>5 DEF TailInv

LEMMA DeliverKeeps ==
  ASSUME TailInv, Deliver
  PROVE  TailInv'
<1> DEFINE m == Head(channel)
<1>1. /\ channel # <<>> /\ channel' = Tail(channel)
      /\ UNCHANGED <<fileVars, errors, pc, taskVars, others, readVars>>
      /\ IF m.status = "other" THEN UNCHANGED appVars
         ELSE tailStatus' = m.status /\ ring' = Fold(Note, ring, m.events)
  BY Zenon DEF Deliver
<1>2. m \in Messages /\ Tail(channel) \in Seq(Messages) /\ Len(Tail(channel)) <= ChannelCapacity
  <2> DEFINE M == Messages
  <2> HIDE DEF M
  <2>1. channel \in Seq(M) /\ Len(channel) <= ChannelCapacity /\ ChannelCapacity \in Nat
    BY LimitsAre DEF M, TailInv, ChannelInv
  <2>2. Head(channel) \in M /\ Tail(channel) \in Seq(M) /\ Len(Tail(channel)) <= ChannelCapacity
    BY <1>1, <2>1
  <2> QED BY <2>2 DEF M
<1>3. m.status \in {"other", "missing", "tailing"} /\ m.events \in Seq(Marks)
  <2> DEFINE E == Seq(Marks)
  <2> HIDE DEF m, E
  <2>1. m \in [status : {"other", "missing", "tailing"}, events : E]
    BY <1>2 DEF Messages, E
  <2>2. m.status \in {"other", "missing", "tailing"} /\ m.events \in E
    BY <2>1
  <2> QED BY <2>2 DEF E
<1> HIDE DEF m
<1>4. FileInv' /\ TaskInv' /\ HistoryInv' /\ StepInv' /\ ReadInv' /\ lastStatus' = lastStatus
  BY <1>1 DEF TailInv, FileInv, TaskInv, HistoryInv, StepInv, ReadInv, fileVars, taskVars, readVars
<1>5. ChannelInv'
  BY <1>1, <1>2, <1>4 DEF TailInv, ChannelInv
<1>6. AppInv'
  <2>1. CASE m.status = "other"
    BY <1>1, <2>1 DEF TailInv, AppInv, appVars
  <2>2. CASE m.status # "other"
    <3> DEFINE r == Fold(Note, ring, m.events)
    <3>1. IsRing(r)
      BY <1>3, RingKept DEF TailInv, AppInv
    <3>2. ring' = r /\ tailStatus' = m.status
      BY <1>1, <2>2, Zenon
    <3> HIDE DEF r
    <3>3. IsRing(ring')
      BY <3>1, <3>2
    <3> QED BY <1>3, <2>2, <3>2, <3>3 DEF AppInv
  <2> QED BY <2>1, <2>2
<1> QED BY <1>4, <1>5, <1>6 DEF TailInv

LEMMA ReadableIs ==
  ASSUME TailInv, pc = "read"
  PROVE  Readable \in Nat /\ (Readable = 0 \/ offset + Readable <= Len(file))
<1>1. Len(file) \in Nat /\ offset \in Nat /\ metaLen \in Nat /\ offset < metaLen
  BY DEF TailInv, FileInv, TaskInv, StepInv
<1>2. Want \in Nat
  BY <1>1, LimitsAre DEF Want, LeastOf
<1> DEFINE w == Want
<1> HIDE DEF w
<1>3. w \in Nat => LET r == LeastOf(w, IF Len(file) > offset THEN Len(file) - offset ELSE 0)
                  IN  r \in Nat /\ (r = 0 \/ offset + r <= Len(file))
  BY <1>1 DEF LeastOf
<1> QED BY <1>2, <1>3 DEF w, Readable

\* Any number of the bytes that could be read.
LEMMA ReadKeeps ==
  ASSUME TailInv, NEW filled \in 0 .. Readable, Read(filled)
  PROVE  TailInv'
<1> DEFINE chunk == SubSeq(file, offset + 1, offset + filled)
           st == [carry |-> carry, skipping |-> skipping, found |-> <<>>]
           after == Fold(Feed, st, chunk)
           newest == Newest(after.found, MaxEventsPerTick)
<1>1. /\ pc = "read" /\ exists
      /\ offset' = offset + filled /\ carry' = after.carry /\ skipping' = after.skipping
      /\ parsed' = parsed \o after.found /\ Report("tailing", newest)
      /\ readFrom' = files /\ blind' = (blind \/ (offset > 0 /\ readFrom # files))
      /\ UNCHANGED <<initialized, base>>
  BY Zenon DEF Read, consume_bytes
<1>2. /\ file \in Seq(Bytes) /\ Len(file) \in Nat /\ files \in Nat \ {0}
      /\ offset \in Nat /\ metaLen \in Nat /\ offset < metaLen /\ base \in Nat /\ base <= offset
      /\ carry \in Seq(Bytes \ {NL}) /\ Len(carry) <= MaxLineBytes
      /\ parsed \in Seq(Marks)
  BY <1>1 DEF TailInv, FileInv, TaskInv, HistoryInv, StepInv
<1>3. initialized \in BOOLEAN /\ skipping \in BOOLEAN /\ blind \in BOOLEAN
  BY DEF TailInv, TaskInv, HistoryInv
<1>4. filled \in Nat /\ (filled = 0 \/ offset + filled <= Len(file))
  <2> DEFINE r == Readable
  <2>1. r \in Nat /\ (r = 0 \/ offset + r <= Len(file)) /\ filled \in 0 .. r
    BY <1>1, ReadableIs
  <2> HIDE DEF r
  <2> QED BY <1>2, <2>1
<1>5. chunk \in Seq(Bytes) /\ (filled = 0 => chunk = <<>>)
  <2>1. filled = 0 => chunk = <<>>
    BY <1>2, <1>4, SubSeqEmpty
  <2>2. <<>> \in Seq(Bytes)
    OBVIOUS
  <2>3. ASSUME filled # 0 PROVE chunk \in Seq(Bytes)
    <3>1. \A i \in offset + 1 .. offset + filled : file[i] \in Bytes
      BY <1>2, <1>4, <2>3
    <3>2. offset + 1 \in Int /\ offset + filled \in Int
      BY <1>2, <1>4
    <3> QED BY <3>1, <3>2, SubSeqProperties
  <2> QED BY <2>1, <2>2, <2>3
<1>6. IsFeed(st)
  <2> DEFINE M == Seq(Marks)
             C == Seq(Bytes \ {NL})
  <2>1. <<>> \in M
    OBVIOUS
  <2>2. carry \in C
    BY <1>2
  <2> HIDE DEF M, C
  <2>3. st \in [carry : C, skipping : BOOLEAN, found : M] /\ st.carry = carry
    BY <1>3, <2>1, <2>2
  <2> QED BY <1>2, <2>3 DEF IsFeed, M, C
<1> HIDE DEF chunk
<1>7. IsFeed(after) /\ (filled = 0 => after = st)
  <2> HIDE DEF st
  <2>1. PICK g : IsConsuming(g, st, chunk) /\ after = g[Len(chunk)]
    BY <1>5, <1>6, ConsumedIs, Zenon
  <2>2. Len(chunk) \in 0 .. Len(chunk)
    BY <1>5
  <2>3. filled = 0 => Len(chunk) = 0
    BY <1>5
  <2>4. IsFeed(g[Len(chunk)]) /\ g[0] = st
    BY <2>1, <2>2, Zenon DEF IsConsuming
  <2> HIDE DEF after
  <2> QED BY <2>1, <2>3, <2>4
<1> HIDE DEF after
<1>8. after.carry \in Seq(Bytes \ {NL}) /\ Len(after.carry) <= MaxLineBytes
      /\ after.skipping \in BOOLEAN /\ after.found \in Seq(Marks)
  BY <1>7 DEF IsFeed
<1>9. newest \in Seq(Marks)
  BY <1>8, LimitsAre, NewestIs
<1> HIDE DEF newest
<1>10. ChannelInv' /\ pc' = "tick" /\ metaLen' = 0 /\ UNCHANGED <<fileVars, others, appVars>>
  <2>1. "tailing" \in {"missing", "tailing"}
    OBVIOUS
  <2> QED BY <1>1, <1>9, <2>1, ReportKeeps DEF TailInv
<1>11. exists' = exists /\ file' = file /\ files' = files
  BY <1>10 DEF fileVars
<1>12. FileInv' /\ AppInv' /\ StepInv'
  BY <1>10, <1>11 DEF TailInv, FileInv, AppInv, StepInv, appVars
<1>13. offset' \in Nat /\ offset <= offset' /\ initialized' = initialized /\ base' = base
  BY <1>1, <1>2, <1>4
<1>14. TaskInv'
  <2>1. carry' \in Seq(Bytes \ {NL}) /\ Len(carry') <= MaxLineBytes
    BY <1>1, <1>8, Zenon
  <2>2. skipping' \in BOOLEAN /\ initialized' \in BOOLEAN
    BY <1>1, <1>3, <1>8, <1>13
  <2> QED BY <1>13, <2>1, <2>2, Zenon DEF TaskInv
<1>15. HistoryInv'
  <2> DEFINE p == parsed \o after.found
  <2>1. p \in Seq(Marks)
    BY <1>2, <1>8, ConcatProperties
  <2>2. parsed' \in Seq(Marks)
    BY <1>1, <2>1, Zenon
  <2>3. base' \in Nat /\ base' <= offset' /\ readFrom' \in Nat /\ readFrom' <= files'
    BY <1>1, <1>2, <1>11, <1>13
  <2>4. blind' \in BOOLEAN
    BY <1>1
  <2> QED BY <2>2, <2>3, <2>4, Zenon DEF HistoryInv
<1>16. ASSUME offset' = 0
       PROVE  base' = 0 /\ carry' = <<>> /\ skipping' = FALSE /\ parsed' = <<>>
  <2>1. offset = 0 /\ filled = 0
    BY <1>1, <1>2, <1>4, <1>16
  <2>2. base = 0 /\ carry = <<>> /\ skipping = FALSE /\ parsed = <<>>
    BY <2>1, Zenon DEF TailInv, ReadInv
  <2>3. after = st
    BY <1>7, <2>1
  <2>4. after.carry = carry /\ after.skipping = skipping /\ after.found = <<>>
    BY <2>3
  <2>5. <<>> \o <<>> = <<>>
    BY ConcatEmptySeq
  <2> HIDE DEF st
  <2> QED BY <1>1, <1>13, <2>2, <2>4, <2>5, Zenon
<1>17. ASSUME ~ blind'
       PROVE  offset' <= Len(file) /\ IsRead(carry', skipping', parsed', SubSeq(file, base + 1, offset'))
  <2>1. ~ blind /\ (readFrom = files \/ ~ (offset > 0))
    BY <1>1, <1>17, Zenon
  <2>2. offset <= Len(file) /\ IsRead(carry, skipping, parsed, SubSeq(file, base + 1, offset))
    <3>1. CASE readFrom = files
      BY <1>1, <2>1, <3>1, Zenon DEF TailInv, ReadInv
    <3>2. CASE ~ (offset > 0)
      <4>1. offset = 0
        BY <1>2, <3>2
      <4>2. base = 0 /\ carry = <<>> /\ skipping = FALSE /\ parsed = <<>>
        BY <4>1, Zenon DEF TailInv, ReadInv
      <4>3. SubSeq(file, 0 + 1, 0) = <<>>
        BY SubSeqEmpty
      <4>4. IsRead(carry, skipping, parsed, SubSeq(file, base + 1, offset))
        BY <4>1, <4>2, <4>3, NothingRead, Zenon
      <4> QED BY <1>2, <4>1, <4>4
    <3> QED BY <2>1, <3>1, <3>2
  <2>3. offset + filled <= Len(file)
    BY <1>2, <1>4, <2>2
  <2> DEFINE out == Consumed(carry, skipping, SubSeq(file, offset + 1, offset + filled))
  <2>4. ReadsOn(out, parsed, SubSeq(file, base + 1, offset + filled))
    BY <1>2, <1>3, <1>4, <2>2, <2>3, ConsumedReads
  <2>5. after = out
    BY Zenon DEF after, chunk, st, Consumed
  <2>6. IsRead(after.carry, after.skipping, parsed \o after.found, SubSeq(file, base + 1, offset + filled))
    BY <2>4, <2>5, Zenon DEF ReadsOn
  <2>7. offset' <= Len(file)
    BY <1>1, <2>3
  <2>8. IsRead(carry', skipping', parsed', SubSeq(file, base + 1, offset'))
    BY <1>1, <2>6, Zenon
  <2> QED BY <2>7, <2>8
<1>18. ReadInv'
  BY <1>11, <1>13, <1>16, <1>17, Zenon DEF ReadInv
<1> QED BY <1>10, <1>12, <1>14, <1>15, <1>18 DEF TailInv

LEMMA TailStepKeeps == TailInv /\ [TailNext]_tailVars => TailInv'
<1> SUFFICES ASSUME TailInv, [TailNext]_tailVars PROVE TailInv'
  OBVIOUS
<1>1. CASE UNCHANGED tailVars
  BY <1>1 DEF tailVars, fileVars, taskVars, appVars, readVars,
     TailInv, FileInv, TaskInv, HistoryInv, StepInv, ChannelInv, AppInv, ReadInv
<1>2. ASSUME NEW b \in Bytes, Write(b) PROVE TailInv'
  BY <1>2, WriteKeeps
<1>3. CASE Replace \/ Unlink
  BY <1>3, ReplaceKeeps
<1>4. CASE Poll
  <2>1. CASE FindMissing \/ FirstSight \/ Unchanged \/ Emptied \/ FindMore \/ OpenFails \/ SeekFails
    BY <2>1, RestartingKeeps, UnchangedKeeps, FindMoreKeeps
  <2>2. CASE ReadAll
    <3>1. pc = "read" /\ Read(Readable)
      BY <2>2, Zenon DEF ReadAll, Read
    <3>2. Readable \in 0 .. Readable
      BY <3>1, ReadableIs
    <3> QED BY <3>1, <3>2, ReadKeeps
  <2>3. CASE ReadFails
    <3>1. PICK filled \in 0 .. Readable : Read(filled)
      BY <2>3, Zenon DEF ReadFails
    <3> QED BY <3>1, ReadKeeps
  <2> QED BY <1>4, <2>1, <2>2, <2>3 DEF Poll
<1>5. CASE OthersSend
  BY <1>5, OthersSendKeeps
<1>6. CASE Deliver
  BY <1>6, DeliverKeeps
<1> QED BY <1>1, <1>2, <1>3, <1>4, <1>5, <1>6 DEF TailNext

LEMMA TailInvAlways == TailSpec => []TailInv
<1>1. TailInit => TailInv
  BY TailStarts
<1> QED BY <1>1, TailStepKeeps, PTL DEF TailSpec

\* The tailer's offset and carried line, and the channel, keep within their
\* bounds (TailerTask, MAX_LINE_BYTES, the channel of main), whatever becomes of the
\* file between two system calls.
THEOREM TailTypeCorrect == TailSpec => []TailTypeOK
<1>1. TailInv => TailTypeOK
  BY TailInvHolds
<1> QED BY <1>1, TailInvAlways, PTL

\* However the polls cut a file into reads, and lines into pieces, each complete
\* line after the starting point is parsed exactly once and in order, and no
\* part of a line is (poll_step, consume_bytes).
THEOREM EachLineIsReadOnce == TailSpec => []ReadsEachLineOnce
<1>1. TailInv => ReadsEachLineOnce
  BY TailInvHolds
<1> QED BY <1>1, TailInvAlways, PTL

\* Whatever is lost, repeated or read again, a request has one row and the ring
\* keeps to its capacity (RequestLog::apply).
THEOREM RowsAreUnique == TailSpec => []OneRowPerRequest
<1>1. TailInv => OneRowPerRequest
  BY TailInvHolds
<1> QED BY <1>1, TailInvAlways, PTL
=============================================================================
