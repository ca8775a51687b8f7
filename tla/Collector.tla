----------------------------- MODULE Collector ------------------------------
(***************************************************************************)
(* The schedule of the /metrics collectors (collector/mod.rs): one task    *)
(* per endpoint, started at anchored slots a cadence apart, the fleet      *)
(* staggered over four quarter-second phases, steered by two watch         *)
(* channels: the refresh interval and the forced refresh.                  *)
(*                                                                         *)
(* Time is discrete, in units of PHASE_STEP (250 ms), and relative: a      *)
(* deadline is its distance from now, so the state space is finite without *)
(* a bound on the length of a run.  A task that select! could resume does  *)
(* so before time passes.                                                  *)
(*                                                                         *)
(* Definitions named X_Fault are X with a plausible bug; see Recorder.     *)
(***************************************************************************)
EXTENDS Integers

CONSTANTS
  NumEndpoints,  \* endpoints are numbered from 0, as in the code
  MinRefresh,    \* MIN_REFRESH_MS, in units: 4
  MaxRefresh,    \* bound: MAX_REFRESH_MS, in units (240 in the code)
  FirstRefresh,  \* config.refresh_interval
  MaxBusy        \* bound: the longest scrape, its sends included

ASSUME NumEndpointsAssumption == NumEndpoints \in Nat \ {0}
\* The four phases fit in the shortest cadence (config.rs, MIN_REFRESH_MS).
ASSUME RefreshAssumption ==
  /\ MinRefresh \in Nat /\ MinRefresh >= 4
  /\ MaxRefresh \in Nat
  /\ FirstRefresh \in MinRefresh .. MaxRefresh
ASSUME MaxBusyAssumption == MaxBusy \in Nat

VARIABLES
  interval,   \* the watch value, and App.refresh_interval
  changed,    \* interval_rx.has_changed(), per endpoint
  forced,     \* force_rx.has_changed(), per endpoint
  busy,       \* the task is between wait_for_start and its next wait
  busyFor,    \* for how long, 0 when waiting
  ahead,      \* next_start - now
  owed,       \* history: 'r' was pressed after the last start
  deaf,       \* history: the last interval change found the task busy
  sinceStart  \* history: time since the last start, up to MinRefresh

ctlVars == <<interval, changed, forced>>
histVars == <<owed, deaf, sinceStart>>
vars == <<ctlVars, busy, busyFor, ahead, histVars>>

Endpoints == 0 .. NumEndpoints - 1

\* phase_offset: endpoints after the fourth reuse the four slots.
phase_offset(e) == e % 4

\* next_slot_strictly_after, on distances from now: the least slot
\* anchor + k * cadence (k >= 0) that is later than now.
next_slot_Fault(anchor, cadence) == anchor + cadence      \* one step, no loop
next_slot(anchor, cadence) ==
  IF anchor > 0 THEN anchor ELSE anchor + cadence * ((- anchor) \div cadence + 1)

Init ==
  /\ interval = FirstRefresh
  /\ changed = [e \in Endpoints |-> FALSE]
  /\ forced = [e \in Endpoints |-> FALSE]
  /\ busy = [e \in Endpoints |-> FALSE]
  /\ busyFor = [e \in Endpoints |-> 0]
  /\ ahead = [e \in Endpoints |-> phase_offset(e)]
  /\ owed = [e \in Endpoints |-> FALSE]
  /\ deaf = [e \in Endpoints |-> FALSE]
  /\ sinceStart = [e \in Endpoints |-> MinRefresh]

-----------------------------------------------------------------------------
(* wait_for_start: the three arms of its select!, in any order when several *)
(* are ready.                                                               *)

Start(e) ==
  /\ ~ busy[e]
  /\ busy' = [busy EXCEPT ![e] = TRUE]
  /\ owed' = [owed EXCEPT ![e] = FALSE]
  /\ sinceStart' = [sinceStart EXCEPT ![e] = 0]
  /\ UNCHANGED <<interval, changed, busyFor, ahead, deaf>>

\* sleep_until(next_start): the forced refresh, if any, stays unseen.
StartOnTime(e) ==
  /\ ahead[e] <= 0
  /\ Start(e)
  /\ UNCHANGED forced

\* force_rx.changed(): the slot is not moved.
StartForced(e) ==
  /\ forced[e]
  /\ Start(e)
  /\ forced' = [forced EXCEPT ![e] = FALSE]

Phase(e) == phase_offset(e)

\* interval_rx.changed(): a new anchor, now plus the endpoint's phase.
Rephase(e) ==
  /\ ~ busy[e]
  /\ changed[e]
  /\ changed' = [changed EXCEPT ![e] = FALSE]
  /\ ahead' = [ahead EXCEPT ![e] = Phase(e)]
  /\ deaf' = [deaf EXCEPT ![e] = FALSE]
  /\ UNCHANGED <<interval, forced, busy, busyFor, owed, sinceStart>>

NextStart_Fault(e) == interval             \* from the end of the scrape
NextStart(e) == next_slot(ahead[e], interval)

SeesForce_Fault(e) == FALSE                \* force_rx read after a scrape, too
SeesForce(e) == forced[e]

\* The end of CollectorTask::run's loop body: *interval_rx.borrow_and_update()
\* takes the new cadence, marks it seen, and keeps the old anchor.
Finish(e) ==
  /\ busy[e]
  /\ busy' = [busy EXCEPT ![e] = FALSE]
  /\ busyFor' = [busyFor EXCEPT ![e] = 0]
  /\ changed' = [changed EXCEPT ![e] = FALSE]
  /\ forced' = [forced EXCEPT ![e] = SeesForce(e)]
  /\ ahead' = [ahead EXCEPT ![e] = NextStart(e)]
  /\ deaf' = [deaf EXCEPT ![e] = @ \/ changed[e]]
  /\ UNCHANGED <<interval, owed, sinceStart>>

-----------------------------------------------------------------------------
(* CollectorControl, driven by the keys of App::handle_key.                *)

\* 'r': force_refresh bumps the watch.
ForceRefresh ==
  /\ forced' = [e \in Endpoints |-> TRUE]
  /\ owed' = [e \in Endpoints |-> TRUE]
  /\ UNCHANGED <<interval, changed, busy, busyFor, ahead, deaf, sinceStart>>

\* adjust_interval: 250 ms steps below 1 s, 500 ms up to 5 s, 1 s beyond.
Step == IF interval < 4 THEN 1 ELSE IF interval < 20 THEN 2 ELSE 4

Clamp(i) == IF i < MinRefresh THEN MinRefresh ELSE IF i > MaxRefresh THEN MaxRefresh ELSE i

\* '-' and '+': set_interval with send_if_modified, so a key repeated at the
\* end of the range wakes nobody.
AdjustInterval(direction) ==
  /\ Clamp(interval + direction * Step) # interval
  /\ interval' = Clamp(interval + direction * Step)
  /\ changed' = [e \in Endpoints |-> TRUE]
  /\ UNCHANGED <<forced, busy, busyFor, ahead, histVars>>

-----------------------------------------------------------------------------
\* Some arm of the select! of e is ready.
Runnable(e) == ~ busy[e] /\ (ahead[e] <= 0 \/ forced[e] \/ changed[e])

\* One unit of time passes; no runnable task is made to wait for it.
Elapse ==
  /\ \A e \in Endpoints : ~ Runnable(e)
  /\ \A e \in Endpoints : busy[e] => busyFor[e] < MaxBusy
  /\ busyFor' = [e \in Endpoints |-> IF busy[e] THEN busyFor[e] + 1 ELSE 0]
  /\ ahead' = [e \in Endpoints |-> ahead[e] - 1]
  /\ sinceStart' = [e \in Endpoints |->
                      IF sinceStart[e] < MinRefresh THEN sinceStart[e] + 1 ELSE MinRefresh]
  /\ UNCHANGED <<ctlVars, busy, owed, deaf>>

Next ==
  \/ \E e \in Endpoints :
       \/ StartOnTime(e)
       \/ StartForced(e)
       \/ Rephase(e)
       \/ Finish(e)
  \/ ForceRefresh
  \/ \E direction \in {-1, 1} : AdjustInterval(direction)
  \/ Elapse

Spec == Init /\ [][Next]_vars

-----------------------------------------------------------------------------
(* Properties.                                                             *)

\* The types; the deadlines stay within one scrape behind and one cadence
\* ahead of now: no catch-up work and no runaway sleep builds up.
TypeOK ==
  /\ interval \in MinRefresh .. MaxRefresh
  /\ changed \in [Endpoints -> BOOLEAN]
  /\ forced \in [Endpoints -> BOOLEAN]
  /\ busy \in [Endpoints -> BOOLEAN]
  /\ busyFor \in [Endpoints -> 0 .. MaxBusy]
  /\ ahead \in [Endpoints -> - MaxBusy .. MaxRefresh]
  /\ owed \in [Endpoints -> BOOLEAN]
  /\ deaf \in [Endpoints -> BOOLEAN]
  /\ sinceStart \in [Endpoints -> 0 .. MinRefresh]

\* The grids of e and f are in phase with each other.
InPhase(e, f) ==
  ((ahead[e] - phase_offset(e)) - (ahead[f] - phase_offset(f))) % interval = 0

Settled(e) == ~ changed[e] /\ ~ deaf[e]

\* Fleet-wide deterministic staggering: slow scrapes, forced refreshes and
\* interval changes never make two endpoints drift onto one slot, as long as
\* the last change of the interval found neither of them in a scrape.
Staggered ==
  \A e, f \in Endpoints : Settled(e) /\ Settled(f) => InPhase(e, f)

\* "Skips every slot that a slow request occupied instead of queueing
\* catch-up work": a task comes back to a deadline that lies ahead, and at
\* most one cadence ahead unless that deadline was there all along.
SkipsMissedSlots ==
  [][\A e \in Endpoints :
       busy[e] /\ ~ busy'[e] =>
         /\ ahead'[e] > 0
         /\ ahead[e] <= 0 => ahead'[e] <= interval]_vars

\* A forced refresh is never absorbed by a scrape that was already running
\* when the key was pressed: no time passes between the end of that scrape
\* and the start of the one that is owed.
RefreshIsPrompt ==
  [][Elapse => \A e \in Endpoints : owed[e] => busy[e]]_vars

-----------------------------------------------------------------------------
(* What the documents say, and the code does not do: TLC finds both         *)
(* violated when a configuration lists them.                               *)

\* docs/LESSONS.md: after an interval change, the deadline is recomputed and
\* the task sleeps again, "only a force-refresh returns immediately"; and
\* MIN_REFRESH_MS is "the minimum target start cadence".  So a start that was
\* not forced comes at least MinRefresh after the one before.
StartsAreSpaced ==
  [][\A e \in Endpoints :
       ~ busy[e] /\ busy'[e] /\ ~ forced[e] => sinceStart[e] >= MinRefresh]_vars

\* The comment on wait_for_start: "interval changes reset the fleet's fixed
\* phase from change time"; staleness_threshold, too, is three times the new
\* interval.  So a waiting endpoint's next start is at most one interval away.
IntervalTakesEffect ==
  \A e \in Endpoints : ~ busy[e] /\ ~ changed[e] => ahead[e] <= interval
=============================================================================
