---------------------------- MODULE UsageProofs ----------------------------
(***************************************************************************)
(* Proofs about UsageAccounting: what the samples table holds (Inv), and   *)
(* from it what query_on makes of any table that satisfies it.             *)
(***************************************************************************)
EXTENDS UsageAccounting, FoldTheorems

-----------------------------------------------------------------------------
(* The inductive invariant.                                                *)

Types ==
  /\ now \in 0 .. Horizon
  /\ model \in Models /\ count \in Nat /\ count <= served[model]
  /\ served \in [Models -> Nat]
  /\ restarts \in 0 .. MaxRestarts /\ stops \in 0 .. MaxStops /\ losses \in 0 .. MaxLosses
  /\ version \in {"none", "ours", "newer"} /\ (version = "newer" => rows = {} /\ ~ recording)
  /\ recording \in BOOLEAN /\ retention \in Retentions
  /\ recordedAt \in {None} \cup Nat /\ recordedAt <= now
  /\ IsFiniteSet(rows)

\* A row is of the past: of its time, its process and its run of vllmtop.
RowsAreOld ==
  \A r \in rows :
    /\ r \in Row /\ r.ts <= now
    /\ r.run <= restarts /\ r.served <= served[r.model] /\ r.value <= r.served
    /\ r.boot <= stops

\* Those of this run of vllmtop are no later than the throttle's mark.
ThrottleHolds ==
  \A r \in rows :
    r.boot = stops => recording /\ recordedAt # None /\ r.ts <= recordedAt

Spaced ==
  \A q, r \in rows : q.boot = r.boot /\ q.ts < r.ts => r.ts - q.ts >= RecordEvery

\* A series has one row of a time.
OneRowEach == \A q, r \in rows : q.model = r.model /\ q.ts = r.ts => q = r

\* Between two snapshots of a series the counter gained what was served, if
\* they are of one process, and no more than that if it started again.
Gained(q, run, value, sum) ==
  /\ q.run <= run /\ q.served <= sum
  /\ q.run = run => value - q.value = sum - q.served
  /\ q.run < run => value <= sum - q.served

SeriesGrow ==
  \A q, r \in rows :
    q.model = r.model /\ q.ts < r.ts => Gained(q, r.run, r.value, r.served)

\* So does a snapshot taken now.
SnapshotGrows ==
  \A q \in rows : q.model = model => Gained(q, restarts, count, served[model])

Inv ==
  /\ Types /\ RowsAreOld /\ ThrottleHolds /\ Spaced
  /\ OneRowEach /\ SeriesGrow /\ SnapshotGrows

LEMMA InitInv == Init => Inv
<1> SUFFICES ASSUME Init PROVE Inv
  OBVIOUS
<1>1. Types
  <2>1. {Horizon, MaxRestarts, MaxStops, MaxLosses} \subseteq Nat
    BY TimeAssumption, BoundsAssumption
  <2>2. retention \in Retentions
    BY RetentionAssumption DEF Init
  <2>3. IsFiniteSet(rows)
    BY FS_EmptySet DEF Init
  <2>4. served \in [Models -> Nat] /\ count \in Nat /\ count <= served[model]
    BY DEF Init
  <2>5. recordedAt \in {None} \cup Nat /\ recordedAt <= now
    BY DEF Init, None
  <2>6. version \in {"none", "ours", "newer"} /\ recording \in BOOLEAN /\ rows = {} /\ ~ recording
    BY DEF Init
  <2>. now \in 0 .. Horizon /\ restarts \in 0 .. MaxRestarts
    BY <2>1 DEF Init
  <2>. stops \in 0 .. MaxStops /\ losses \in 0 .. MaxLosses
    BY <2>1 DEF Init
  <2> QED BY <2>2, <2>3, <2>4, <2>5, <2>6 DEF Init, Types
<1>2. RowsAreOld /\ ThrottleHolds /\ Spaced /\ OneRowEach /\ SeriesGrow /\ SnapshotGrows
  BY DEF Init, RowsAreOld, ThrottleHolds, Spaced, OneRowEach, SeriesGrow, SnapshotGrows
<1> QED BY <1>1, <1>2 DEF Inv

LEMMA StepInv == Inv /\ [Next]_vars => Inv'
<1> SUFFICES ASSUME Inv, [Next]_vars PROVE Inv'
  OBVIOUS
<1> USE DEF Inv
<1>1. ASSUME NEW n \in {0, 1}, Elapse(n) PROVE Inv'
  <2> USE <1>1 DEF Elapse, appVars
  <2>1. Types'
    <3>1. now' \in 0 .. Horizon /\ (recordedAt \in {None} \cup Nat /\ recordedAt <= now')
      BY TimeAssumption DEF Types, None
    <3>2. /\ model' \in Models /\ count' \in Nat /\ served' \in [Models -> Nat]
          /\ count' <= served'[model']
      BY DEF Types
    <3> QED BY <3>1, <3>2 DEF Types
  <2>2. RowsAreOld'
    BY DEF RowsAreOld, Types, Row
  <2>3. ThrottleHolds' /\ Spaced' /\ OneRowEach' /\ SeriesGrow'
    BY DEF ThrottleHolds, Spaced, OneRowEach, SeriesGrow, Gained
  <2>4. SnapshotGrows'
    BY DEF SnapshotGrows, Gained, RowsAreOld, Types, Row
  <2> QED BY <2>1, <2>2, <2>3, <2>4
<1>2. ASSUME NEW m \in Models, Restart(m) PROVE Inv'
  <2> USE <1>2 DEF Restart, appVars
  <2>1. Types'
    BY BoundsAssumption DEF Types
  <2>2. RowsAreOld'
    BY DEF RowsAreOld, Types, Row
  <2>3. ThrottleHolds' /\ Spaced' /\ OneRowEach' /\ SeriesGrow'
    BY DEF ThrottleHolds, Spaced, OneRowEach, SeriesGrow, Gained
  <2>4. SnapshotGrows'
    BY DEF SnapshotGrows, Gained, RowsAreOld, Types, Row
  <2> QED BY <2>1, <2>2, <2>3, <2>4
<1>3. ASSUME Start PROVE Inv'
  <2> USE <1>3 DEF Start, serverVars
  <2>1. Types'
    BY DEF Types, Supported, None
  <2>2. RowsAreOld' /\ Spaced' /\ OneRowEach' /\ SeriesGrow' /\ SnapshotGrows'
    BY DEF RowsAreOld, Spaced, OneRowEach, SeriesGrow, SnapshotGrows, Gained
  <2>3. ThrottleHolds'
    BY DEF ThrottleHolds
  <2> QED BY <2>1, <2>2, <2>3
<1>4. ASSUME Stop PROVE Inv'
  <2> USE <1>4 DEF Stop, serverVars
  <2>1. Types'
    <3>1. stops' \in 0 .. MaxStops
      BY BoundsAssumption DEF Types
    <3>2. recording' \in BOOLEAN /\ ~ recording'
      OBVIOUS
    <3> QED BY <3>1, <3>2 DEF Types
  <2>2. \A r \in rows : r \in Row /\ r.boot \in Nat /\ r.boot <= stops /\ r.boot # stops'
    BY DEF RowsAreOld, Types, Row
  <2>. RowsAreOld' /\ ThrottleHolds'
    BY <2>2 DEF RowsAreOld, ThrottleHolds, Types
  <2>3. Spaced' /\ OneRowEach' /\ SeriesGrow' /\ SnapshotGrows'
    BY DEF Spaced, OneRowEach, SeriesGrow, SnapshotGrows, Gained
  <2> QED BY <2>1, <2>2, <2>3
<1>5. ASSUME NEW kept \in BOOLEAN, RecordSamples(kept) PROVE Inv'
  <2> DEFINE row == [ts |-> now, model |-> model, value |-> count,
                     run |-> restarts, served |-> served[model], boot |-> stops]
  <2>1. Types'
    <3>1. IsFiniteSet(rows')
      BY <1>5, FS_AddElement DEF RecordSamples, Types
    <3>2. version # "newer"
      BY <1>5 DEF RecordSamples, Types
    <3> QED BY <1>5, <3>1, <3>2, BoundsAssumption DEF RecordSamples, Types, serverVars
  <2>2. row \in Row
    BY DEF Row, Types
  <2>3. CASE ~ kept
    <3>1. rows' = rows /\ recordedAt' = now /\ UNCHANGED <<now, serverVars, stops, recording>>
      BY <1>5, <2>3 DEF RecordSamples
    <3>2. RowsAreOld' /\ Spaced' /\ OneRowEach' /\ SeriesGrow' /\ SnapshotGrows'
      BY <3>1 DEF RowsAreOld, Spaced, OneRowEach, SeriesGrow, SnapshotGrows, Gained, serverVars
    <3>3. ThrottleHolds'
      BY <3>1, <1>5 DEF ThrottleHolds, RowsAreOld, Types, None, RecordSamples
    <3> QED BY <2>1, <3>2, <3>3
  <2>4. CASE kept
    <3>1. /\ rows' = rows \cup {row} /\ recordedAt' = now /\ recording
          /\ UNCHANGED <<now, serverVars, stops, recording>>
          /\ RecordDue /\ \A r \in rows : r.model = model => r.ts # now
      BY <1>5, <2>4 DEF RecordSamples
    <3> HIDE DEF row
    <3>2. /\ row.ts = now /\ row.model = model /\ row.value = count
          /\ row.run = restarts /\ row.served = served[model] /\ row.boot = stops
      BY DEF row
    <3>3. RowsAreOld'
      BY <2>2, <3>1, <3>2 DEF RowsAreOld, Types, serverVars
    <3>4. ThrottleHolds'
      BY <3>1, <3>2 DEF ThrottleHolds, RowsAreOld, Types, None
    <3>5. \A r \in rows : r.ts \in Nat /\ r.ts <= now
      BY DEF RowsAreOld, Row
    <3>6. Spaced'
      <4>1. \A q \in rows : q.boot = stops => now - q.ts >= RecordEvery
        BY <3>1, <3>5, TimeAssumption DEF RecordDue, ThrottleHolds, Types, None
      <4>2. \A q \in rows : ~ (now < q.ts)
        BY <3>5 DEF Types
      <4> QED BY <3>1, <3>2, <4>1, <4>2 DEF Spaced, Types
    <3>7. OneRowEach'
      BY <3>1, <3>2 DEF OneRowEach
    <3>8. SeriesGrow'
      <4>1. \A q \in rows : ~ (now < q.ts)
        BY <3>5 DEF Types
      <4>2. \A q \in rows : q.model = model => Gained(q, row.run, row.value, row.served)
        BY <3>2 DEF SnapshotGrows
      <4> QED BY <3>1, <3>2, <4>1, <4>2 DEF SeriesGrow, Types
    <3>9. SnapshotGrows'
      BY <3>1, <3>2 DEF SnapshotGrows, Gained, Types, serverVars
    <3> QED BY <2>1, <3>3, <3>4, <3>6, <3>7, <3>8, <3>9
  <2> QED BY <2>3, <2>4
<1>6. ASSUME Cleanup PROVE Inv'
  <2>1. rows' \subseteq rows /\ UNCHANGED <<now, serverVars, version, appVars, stops, losses>>
    BY <1>6 DEF Cleanup
  <2>2. IsFiniteSet(rows')
    BY <2>1, FS_Subset DEF Types
  <2>3. Types'
    BY <1>6, <2>1, <2>2 DEF Types, Cleanup, appVars, serverVars
  <2>4. /\ RowsAreOld' /\ ThrottleHolds' /\ Spaced' /\ OneRowEach' /\ SeriesGrow'
        /\ SnapshotGrows'
    BY <2>1 DEF RowsAreOld, ThrottleHolds, Spaced, OneRowEach, SeriesGrow, SnapshotGrows,
       Gained, appVars, serverVars
  <2> QED BY <2>3, <2>4
<1>7. CASE UNCHANGED vars
  BY <1>7 DEF vars, serverVars, appVars, Types, RowsAreOld, ThrottleHolds, Spaced, OneRowEach,
     SeriesGrow, SnapshotGrows, Gained
<1> QED BY <1>1, <1>2, <1>3, <1>4, <1>5, <1>6, <1>7 DEF Next

THEOREM Invariant == Spec => []Inv
BY InitInv, StepInv, PTL DEF Spec

LEMMA InvImpliesTypeOK == Inv => TypeOK
BY DEF Inv, Types, RowsAreOld, Spaced, TypeOK

\* Every variable has its type, and the snapshots of one run of vllmtop are
\* RecordEvery apart (App::record_samples).
THEOREM TypeCorrect == Spec => []TypeOK
BY Invariant, InvImpliesTypeOK, PTL

-----------------------------------------------------------------------------
(* Days.                                                                   *)

LEMMA DayBounds ==
  \A t \in Int : Day(t) \in Int /\ Day(t) * DayLen <= t /\ t < Day(t) * DayLen + DayLen
<1>1. DayLen \in Nat \ {0}
  BY TimeAssumption
<1> QED BY <1>1 DEF Day

LEMMA DayStart ==
  \A d \in Int : d * DayLen \in Int /\ (d + 1) * DayLen = d * DayLen + DayLen
BY TimeAssumption

LEMMA LaterDay ==
  ASSUME NEW d \in Int, NEW e \in Int, d < e
  PROVE  d * DayLen + DayLen <= e * DayLen
BY TimeAssumption

\* A time is of the day it lies in.
LEMMA DayIs ==
  ASSUME NEW t \in Int, NEW d \in Int
  PROVE  Day(t) = d <=> d * DayLen <= t /\ t <= (d + 1) * DayLen - 1
<1>1. Day(t) \in Int /\ Day(t) * DayLen <= t /\ t < Day(t) * DayLen + DayLen
  BY DayBounds
<1>2. d * DayLen \in Int /\ (d + 1) * DayLen = d * DayLen + DayLen
  BY DayStart
<1>3. DayLen \in Int /\ Day(t) * DayLen \in Int
  BY <1>1, TimeAssumption
<1>4. CASE Day(t) = d
  BY <1>1, <1>2, <1>3, <1>4
<1>5. CASE Day(t) < d
  <2>1. Day(t) * DayLen + DayLen <= d * DayLen
    BY <1>1, <1>5, LaterDay
  <2> QED BY <2>1, <1>1, <1>2, <1>3, <1>5
<1>6. CASE d < Day(t)
  <2>1. d * DayLen + DayLen <= Day(t) * DayLen
    BY <1>1, <1>6, LaterDay
  <2> QED BY <2>1, <1>1, <1>2, <1>3, <1>6
<1> QED BY <1>1, <1>4, <1>5, <1>6

\* Days follow times.
LEMMA DayMonotone ==
  ASSUME NEW s \in Int, NEW t \in Int, s <= t
  PROVE  Day(s) <= Day(t)
<1>1. SUFFICES ASSUME Day(t) < Day(s) PROVE FALSE
  BY DayBounds
<1>2. Day(t) * DayLen + DayLen <= Day(s) * DayLen
  BY <1>1, DayBounds, LaterDay
<1>3. /\ Day(s) * DayLen <= s /\ t < Day(t) * DayLen + DayLen
      /\ Day(s) * DayLen \in Int /\ Day(t) * DayLen \in Int /\ DayLen \in Int
  <2>1. Day(s) \in Int /\ Day(t) \in Int /\ DayLen \in Int
    BY DayBounds, TimeAssumption
  <2> QED BY <2>1, DayBounds, DayStart
<1> QED BY <1>2, <1>3

-----------------------------------------------------------------------------
(* query_on's deltas.                                                      *)

\* The rows and their parts, as sets the provers know.
LEMMA RowFacts ==
  ASSUME Inv
  PROVE  /\ IsFiniteSet(rows) /\ now \in Nat /\ Bounded \subseteq rows
         /\ \A r \in rows : /\ r.ts \in Nat /\ r.model \in Models /\ r.value \in Nat
                            /\ r.run \in Nat /\ r.served \in Nat /\ r.ts <= now
BY DEF Inv, Types, RowsAreOld, Row, Bounded

\* What the query reads it reads to the end: a later row is read too.
LEMMA BoundedIsASuffix ==
  ASSUME Inv, NEW q \in Bounded, NEW r \in rows, q.ts <= r.ts
  PROVE  r \in Bounded
<1>1. (WindowDays + 1) * DayLen \in Int
  BY TimeAssumption
<1> QED BY <1>1, RowFacts DEF Bounded

\* LAG is the latest of the earlier rows of the series, if there is any.
LEMMA LagIs ==
  ASSUME Inv, NEW r \in Bounded, Earlier(r) # {}
  PROVE  \E q \in Earlier(r) : Lag(r) = {q} /\ \A p \in Earlier(r) : p.ts <= q.ts
<1> DEFINE Times == {p.ts : p \in Earlier(r)}
<1>1. Earlier(r) \subseteq rows
  BY RowFacts DEF Earlier
<1>2. IsFiniteSet(Earlier(r))
  BY <1>1, RowFacts, FS_Subset
<1>3. Times \in SUBSET Int /\ Times # {} /\ IsFiniteSet(Times)
  <2>1. IsFiniteSet(Times)
    <3> DEFINE f == [p \in Earlier(r) |-> p.ts]
    <3>1. f \in Surjection(Earlier(r), Times)
      BY DEF Surjection
    <3> QED BY <1>2, <3>1, FS_Surjection
  <2>2. Times \in SUBSET Int /\ Times # {}
    BY <1>1, RowFacts
  <2> QED BY <2>1, <2>2
<1>4. PICK t \in Times : \A m \in Times : m <= t
  <2> HIDE DEF Times
  <2> QED BY <1>3, Greatest
<1>5. PICK q \in Earlier(r) : t = q.ts
  BY <1>4
<1>6. \A p \in Earlier(r) : p.ts <= q.ts
  BY <1>4, <1>5
<1>7. ASSUME NEW p \in Lag(r) PROVE p = q
  <2>1. p \in rows /\ q \in rows /\ p.model = q.model
    BY <1>1, <1>5, <1>7 DEF Lag, Earlier
  <2>2. p.ts <= q.ts /\ q.ts <= p.ts
    BY <1>5, <1>6, <1>7 DEF Lag
  <2>3. p.ts = q.ts
    BY <2>1, <2>2, RowFacts
  <2> QED BY <2>1, <2>3 DEF Inv, OneRowEach
<1>8. q \in Lag(r)
  BY <1>5, <1>6 DEF Lag
<1> QED BY <1>5, <1>6, <1>7, <1>8

\* A row's part in its day's total, 0 if it has no delta.
Gain == [r \in rows |-> IF r \in Bounded /\ Lag(r) # {} THEN Positive(r) ELSE 0]

LEMMA GainIs ==
  ASSUME Inv, NEW r \in Bounded, NEW q \in Earlier(r), Lag(r) = {q}
  PROVE  Gain[r] = IF r.value - q.value > 0 THEN r.value - q.value ELSE 0
<1>1. r \in rows /\ Delta(r) = r.value - q.value
  BY RowFacts DEF Delta
<1> QED BY <1>1 DEF Gain, Positive

LEMMA GainType ==
  ASSUME Inv, NEW r \in rows
  PROVE  Gain[r] \in Nat
<1>1. CASE r \in Bounded /\ Lag(r) # {}
  <2>1. Earlier(r) # {}
    BY <1>1 DEF Lag
  <2>2. PICK q \in Earlier(r) : Lag(r) = {q}
    BY <1>1, <2>1, LagIs
  <2>3. q \in rows
    BY <2>2, RowFacts DEF Earlier
  <2> QED BY <1>1, <2>2, <2>3, GainIs, RowFacts
<1>2. CASE ~ (r \in Bounded /\ Lag(r) # {})
  BY <1>2 DEF Gain
<1> QED BY <1>1, <1>2

\* A day's total is the sum of its rows' gains.
LEMMA DayTotalIs ==
  ASSUME Inv, NEW d, Landing(d) # {}
  PROVE  DayTotal(d) = Total(Gain, Landing(d)) /\ DayTotal(d) \in Nat
<1> DEFINE S == Landing(d)
           h == [r \in S |-> Gain[r]]
           P(g) == g = [s \in SUBSET S |->
                          IF s = {} THEN 0
                          ELSE Positive(CHOOSE x \in s : TRUE)
                               + g[s \ {CHOOSE x \in s : TRUE}]]
           G == CHOOSE g : P(g)
<1>1. S \subseteq rows /\ IsFiniteSet(S) /\ \A r \in S : r \in Bounded /\ Lag(r) # {}
  <2>1. S \subseteq rows
    BY RowFacts DEF Landing
  <2> QED BY <2>1, RowFacts, FS_Subset DEF Landing
<1>2. \A r \in S : Gain[r] = Positive(r) /\ Gain[r] \in Int /\ Gain[r] >= 0
  BY <1>1, GainType DEF Gain
<1>3. DayTotal(d) = G[S]
  BY DEF DayTotal, MapThenSumSet, MapThenFoldSet
<1> HIDE DEF S
<1>4. PICK g : IsSum(g, Gain, S)
  BY <1>1, <1>2, SumExists
<1>5. \A s \in SUBSET S : s # {} => Pick(s) \in S /\ Positive(Pick(s)) = Gain[Pick(s)]
  BY <1>2, PickIn
<1>6. P(g)
  BY <1>4, <1>5 DEF IsSum, Pick
<1>7. P(G)
  BY <1>6
<1> HIDE DEF G
<1>8. IsSum(G, Gain, S)
  BY <1>5, <1>7 DEF IsSum, Pick
<1>9. G[S] = Total(Gain, S)
  BY <1>1, <1>2, <1>8, TotalIs
<1>10. Total(Gain, S) \in Int /\ Total(Gain, {}) <= Total(Gain, S)
  BY <1>1, <1>2, TotalType, TotalMonotone
<1> QED BY <1>3, <1>9, <1>10, TotalEmpty DEF S

-----------------------------------------------------------------------------
(* No day shows more than was served.                                      *)

LEMMA TakenByIs ==
  ASSUME Inv, NEW t \in Int, NEW m
  PROVE  TakenBy(t, m) \subseteq rows /\ IsFiniteSet(TakenBy(t, m))
<1>1. TakenBy(t, m) \subseteq rows
  BY DEF TakenBy, Rows
<1> QED BY <1>1, RowFacts, FS_Subset

\* The latest snapshot of a series tells all that was served until then.
LEMMA TruthIs ==
  ASSUME Inv, NEW t \in Int, NEW m, NEW r \in TakenBy(t, m),
         \A q \in TakenBy(t, m) : q.ts <= r.ts
  PROVE  Truth(TakenBy(t, m)) = r.served
<1> DEFINE S == TakenBy(t, m)
           Sums == {q.served : q \in S}
<1>1. S \subseteq rows /\ IsFiniteSet(S) /\ \A q \in S : q.model = m
  BY TakenByIs DEF TakenBy, Rows
<1>2. Sums \in SUBSET Int /\ Sums # {} /\ IsFiniteSet(Sums)
  <2>1. Sums \in SUBSET Int /\ Sums # {}
    BY <1>1, RowFacts
  <2>2. IsFiniteSet(Sums)
    <3> DEFINE f == [q \in S |-> q.served]
    <3>1. f \in Surjection(S, Sums)
      BY DEF Surjection
    <3> QED BY <1>1, <3>1, FS_Surjection
  <2> QED BY <2>1, <2>2
<1>3. \A q \in S : q.served <= r.served
  <2> SUFFICES ASSUME NEW q \in S PROVE q.served <= r.served
    OBVIOUS
  <2>1. q \in rows /\ r \in rows /\ q.model = r.model /\ q.ts <= r.ts
    BY <1>1
  <2>2. CASE q.ts = r.ts
    BY <2>1, <2>2, RowFacts DEF Inv, OneRowEach
  <2>3. CASE q.ts < r.ts
    BY <2>1, <2>3 DEF Inv, SeriesGrow, Gained
  <2> QED BY <2>1, <2>2, <2>3, RowFacts
<1>4. r.served \in Sums /\ \A n \in Sums : n <= r.served
  BY <1>3
<1>5. r.served \in Int
  BY <1>2, <1>4
<1>6. S # {} /\ Truth(S) = Max(Sums)
  BY DEF Truth
<1> HIDE DEF Sums, S
<1>7. Max(Sums) \in Sums /\ \A n \in Sums : n <= Max(Sums)
  BY <1>2, MaxIs
<1>8. Max(Sums) <= r.served /\ r.served <= Max(Sums) /\ Max(Sums) \in Int
  BY <1>2, <1>4, <1>7
<1>9. Max(Sums) = r.served
  BY <1>5, <1>8
<1> QED BY <1>6, <1>9 DEF S

\* Some snapshot of those taken by t is the latest.
LEMMA Latest ==
  ASSUME Inv, NEW t \in Int, NEW m, TakenBy(t, m) # {}
  PROVE  \E r \in TakenBy(t, m) : \A q \in TakenBy(t, m) : q.ts <= r.ts
<1> DEFINE S == TakenBy(t, m)
           Times == {q.ts : q \in S}
<1>1. S \subseteq rows /\ IsFiniteSet(S)
  BY TakenByIs
<1>2. Times \in SUBSET Int /\ Times # {}
  BY <1>1, RowFacts
<1>3. IsFiniteSet(Times)
  <2> DEFINE f == [q \in S |-> q.ts]
  <2>1. f \in Surjection(S, Times)
    BY DEF Surjection
  <2> QED BY <1>1, <2>1, FS_Surjection
<1>4. PICK last \in Times : \A n \in Times : n <= last
  <2> HIDE DEF Times
  <2> QED BY <1>2, <1>3, Greatest
<1> QED BY <1>4

\* What is known to be served only grows.
LEMMA TruthGrows ==
  ASSUME Inv, NEW s \in Int, NEW t \in Int, s <= t, NEW m
  PROVE  /\ Truth(TakenBy(s, m)) \in Nat /\ Truth(TakenBy(t, m)) \in Nat
         /\ Truth(TakenBy(s, m)) <= Truth(TakenBy(t, m))
<1>1. TakenBy(s, m) \subseteq TakenBy(t, m)
  BY RowFacts DEF TakenBy, Rows
<1>2. \A u \in {s, t} : TakenBy(u, m) = {} => Truth(TakenBy(u, m)) = 0
  BY DEF Truth
<1>3. CASE TakenBy(t, m) = {}
  BY <1>1, <1>2, <1>3
<1>4. CASE TakenBy(t, m) # {}
  <2>1. PICK r \in TakenBy(t, m) : \A q \in TakenBy(t, m) : q.ts <= r.ts
    BY <1>4, Latest
  <2>2. Truth(TakenBy(t, m)) = r.served /\ r \in rows /\ r.model = m
    BY <2>1, TruthIs DEF TakenBy, Rows
  <2>3. CASE TakenBy(s, m) = {}
    BY <1>2, <2>2, <2>3, RowFacts
  <2>4. CASE TakenBy(s, m) # {}
    <3>1. PICK q \in TakenBy(s, m) : \A p \in TakenBy(s, m) : p.ts <= q.ts
      BY <2>4, Latest
    <3>2. Truth(TakenBy(s, m)) = q.served /\ q \in rows /\ q.model = m /\ q.ts <= r.ts
      BY <1>1, <2>1, <3>1, TruthIs DEF TakenBy, Rows
    <3>3. q.served <= r.served
      <4>1. CASE q.ts = r.ts
        BY <2>2, <3>2, <4>1, RowFacts DEF Inv, OneRowEach
      <4>2. CASE q.ts < r.ts
        BY <2>2, <3>2, <4>2 DEF Inv, SeriesGrow, Gained
      <4> QED BY <2>2, <3>2, <4>1, <4>2, RowFacts
    <3> QED BY <2>2, <3>2, <3>3, RowFacts
  <2> QED BY <2>3, <2>4
<1> QED BY <1>3, <1>4

\* The rows of a day and a model that have a delta, as far as time t.
Upto(d, m, t) == {r \in Landing(d) : r.model = m /\ r.ts <= t}

LEMMA UptoIs ==
  ASSUME Inv, NEW d, NEW m, NEW t
  PROVE  /\ Upto(d, m, t) \subseteq rows /\ IsFiniteSet(Upto(d, m, t))
         /\ \A r \in Upto(d, m, t) : Gain[r] \in Int /\ Gain[r] >= 0
<1>1. Upto(d, m, t) \subseteq rows
  BY RowFacts DEF Upto, Landing
<1> QED BY <1>1, GainType, RowFacts, FS_Subset

\* A delta is no more than was served since the snapshot before.
LEMMA GainBound ==
  ASSUME Inv, NEW r \in Bounded, Lag(r) # {}
  PROVE  Gain[r] <= r.served - Truth(TakenBy(r.ts - 1, r.model))
<1> DEFINE m == r.model
           t == r.ts - 1
<1>1. Earlier(r) # {}
  BY DEF Lag
<1>2. PICK q \in Earlier(r) : Lag(r) = {q} /\ \A p \in Earlier(r) : p.ts <= q.ts
  BY <1>1, LagIs
<1>3. q \in Bounded /\ q \in rows /\ r \in rows /\ q.model = m /\ q.ts < r.ts
  BY <1>2, RowFacts DEF Earlier
<1>4. /\ r.ts \in Nat /\ q.ts \in Nat /\ t \in Int
      /\ r.value \in Nat /\ q.value \in Nat /\ r.served \in Nat /\ q.served \in Nat
      /\ r.run \in Nat /\ q.run \in Nat
  BY <1>3, RowFacts
<1>5. q \in TakenBy(t, m)
  BY <1>3, <1>4 DEF TakenBy, Rows
<1>6. \A p \in TakenBy(t, m) : p.ts <= q.ts
  <2> SUFFICES ASSUME NEW p \in TakenBy(t, m), ~ (p.ts <= q.ts) PROVE FALSE
    OBVIOUS
  <2>1. p \in rows /\ p.model = m /\ p.ts < r.ts /\ p.ts \in Nat
    BY <1>4, RowFacts DEF TakenBy, Rows
  <2>2. p \in Bounded
    BY <1>3, <1>4, <2>1, BoundedIsASuffix
  <2> QED BY <1>2, <2>1, <2>2 DEF Earlier
<1>7. Truth(TakenBy(t, m)) = q.served
  <2> HIDE DEF t, m
  <2> QED BY <1>4, <1>5, <1>6, TruthIs
<1>8. Gain[r] = IF r.value - q.value > 0 THEN r.value - q.value ELSE 0
  BY <1>2, GainIs
<1>9. Gained(q, r.run, r.value, r.served)
  BY <1>3 DEF Inv, SeriesGrow
<1>10. r.value - q.value <= r.served - q.served /\ q.served <= r.served
  BY <1>4, <1>9 DEF Gained
<1> QED BY <1>4, <1>7, <1>8, <1>10

LEMMA UptoBound ==
  ASSUME Inv, NEW d \in Int, NEW m \in Models, NEW k \in Nat
  PROVE  Total(Gain, Upto(d, m, d * DayLen - 1 + k))
         <= Truth(TakenBy(d * DayLen - 1 + k, m)) - Truth(TakenBy(d * DayLen - 1, m))
<1> DEFINE s == d * DayLen - 1
           Holds(n) == Total(Gain, Upto(d, m, s + n))
                       <= Truth(TakenBy(s + n, m)) - Truth(TakenBy(s, m))
           F == {n \in Nat : ~ Holds(n)}
<1>1. s \in Int
  BY DayStart
<1>2. ASSUME F # {} PROVE FALSE
  <2>1. PICK n \in F : \A o \in F : n <= o
    <3>1. F \in SUBSET Nat
      OBVIOUS
    <3> HIDE DEF F
    <3> QED BY <1>2, <3>1, LeastNatural
  <2>2. n \in Nat /\ ~ Holds(n)
    BY <2>1
  <2> DEFINE t == s + n
  <2>3. t \in Int /\ s <= t
    BY <1>1, <2>2
  <2>4. Truth(TakenBy(s, m)) \in Nat /\ Truth(TakenBy(t, m)) \in Nat
    <3> HIDE DEF s, t
    <3> QED BY <1>1, <2>3, TruthGrows
  <2>5. CASE n = 0
    <3>1. t = s
      BY <1>1, <2>5
    <3>2. Upto(d, m, s) = {}
      <4> SUFFICES ASSUME NEW r \in Upto(d, m, s) PROVE FALSE
        OBVIOUS
      <4>1. r.ts \in Int /\ Day(r.ts) = d /\ r.ts <= s
        BY UptoIs, RowFacts DEF Upto, Landing
      <4>2. d * DayLen <= r.ts
        BY <4>1, DayIs
      <4> QED BY <1>1, <4>1, <4>2, DayStart
    <3> HIDE DEF s, t
    <3>3. Total(Gain, Upto(d, m, t)) = 0
      BY <3>1, <3>2, TotalEmpty
    <3>4. Holds(n)
      BY <2>4, <3>1, <3>3 DEF t
    <3> QED BY <2>2, <3>4
  <2>6. CASE n # 0
    <3> DEFINE u == s + (n - 1)
    <3>1. u \in Int /\ u = t - 1 /\ u <= t /\ s <= u
      BY <1>1, <2>2, <2>6
    <3>2. n - 1 \in Nat /\ n - 1 \notin F
      BY <2>1, <2>2, <2>6
    <3>3. Total(Gain, Upto(d, m, u)) <= Truth(TakenBy(u, m)) - Truth(TakenBy(s, m))
      BY <3>2
    <3> HIDE DEF s, t, u, F
    <3>4. Truth(TakenBy(u, m)) \in Nat /\ Truth(TakenBy(u, m)) <= Truth(TakenBy(t, m))
      BY <2>3, <3>1, TruthGrows
    <3>5. Total(Gain, Upto(d, m, u)) \in Int /\ Total(Gain, Upto(d, m, t)) \in Int
      BY UptoIs, TotalType
    <3>6. CASE \E r \in Landing(d) : r.model = m /\ r.ts = t
      <4>1. PICK r \in Landing(d) : r.model = m /\ r.ts = t
        BY <3>6
      <4>2. r \in rows /\ r \in Bounded /\ Lag(r) # {}
        BY <4>1, RowFacts DEF Landing
      <4>3. r \in Upto(d, m, t)
        BY <2>3, <4>1 DEF Upto
      <4>4. Upto(d, m, t) \ {r} = Upto(d, m, u)
        <5>1. ASSUME NEW q \in Landing(d), q.model = m, q.ts <= t, q # r PROVE q.ts <= u
          <6>1. q \in rows /\ q.ts \in Nat
            BY <5>1, RowFacts DEF Landing
          <6>2. q.ts # t
            BY <4>1, <4>2, <5>1, <6>1 DEF Inv, OneRowEach
          <6> QED BY <2>3, <3>1, <5>1, <6>1, <6>2
        <5>2. ASSUME NEW q \in Landing(d), q.ts <= u PROVE q.ts <= t /\ q # r
          <6>1. q.ts \in Nat
            BY <5>2, RowFacts DEF Landing
          <6> QED BY <2>3, <3>1, <4>1, <5>2, <6>1
        <5> QED BY <5>1, <5>2 DEF Upto
      <4>5. Total(Gain, Upto(d, m, t)) = Gain[r] + Total(Gain, Upto(d, m, t) \ {r})
        <5> DEFINE S == Upto(d, m, t)
        <5>1. IsFiniteSet(S) /\ (\A x \in S : Gain[x] \in Int) /\ r \in S
          BY <4>3, UptoIs
        <5> HIDE DEF S
        <5>2. Total(Gain, S) = Gain[r] + Total(Gain, S \ {r})
          BY <5>1, TotalRemove
        <5> QED BY <5>2 DEF S
      <4>6. Gain[r] <= r.served - Truth(TakenBy(u, m))
        BY <3>1, <4>1, <4>2, GainBound
      <4>7. Truth(TakenBy(t, m)) = r.served
        <5>1. r \in TakenBy(t, m) /\ \A q \in TakenBy(t, m) : q.ts <= r.ts
          BY <2>3, <4>1, <4>2 DEF TakenBy, Rows
        <5> QED BY <2>3, <5>1, TruthIs
      <4>8. Gain[r] \in Nat
        BY <4>2, GainType
      <4>9. Total(Gain, Upto(d, m, t)) = Gain[r] + Total(Gain, Upto(d, m, u))
        BY <4>4, <4>5
      <4>10. Holds(n)
        BY <2>4, <3>3, <3>4, <3>5, <4>6, <4>7, <4>8, <4>9 DEF t
      <4> QED BY <2>2, <4>10
    <3>7. CASE ~ \E r \in Landing(d) : r.model = m /\ r.ts = t
      <4>1. Upto(d, m, t) = Upto(d, m, u)
        <5>1. \A q \in Landing(d) : q.ts \in Nat
          BY RowFacts DEF Landing
        <5>2. \A q \in Landing(d) : q.model = m => (q.ts <= t <=> q.ts <= u)
          BY <2>3, <3>1, <3>7, <5>1
        <5> QED BY <5>2 DEF Upto
      <4>2. Total(Gain, Upto(d, m, t)) = Total(Gain, Upto(d, m, u))
        BY <4>1
      <4>3. Holds(n)
        BY <2>4, <3>3, <3>4, <3>5, <4>2 DEF t
      <4> QED BY <2>2, <4>3
    <3> QED BY <3>6, <3>7
  <2> QED BY <2>5, <2>6
<1>3. Holds(k)
  BY <1>2
<1> QED BY <1>3

\* The days of the axis are numbers, and a day is known by its deltas.
LEMMA AxisIs ==
  ASSUME Inv
  PROVE  /\ Axis \subseteq Int
         /\ \A d \in Axis : /\ DailyUsage[d] = DayTotal(d)
                            /\ Known(d) <=> Landing(d) # {}
<1>1. Axis \subseteq Int
  BY RowFacts, DayBounds, TimeAssumption DEF Axis, Today
<1>2. \A d \in Axis : DailyUsage[d] = DayTotal(d)
  BY DEF DailyUsage
<1>3. ASSUME NEW d \in Axis PROVE Known(d) <=> Landing(d) # {}
  <2>1. CASE Landing(d) = {}
    BY <1>2, <2>1 DEF Known, DayTotal
  <2>2. CASE Landing(d) # {}
    BY <1>2, <2>2, DayTotalIs DEF Known, None
  <2> QED BY <2>1, <2>2
<1> QED BY <1>1, <1>2, <1>3

\* The same of all the rows of a day.
LEMMA DayBound ==
  ASSUME Inv, NEW d \in Int, NEW m \in Models
  PROVE  Total(Gain, {r \in Landing(d) : r.model = m}) <= Observed(d, m)
<1> DEFINE t == d * DayLen - 1 + DayLen
<1>1. t = (d + 1) * DayLen - 1 /\ DayLen \in Nat
  BY DayStart, TimeAssumption
<1>2. {r \in Landing(d) : r.model = m} = Upto(d, m, t)
  <2>1. \A r \in Landing(d) : r.ts \in Int /\ Day(r.ts) = d
    BY RowFacts DEF Landing
  <2>2. \A r \in Landing(d) : r.ts <= t
    BY <1>1, <2>1, DayIs
  <2> QED BY <2>2 DEF Upto
<1>3. Total(Gain, Upto(d, m, t)) <= Truth(TakenBy(t, m)) - Truth(TakenBy(d * DayLen - 1, m))
  BY <1>1, UptoBound
<1> QED BY <1>1, <1>2, <1>3 DEF Observed

\* What was observed is a number, and the sum over the models is a total.
LEMMA ObservedSum ==
  ASSUME Inv, NEW d \in Int
  PROVE  /\ \A m \in Models : Observed(d, m) \in Int
         /\ MapThenSumSet(LAMBDA m : Observed(d, m), Models)
            = Total([m \in Models |-> Observed(d, m)], Models)
<1> DEFINE e == [m \in Models |-> Observed(d, m)]
           P(g) == g = [s \in SUBSET Models |->
                          IF s = {} THEN 0
                          ELSE Observed(d, CHOOSE x \in s : TRUE)
                               + g[s \ {CHOOSE x \in s : TRUE}]]
           G == CHOOSE g : P(g)
<1>1. ASSUME NEW m \in Models PROVE Observed(d, m) \in Int
  <2> DEFINE s == d * DayLen - 1
             t == (d + 1) * DayLen - 1
  <2>1. s \in Int /\ t \in Int /\ s <= t
    <3>1. d * DayLen \in Int /\ (d + 1) * DayLen = d * DayLen + DayLen /\ DayLen \in Nat
      BY DayStart, TimeAssumption
    <3> QED BY <3>1
  <2> HIDE DEF s, t
  <2>2. Truth(TakenBy(s, m)) \in Nat /\ Truth(TakenBy(t, m)) \in Nat
    BY <2>1, TruthGrows
  <2> QED BY <2>2 DEF s, t, Observed
<1>2. MapThenSumSet(LAMBDA m : Observed(d, m), Models) = G[Models]
  BY DEF MapThenSumSet, MapThenFoldSet
<1>3. \A m \in Models : e[m] = Observed(d, m) /\ e[m] \in Int
  BY <1>1
<1> HIDE DEF e
<1>4. PICK g : IsSum(g, e, Models)
  BY <1>3, ModelsAssumption, SumExists
<1>5. \A s \in SUBSET Models :
        s # {} => Pick(s) \in Models /\ Observed(d, Pick(s)) = e[Pick(s)]
  BY <1>3, PickIn
<1>6. P(g)
  BY <1>4, <1>5 DEF IsSum, Pick
<1>7. P(G)
  BY <1>6
<1> HIDE DEF G
<1>8. IsSum(G, e, Models)
  BY <1>5, <1>7 DEF IsSum, Pick
<1>9. G[Models] = Total(e, Models)
  BY <1>3, <1>8, ModelsAssumption, TotalIs
<1> QED BY <1>1, <1>2, <1>9 DEF e

LEMMA InvImpliesNeverOvercounts == Inv => NeverOvercounts
<1> SUFFICES ASSUME Inv, NEW d \in Axis, Known(d)
             PROVE  DailyUsage[d] <= MapThenSumSet(LAMBDA m : Observed(d, m), Models)
  BY DEF NeverOvercounts
<1>1. d \in Int /\ Landing(d) # {} /\ DailyUsage[d] = DayTotal(d)
  BY AxisIs
<1> DEFINE S == Landing(d)
           part == [m \in Models |-> {r \in S : r.model = m}]
           sum == [m \in Models |-> Total(Gain, part[m])]
           e == [m \in Models |-> Observed(d, m)]
<1>2. DailyUsage[d] = Total(Gain, S)
  BY <1>1, DayTotalIs
<1>3. S \subseteq rows
  BY RowFacts DEF Landing
<1>4. IsFiniteSet(S) /\ (\A r \in S : Gain[r] \in Int /\ r.model \in Models)
  BY <1>3, RowFacts, FS_Subset, GainType
<1>5. UNION {part[m] : m \in Models} = S
  BY <1>4
<1>6. /\ \A m \in Models : part[m] \subseteq S
      /\ \A m, n \in Models : m # n => part[m] \cap part[n] = {}
      /\ \A m \in Models : sum[m] = Total(Gain, part[m])
  OBVIOUS
<1>7. \A m \in Models : sum[m] \in Int /\ sum[m] <= e[m] /\ e[m] \in Int
  <2> SUFFICES ASSUME NEW m \in Models
               PROVE  sum[m] \in Int /\ sum[m] <= e[m] /\ e[m] \in Int
    OBVIOUS
  <2>1. sum[m] <= e[m]
    BY <1>1, DayBound
  <2>2. e[m] \in Int
    BY <1>1, ObservedSum
  <2>3. IsFiniteSet(part[m]) /\ \A r \in part[m] : Gain[r] \in Int
    BY <1>4, FS_Subset
  <2> QED BY <2>1, <2>2, <2>3, TotalType
<1> HIDE DEF S, part, sum, e
<1>8. Total(sum, Models) = Total(Gain, S)
  <2>1. Total(sum, Models) = Total(Gain, UNION {part[m] : m \in Models})
    BY <1>4, <1>6, ModelsAssumption, TotalOfTotals
  <2> QED BY <1>5, <2>1
<1>9. Total(sum, Models) <= Total(e, Models)
  BY <1>7, ModelsAssumption, TotalMonotone
<1>10. MapThenSumSet(LAMBDA m : Observed(d, m), Models) = Total(e, Models)
  BY <1>1, ObservedSum DEF e
<1> QED BY <1>2, <1>8, <1>9, <1>10

\* However snapshots are lost and servers restart, no day's bar shows more
\* than the server served between the snapshots around it (storage/usage.rs).
THEOREM NeverOvercountsAlways == Spec => []NeverOvercounts
BY Invariant, InvImpliesNeverOvercounts, PTL

-----------------------------------------------------------------------------
(* Absent is not zero.                                                     *)

LEMMA InvImpliesAbsentIsNotZero == Inv => AbsentIsNotZero
<1> SUFFICES ASSUME Inv, NEW d \in Axis
             PROVE  LET of(m) == {r \in Rows(m) : Day(r.ts) = d} IN
                    /\ (\A m \in Models : of(m) = {}) => ~ Known(d)
                    /\ (\E m \in Models : Cardinality({r \in of(m) : r \in Bounded}) > 1)
                       => Known(d)
  BY DEF AbsentIsNotZero
<1> DEFINE of(m) == {r \in Rows(m) : Day(r.ts) = d}
<1>1. ASSUME \A m \in Models : of(m) = {} PROVE ~ Known(d)
  <2>1. Landing(d) = {}
    BY <1>1, RowFacts DEF Landing, Rows
  <2> QED BY <2>1, AxisIs
<1>2. ASSUME NEW m \in Models, Cardinality({r \in of(m) : r \in Bounded}) > 1
      PROVE  Known(d)
  <2> DEFINE S == {r \in of(m) : r \in Bounded}
  <2>1. \E q, r \in S : q # r
    <3> SUFFICES ASSUME \A q, r \in S : q = r PROVE FALSE
      OBVIOUS
    <3>1. S = {} \/ \E q \in S : S = {q}
      OBVIOUS
    <3> HIDE DEF S
    <3>2. Cardinality(S) = 0 \/ Cardinality(S) = 1
      BY <3>1, FS_EmptySet, FS_Singleton
    <3> QED BY <1>2, <3>2 DEF S
  <2>2. PICK q, r \in S : q # r
    BY <2>1
  <2>3. /\ q \in Bounded /\ r \in Bounded /\ q \in rows /\ r \in rows
        /\ q.model = m /\ r.model = m /\ Day(q.ts) = d /\ Day(r.ts) = d
    BY RowFacts DEF Rows
  <2>4. q.ts # r.ts /\ q.ts \in Nat /\ r.ts \in Nat
    BY <2>2, <2>3, RowFacts DEF Inv, OneRowEach
  <2>5. q.ts < r.ts \/ r.ts < q.ts
    BY <2>4
  <2>6. Earlier(r) # {} \/ Earlier(q) # {}
    BY <2>3, <2>5 DEF Earlier
  <2>7. Lag(r) # {} \/ Lag(q) # {}
    BY <2>3, <2>6, LagIs
  <2>8. Landing(d) # {}
    BY <2>3, <2>7 DEF Landing
  <2> QED BY <2>8, AxisIs
<1> QED BY <1>1, <1>2

\* A day of which nothing is stored has no bar, one with two snapshots of a
\* series has one, be it of zero (storage/usage.rs).
THEOREM AbsentIsNotZeroAlways == Spec => []AbsentIsNotZero
BY Invariant, InvImpliesAbsentIsNotZero, PTL

-----------------------------------------------------------------------------
(* Dropped batches heal.                                                   *)

\* The rows of r's series that follow q, as far as time t.
Since(q, t) == {p \in Bounded : p.model = q.model /\ q.ts < p.ts /\ p.ts <= t}

LEMMA SinceIs ==
  ASSUME Inv, NEW q, NEW t
  PROVE  /\ Since(q, t) \subseteq rows /\ IsFiniteSet(Since(q, t))
         /\ \A p \in Since(q, t) : Gain[p] \in Int /\ Gain[p] >= 0
<1>1. Since(q, t) \subseteq rows
  BY RowFacts DEF Since
<1> QED BY <1>1, GainType, RowFacts, FS_Subset

\* Positive deltas telescope to no less than the counter's difference.
LEMMA SinceBound ==
  ASSUME Inv, NEW q \in Bounded, NEW r \in Bounded, q.model = r.model, q.ts <= r.ts
  PROVE  r.value - q.value <= Total(Gain, Since(q, r.ts))
<1> DEFINE Holds(p) == p.value - q.value <= Total(Gain, Since(q, p.ts))
           Bad == {p \in Bounded : p.model = q.model /\ q.ts <= p.ts /\ ~ Holds(p)}
           F == {p.ts : p \in Bad}
<1>1. q \in rows /\ q.ts \in Nat /\ q.value \in Nat
  BY RowFacts
<1>2. ASSUME Bad # {} PROVE FALSE
  <2>1. F \in SUBSET Nat /\ F # {}
    BY <1>2, RowFacts
  <2>2. PICK t \in F : \A u \in F : t <= u
    <3> HIDE DEF F
    <3> QED BY <2>1, LeastNatural
  <2>3. PICK p \in Bad : t = p.ts
    BY <2>2
  <2>4. /\ p \in Bounded /\ p \in rows /\ p.model = q.model /\ q.ts <= p.ts /\ ~ Holds(p)
        /\ p.ts \in Nat /\ p.value \in Nat
    BY <2>3, RowFacts
  <2> HIDE DEF F
  <2>5. CASE p.ts = q.ts
    <3>1. p = q
      BY <1>1, <2>4, <2>5 DEF Inv, OneRowEach
    <3>2. Since(q, p.ts) = {}
      BY <1>1, <2>4, <2>5, RowFacts DEF Since
    <3>3. Total(Gain, Since(q, p.ts)) = 0
      BY <3>2, TotalEmpty
    <3>4. p.value - q.value = 0
      BY <1>1, <3>1
    <3> QED BY <2>4, <3>3, <3>4
  <2>6. CASE q.ts < p.ts
    <3>1. q \in Earlier(p)
      BY <2>4, <2>6 DEF Earlier
    <3>2. PICK l \in Earlier(p) : Lag(p) = {l} /\ \A k \in Earlier(p) : k.ts <= l.ts
      BY <2>4, <3>1, LagIs
    <3>3. /\ l \in Bounded /\ l \in rows /\ l.model = q.model /\ l.ts < p.ts /\ q.ts <= l.ts
          /\ l.ts \in Nat /\ l.value \in Nat
      BY <2>4, <3>1, <3>2, RowFacts DEF Earlier
    <3>4. Holds(l)
      <4>1. SUFFICES ASSUME ~ Holds(l) PROVE FALSE
        OBVIOUS
      <4>2. l.ts \in F
        BY <3>3, <4>1 DEF F
      <4> QED BY <2>2, <2>3, <2>4, <3>3, <4>2
    <3> DEFINE S == Since(q, p.ts)
    <3>5. p \in S /\ IsFiniteSet(S) /\ \A x \in S : Gain[x] \in Int
      BY <2>4, <2>6, SinceIs DEF Since
    <3>6. S \ {p} = Since(q, l.ts)
      <4>1. ASSUME NEW k \in S, k # p PROVE k.ts <= l.ts
        <5>1. k \in Bounded /\ k \in rows /\ k.model = p.model /\ k.ts <= p.ts /\ k.ts \in Nat
          BY <2>4, <4>1, RowFacts DEF Since
        <5>2. k.ts # p.ts
          BY <2>4, <4>1, <5>1 DEF Inv, OneRowEach
        <5>3. k \in Earlier(p)
          BY <2>4, <5>1, <5>2 DEF Earlier
        <5> QED BY <3>2, <5>3
      <4>2. ASSUME NEW k \in Since(q, l.ts) PROVE k \in S /\ k # p
        <5>1. k \in Bounded /\ k.ts \in Nat /\ k.ts <= l.ts /\ k.model = q.model /\ q.ts < k.ts
          BY <4>2, RowFacts DEF Since
        <5>2. k.ts <= p.ts /\ k.ts # p.ts
          BY <2>4, <3>3, <5>1
        <5> QED BY <5>1, <5>2 DEF Since
      <4> QED BY <4>1, <4>2 DEF Since
    <3>7. Total(Gain, S) = Gain[p] + Total(Gain, S \ {p})
      <4> HIDE DEF S
      <4> QED BY <3>5, TotalRemove
    <3>8. Gain[p] = IF p.value - l.value > 0 THEN p.value - l.value ELSE 0
      BY <2>4, <3>2, GainIs
    <3>9. Total(Gain, Since(q, l.ts)) \in Int
      BY SinceIs, TotalType
    <3>10. Total(Gain, S) = Gain[p] + Total(Gain, Since(q, l.ts))
      BY <3>6, <3>7
    <3>11. p.value - q.value <= Total(Gain, S)
      <4> HIDE DEF S
      <4> QED BY <1>1, <2>4, <3>3, <3>4, <3>8, <3>9, <3>10
    <3> QED BY <2>4, <3>11
  <2> QED BY <1>1, <2>4, <2>5, <2>6
<1>3. Holds(r)
  BY <1>2
<1> QED BY <1>3

\* The charts' totals of some days are the gains of those days.
LEMMA SumOfDays ==
  ASSUME Inv, NEW D, D \subseteq Axis, IsFiniteSet(D), \A d \in D : Known(d)
  PROVE  MapThenSumSet(LAMBDA d : DailyUsage[d], D)
         = Total(Gain, UNION {Landing(d) : d \in D})
<1> DEFINE part == [d \in D |-> Landing(d)]
           e == [d \in D |-> DailyUsage[d]]
           P(g) == g = [s \in SUBSET D |->
                          IF s = {} THEN 0
                          ELSE DailyUsage[CHOOSE x \in s : TRUE]
                               + g[s \ {CHOOSE x \in s : TRUE}]]
           G == CHOOSE g : P(g)
<1>1. ASSUME NEW d \in D
      PROVE  DailyUsage[d] = Total(Gain, Landing(d)) /\ DailyUsage[d] \in Int
  <2>1. Landing(d) # {} /\ DailyUsage[d] = DayTotal(d)
    BY AxisIs
  <2> QED BY <2>1, DayTotalIs
<1>2. MapThenSumSet(LAMBDA d : DailyUsage[d], D) = G[D]
  BY DEF MapThenSumSet, MapThenFoldSet
<1>3. \A d \in D : e[d] = DailyUsage[d] /\ e[d] \in Int /\ e[d] = Total(Gain, part[d])
  BY <1>1
<1>4. /\ \A d \in D : part[d] \subseteq rows
      /\ \A c, d \in D : c # d => part[c] \cap part[d] = {}
      /\ UNION {part[d] : d \in D} = UNION {Landing(d) : d \in D}
  BY RowFacts DEF Landing
<1>5. IsFiniteSet(rows) /\ \A r \in rows : Gain[r] \in Int
  BY RowFacts, GainType
<1> HIDE DEF e, part
<1>6. PICK g : IsSum(g, e, D)
  BY <1>3, SumExists
<1>7. \A s \in SUBSET D : s # {} => Pick(s) \in D /\ DailyUsage[Pick(s)] = e[Pick(s)]
  BY <1>3, PickIn
<1>8. P(g)
  BY <1>6, <1>7 DEF IsSum, Pick
<1>9. P(G)
  BY <1>8
<1> HIDE DEF G
<1>10. IsSum(G, e, D)
  BY <1>7, <1>9 DEF IsSum, Pick
<1>11. G[D] = Total(e, D)
  BY <1>3, <1>10, TotalIs
<1>12. Total(e, D) = Total(Gain, UNION {part[d] : d \in D})
  BY <1>3, <1>4, <1>5, TotalOfTotals
<1> QED BY <1>2, <1>4, <1>11, <1>12

LEMMA InvImpliesDroppedBatchesHeal == Inv => DroppedBatchesHeal
<1> SUFFICES ASSUME Inv, NEW q \in Bounded, NEW r \in Bounded,
                    q.model = r.model, q.run = r.run, q.ts < r.ts,
                    Day(q.ts) >= Today - (WindowDays - 1)
             PROVE  MapThenSumSet(LAMBDA d : DailyUsage[d],
                                  {d \in Day(q.ts) .. Day(r.ts) : Known(d)})
                    >= r.served - q.served
  BY DEF DroppedBatchesHeal
<1> DEFINE D == {d \in Day(q.ts) .. Day(r.ts) : Known(d)}
           U == UNION {Landing(d) : d \in D}
<1>1. /\ q \in rows /\ r \in rows /\ q.ts \in Nat /\ r.ts \in Nat /\ r.ts <= now /\ now \in Nat
      /\ q.value \in Nat /\ r.value \in Nat /\ q.served \in Nat /\ r.served \in Nat
  BY RowFacts
<1>2. Day(q.ts) \in Int /\ Day(r.ts) \in Int /\ Day(r.ts) <= Today /\ Today \in Int
  BY <1>1, DayBounds, DayMonotone DEF Today
<1>3. Day(q.ts) .. Day(r.ts) \subseteq Axis
  BY <1>2, TimeAssumption DEF Axis
<1>4. D \subseteq Axis /\ IsFiniteSet(D) /\ \A d \in D : Known(d)
  <2>1. IsFiniteSet(Day(q.ts) .. Day(r.ts))
    BY <1>2, FS_Interval
  <2> QED BY <1>3, <2>1, FS_Subset
<1>5. MapThenSumSet(LAMBDA d : DailyUsage[d], D) = Total(Gain, U)
  <2> HIDE DEF D
  <2> QED BY <1>4, SumOfDays
<1>6. Since(q, r.ts) \subseteq U
  <2> SUFFICES ASSUME NEW p \in Since(q, r.ts) PROVE p \in U
    OBVIOUS
  <2>1. p \in Bounded /\ p.ts \in Nat /\ q.ts < p.ts /\ p.ts <= r.ts /\ p.model = q.model
    BY RowFacts DEF Since
  <2>2. Day(p.ts) \in Day(q.ts) .. Day(r.ts)
    <3>1. Day(p.ts) \in Int /\ Day(q.ts) <= Day(p.ts) /\ Day(p.ts) <= Day(r.ts)
      BY <1>1, <2>1, DayBounds, DayMonotone
    <3> QED BY <1>2, <3>1
  <2>3. q \in Earlier(p)
    BY <2>1 DEF Earlier
  <2>4. Lag(p) # {}
    BY <2>1, <2>3, LagIs
  <2>5. p \in Landing(Day(p.ts))
    BY <2>1, <2>4 DEF Landing
  <2>6. Day(p.ts) \in D
    BY <1>3, <2>2, <2>5, AxisIs
  <2> QED BY <2>5, <2>6
<1>7. U \subseteq rows
  BY RowFacts DEF Landing
<1>8. IsFiniteSet(U) /\ \A p \in U : Gain[p] \in Int /\ Gain[p] >= 0
  <2> HIDE DEF U
  <2> QED BY <1>7, RowFacts, FS_Subset, GainType
<1> DEFINE W == Since(q, r.ts)
<1>9. W \in SUBSET U /\ \A p \in W : Gain[p] \in Int /\ Gain[p] <= Gain[p]
  BY <1>6, <1>8
<1>10. r.value - q.value <= Total(Gain, W)
  BY <1>1, SinceBound
<1> HIDE DEF U, D, W
<1>11. Total(Gain, W) <= Total(Gain, U)
  BY <1>8, <1>9, TotalMonotone
<1>12. Total(Gain, W) \in Int /\ Total(Gain, U) \in Int
  BY <1>8, <1>9, FS_Subset, TotalType
<1>13. r.value - q.value = r.served - q.served
  BY <1>1 DEF Inv, SeriesGrow, Gained
<1> QED BY <1>1, <1>5, <1>10, <1>11, <1>12, <1>13 DEF D

\* Of two snapshots of one process the days between show at least what was
\* served between them, whatever batches were lost (USAGE-ACCOUNTING.md).
THEOREM DroppedBatchesHealAlways == Spec => []DroppedBatchesHeal
BY Invariant, InvImpliesDroppedBatchesHeal, PTL

-----------------------------------------------------------------------------
(* Days that are over keep their totals.                                   *)

DayTotalsAreGains ==
  \A d \in Int : IF Landing(d) = {} THEN DayTotal(d) = None
                 ELSE DayTotal(d) = Total(Gain, Landing(d))

LEMMA DayTotals == Inv => DayTotalsAreGains
BY DayTotalIs DEF DayTotal, DayTotalsAreGains

LEMMA DayTotalsNext == Inv' => DayTotalsAreGains'
BY DayTotals, PTL

LEMMA GainTypes == Inv => \A r \in rows : Gain[r] \in Nat
BY GainType

\* A day keeps its total if its rows and their predecessors stay as they are.
LEMMA KeptDay ==
  ASSUME Inv, Inv', NEW d \in Axis, d \in Axis',
         \A r : Day(r.ts) = d => (r \in Bounded <=> r \in Bounded'),
         \A r \in Bounded : Day(r.ts) = d => Lag(r)' = Lag(r)
  PROVE  DailyUsage'[d] = DailyUsage[d]
<1>1. d \in Int /\ DailyUsage[d] = DayTotal(d) /\ DailyUsage'[d] = DayTotal(d)'
  BY AxisIs DEF DailyUsage
<1>2. Landing(d)' = Landing(d)
  BY DEF Landing
<1>3. \A r \in Landing(d) : Gain'[r] = Gain[r] /\ Gain[r] \in Int
  <2> SUFFICES ASSUME NEW r \in Landing(d) PROVE Gain'[r] = Gain[r] /\ Gain[r] \in Int
    OBVIOUS
  <2>1. r \in Bounded /\ r \in Bounded' /\ Lag(r) # {} /\ Lag(r)' = Lag(r)
    BY DEF Landing
  <2>2. r \in rows /\ r \in rows'
    BY <2>1 DEF Bounded
  <2>3. Positive(r)' = Positive(r)
    BY <2>1 DEF Positive, Delta
  <2>4. Gain[r] = Positive(r) /\ Gain'[r] = Positive(r)'
    BY <2>1, <2>2 DEF Gain
  <2> QED BY <2>2, <2>3, <2>4, GainTypes
<1>4. IsFiniteSet(Landing(d))
  <2>1. Landing(d) \subseteq rows
    BY RowFacts DEF Landing
  <2> QED BY <2>1, RowFacts, FS_Subset
<1>5. Total(Gain', Landing(d)) = Total(Gain, Landing(d))
  BY <1>3, <1>4, TotalEqual
<1>6. IF Landing(d) = {} THEN DayTotal(d) = None
      ELSE DayTotal(d) = Total(Gain, Landing(d))
  BY <1>1, DayTotals DEF DayTotalsAreGains
<1>7. IF Landing(d)' = {} THEN DayTotal(d)' = None
      ELSE DayTotal(d)' = Total(Gain', Landing(d)')
  BY <1>1, DayTotalsNext DEF DayTotalsAreGains, Total
<1> QED BY <1>1, <1>2, <1>5, <1>6, <1>7

\* Retention keeps whatever the charts read.
LEMMA CleanupKeepsBounded ==
  ASSUME Inv, Cleanup, retention >= WindowDays + 1
  PROVE  Bounded' = Bounded
<1>1. now' = now /\ rows' \subseteq rows /\ rows \ rows' \subseteq Expired
  BY DEF Cleanup
<1>2. retention \in Int /\ WindowDays + 1 \in Int /\ DayLen \in Nat
  BY TimeAssumption, RetentionAssumption DEF Inv, Types
<1>3. (WindowDays + 1) * DayLen <= retention * DayLen
  <2>1. PICK k \in Nat : retention = WindowDays + 1 + k
    <3> DEFINE k == retention - (WindowDays + 1)
    <3>1. k \in Nat /\ retention = WindowDays + 1 + k
      BY <1>2, TimeAssumption
    <3> QED BY <3>1
  <2>2. retention * DayLen = (WindowDays + 1) * DayLen + k * DayLen /\ k * DayLen \in Nat
    BY <1>2, <2>1, TimeAssumption
  <2>3. (WindowDays + 1) * DayLen \in Int
    BY <1>2
  <2> QED BY <2>2, <2>3
<1>4. retention * DayLen \in Int /\ (WindowDays + 1) * DayLen \in Int
  BY <1>2
<1>5. \A r \in Expired : r \in rows /\ r \notin Bounded
  BY <1>3, <1>4, RowFacts DEF Expired, Bounded
<1> QED BY <1>1, <1>5 DEF Bounded

\* What leaves the query's reach as time passes is older than the days before
\* those of the axis.
LEMMA WindowReach ==
  ASSUME NEW n \in Nat, NEW d \in Int, d >= Day(n) - (WindowDays - 1)
  PROVE  n - (WindowDays + 1) * DayLen <= d * DayLen - DayLen
<1>1. Day(n) \in Int /\ n < Day(n) * DayLen + DayLen
  BY DayBounds
<1> DEFINE k == d - (Day(n) - (WindowDays - 1))
<1>2. k \in Nat /\ WindowDays \in Nat /\ DayLen \in Nat
  BY <1>1, TimeAssumption
<1>3. d = Day(n) - WindowDays + 1 + k
  BY <1>1, <1>2
<1> HIDE DEF k
<1>4. d * DayLen = Day(n) * DayLen - WindowDays * DayLen + DayLen + k * DayLen
  BY <1>1, <1>2, <1>3
<1>5. (WindowDays + 1) * DayLen = WindowDays * DayLen + DayLen
  BY <1>2
<1>6. /\ k * DayLen \in Nat /\ Day(n) * DayLen \in Int /\ WindowDays * DayLen \in Int
  BY <1>1, <1>2
<1> QED BY <1>1, <1>2, <1>4, <1>5, <1>6

\* A settled day's rows and their predecessors are no further back than a day
\* before it.
LEMMA SettledLag ==
  ASSUME Inv, NEW d \in Int, Settled(d), NEW r \in Bounded, Day(r.ts) = d,
         NEW q \in Earlier(r), \A p \in Earlier(r) : p.ts <= q.ts,
         \A p \in rows : p.ts >= d * DayLen - DayLen => p \in Bounded
  PROVE  q.ts >= d * DayLen - DayLen
<1>1. /\ q \in rows /\ r \in rows /\ q.model = r.model /\ q.ts \in Nat /\ r.ts \in Nat
      /\ r.model \in Models /\ d * DayLen \in Int /\ DayLen \in Nat
  BY RowFacts, DayStart, TimeAssumption DEF Earlier
<1>2. d * DayLen <= r.ts
  BY <1>1, DayIs
<1>3. SUFFICES ASSUME q.ts < d * DayLen PROVE q.ts >= d * DayLen - DayLen
  BY <1>1
<1> DEFINE before == {p \in Rows(r.model) : p.ts < d * DayLen}
           Times == {p.ts : p \in before}
<1>4. q \in before /\ r \in Rows(r.model)
  BY <1>1, <1>3 DEF Rows
<1>5. Max(Times) >= d * DayLen - DayLen
  BY <1>1, <1>4 DEF Settled
<1>6. Times \in SUBSET Int /\ Times # {}
  BY <1>4, RowFacts DEF Rows
<1>7. IsFiniteSet(Times)
  <2>1. before \subseteq rows
    BY DEF Rows
  <2>2. IsFiniteSet(before)
    BY <2>1, RowFacts, FS_Subset
  <2> DEFINE f == [p \in before |-> p.ts]
  <2>3. f \in Surjection(before, Times)
    BY DEF Surjection
  <2> QED BY <2>2, <2>3, FS_Surjection
<1>8. Max(Times) \in Times
  <2> HIDE DEF Times
  <2> QED BY <1>6, <1>7, MaxIs
<1>9. PICK b \in before : Max(Times) = b.ts
  BY <1>8
<1>10. b \in rows /\ b.model = r.model /\ b.ts \in Nat /\ b.ts < r.ts
  BY <1>1, <1>2, RowFacts DEF Rows
<1>11. b.ts >= d * DayLen - DayLen
  BY <1>5, <1>9
<1>12. b \in Earlier(r)
  BY <1>10, <1>11 DEF Earlier
<1> QED BY <1>1, <1>10, <1>11, <1>12

LEMMA StepKeepsDays ==
  ASSUME Inv, Inv', [Next]_vars,
         NEW d \in Axis \cap Today' - (WindowDays - 1) .. Today - 1,
         Settled(d), {retention, retention'} \subseteq WindowDays + 1 .. Horizon
  PROVE  DailyUsage'[d] = DailyUsage[d]
<1>1. d \in Axis /\ d \in Int /\ Today \in Int /\ d >= Today' - (WindowDays - 1) /\ d <= Today - 1
  BY AxisIs, RowFacts, DayBounds DEF Today
<1>2. now \in Nat /\ now' \in Nat /\ now <= now'
  <2>1. now \in Nat /\ now' \in Nat
    BY DEF Inv, Types
  <2>2. now' = now \/ now' = now + 1
    BY DEF Next, Elapse, Restart, Start, Stop, RecordSamples, Cleanup, vars
  <2> QED BY <2>1, <2>2
<1>3. Today' \in Int /\ Today <= Today'
  BY <1>2, DayBounds, DayMonotone DEF Today
<1>4. d \in Axis'
  BY <1>1, <1>3 DEF Axis
<1>5. \A r \in rows : Day(r.ts) = d => r.ts < now
  <2> SUFFICES ASSUME NEW r \in rows, Day(r.ts) = d, ~ (r.ts < now) PROVE FALSE
    OBVIOUS
  <2>1. r.ts \in Int /\ now <= r.ts
    BY <1>2, RowFacts
  <2>2. Today <= Day(r.ts)
    BY <1>2, <2>1, DayMonotone DEF Today
  <2> QED BY <1>1, <2>2
<1>6. CASE now' = now /\ Bounded' = Bounded
  <2>1. \A r : Lag(r)' = Lag(r)
    BY <1>6 DEF Lag, Earlier
  <2> QED BY <1>1, <1>4, <1>6, <2>1, KeptDay
<1>7. ASSUME now' = now, rows' = rows PROVE DailyUsage'[d] = DailyUsage[d]
  <2>1. Bounded' = Bounded
    BY <1>7 DEF Bounded
  <2> QED BY <1>6, <1>7, <2>1
<1>8. CASE \E n \in {0, 1} : Elapse(n)
  <2>1. rows' = rows /\ now' = now + 1
    BY <1>8 DEF Elapse
  <2> DEFINE low == d * DayLen - DayLen
  <2>2. now' - (WindowDays + 1) * DayLen <= low /\ now - (WindowDays + 1) * DayLen <= low
    <3>1. now' - (WindowDays + 1) * DayLen <= low
      BY <1>1, <1>2, WindowReach DEF Today
    <3>2. d >= Today - (WindowDays - 1)
      BY <1>1, <1>3, TimeAssumption
    <3>3. now - (WindowDays + 1) * DayLen <= low
      BY <1>1, <1>2, <3>2, WindowReach DEF Today
    <3> QED BY <3>1, <3>3
  <2>3. low \in Int /\ (WindowDays + 1) * DayLen \in Int
    BY <1>1, DayStart, TimeAssumption
  <2>4. \A r \in rows : r.ts >= low => r \in Bounded /\ r \in Bounded'
    <3> SUFFICES ASSUME NEW r \in rows, r.ts >= low PROVE r \in Bounded /\ r \in Bounded'
      OBVIOUS
    <3>1. r.ts \in Int
      BY RowFacts
    <3>2. r.ts >= now - (WindowDays + 1) * DayLen /\ r.ts >= now' - (WindowDays + 1) * DayLen
      BY <1>2, <2>2, <2>3, <3>1
    <3> QED BY <2>1, <3>2 DEF Bounded
  <2>5. Bounded' \subseteq Bounded
    BY <1>2, <2>1, <2>3, RowFacts DEF Bounded
  <2>6. ASSUME NEW r \in rows, Day(r.ts) = d PROVE r.ts >= low
    <3>1. r.ts \in Int
      BY RowFacts
    <3>2. d * DayLen <= r.ts
      BY <1>1, <2>6, <3>1, DayIs
    <3>3. d * DayLen \in Int /\ DayLen \in Nat
      BY <1>1, DayStart, TimeAssumption
    <3> QED BY <3>1, <3>2, <3>3
  <2>7. \A r : Day(r.ts) = d => (r \in Bounded <=> r \in Bounded')
    BY <2>1, <2>4, <2>6 DEF Bounded
  <2>8. ASSUME NEW r \in Bounded, Day(r.ts) = d PROVE Lag(r)' = Lag(r)
    <3>1. Earlier(r)' \subseteq Earlier(r)
      BY <2>5 DEF Earlier
    <3>2. CASE Earlier(r) = {}
      BY <3>1, <3>2 DEF Lag
    <3>3. CASE Earlier(r) # {}
      <4>1. PICK q \in Earlier(r) : Lag(r) = {q} /\ \A p \in Earlier(r) : p.ts <= q.ts
        BY <2>8, <3>3, LagIs
      <4>2. q.ts >= low
        BY <1>1, <2>4, <2>8, <4>1, SettledLag
      <4>3. q \in Earlier(r)'
        BY <2>4, <4>1, <4>2, RowFacts DEF Earlier
      <4>4. \A p \in Lag(r)' : p = q
        <5> SUFFICES ASSUME NEW p \in Lag(r)' PROVE p = q
          OBVIOUS
        <5>1. p \in Earlier(r) /\ p.ts <= q.ts /\ q.ts <= p.ts
          BY <3>1, <4>1, <4>3 DEF Lag
        <5>2. p \in rows /\ q \in rows /\ p.model = q.model
          BY <4>1, <5>1, RowFacts DEF Earlier
        <5>3. p.ts = q.ts
          BY <5>1, <5>2, RowFacts
        <5> QED BY <5>2, <5>3 DEF Inv, OneRowEach
      <4>5. q \in Lag(r)'
        BY <3>1, <4>1, <4>3 DEF Lag
      <4> QED BY <4>1, <4>4, <4>5
    <3> QED BY <3>2, <3>3
  <2> QED BY <1>1, <1>4, <2>7, <2>8, KeptDay
<1>9. CASE \E kept \in BOOLEAN : RecordSamples(kept)
  <2>1. PICK row : /\ now' = now /\ row.ts = now
                   /\ rows' = rows \/ rows' = rows \cup {row}
    <3> DEFINE new == [ts |-> now, model |-> model, value |-> count,
                       run |-> restarts, served |-> served[model], boot |-> stops]
    <3>1. new.ts = now /\ now' = now /\ (rows' = rows \/ rows' = rows \cup {new})
      BY <1>9 DEF RecordSamples
    <3> QED BY <3>1
  <2>2. Bounded' = Bounded \/ Bounded' = Bounded \cup {row}
    BY <2>1 DEF Bounded
  <2>3. Day(row.ts) # d
    BY <1>1, <2>1 DEF Today
  <2>4. \A r \in Bounded : Day(r.ts) = d => Earlier(r)' = Earlier(r)
    <3> SUFFICES ASSUME NEW r \in Bounded, Day(r.ts) = d PROVE Earlier(r)' = Earlier(r)
      OBVIOUS
    <3>1. r.ts \in Nat /\ r.ts < now
      BY <1>5, RowFacts
    <3>2. ~ (row.ts < r.ts)
      BY <1>2, <2>1, <3>1
    <3> QED BY <2>2, <3>2 DEF Earlier
  <2>5. \A r \in Bounded : Day(r.ts) = d => Lag(r)' = Lag(r)
    BY <2>4 DEF Lag
  <2>6. \A r : Day(r.ts) = d => (r \in Bounded <=> r \in Bounded')
    BY <2>2, <2>3
  <2> QED BY <1>1, <1>4, <2>5, <2>6, KeptDay
<1>10. CASE Cleanup
  <2>1. now' = now /\ retention >= WindowDays + 1
    BY <1>10 DEF Cleanup
  <2> QED BY <1>6, <1>10, <2>1, CleanupKeepsBounded
<1>11. CASE \E m \in Models : Restart(m)
  BY <1>7, <1>11 DEF Restart
<1>12. CASE Start
  BY <1>7, <1>12 DEF Start
<1>13. CASE Stop
  BY <1>7, <1>13 DEF Stop
<1>14. CASE UNCHANGED vars
  BY <1>7, <1>14 DEF vars
<1> QED BY <1>8, <1>9, <1>10, <1>11, <1>12, <1>13, <1>14 DEF Next

\* A day that is over and has no long gap before its series keeps its total as
\* long as it is on the axis and retention keeps what the query reads
\* (storage/usage.rs).
THEOREM PastDaysAreStableAlways == Spec => PastDaysAreStable
<1>1. Inv /\ Inv' /\ [Next]_vars =>
        [\A d \in Axis \cap Today' - (WindowDays - 1) .. Today - 1 :
           Settled(d) /\ {retention, retention'} \subseteq WindowDays + 1 .. Horizon
           => DailyUsage'[d] = DailyUsage[d]]_vars
  BY StepKeepsDays
<1>2. Spec => []Inv
  BY Invariant
<1> QED BY <1>1, <1>2, PTL DEF Spec, PastDaysAreStable
=============================================================================
