------------------------ MODULE EndpointStateProofs -------------------------
(***************************************************************************)
(* What the reducer says of an endpoint, for any series, any number of     *)
(* restarts and failures, and texts that lack any counter:                 *)
(*   - the deltas of its counters are of what the server counted;          *)
(*   - a request rate is of every reason two scrapes read;                 *)
(*   - no peak survives the detection of a restart;                        *)
(*   - feed and status tell the same story;                                *)
(*   - series that are gone are forgotten.                                 *)
(*                                                                         *)
(* Each part of the invariant says more than its property: what the        *)
(* server's counters and the trackers' last values have to do with each    *)
(* other also between scrapes, that a peak is never of a later process,    *)
(* that a feed ends in the failure it began with while there are failures, *)
(* and that a tracker is at least as old as its series.                    *)
(***************************************************************************)
EXTENDS EndpointState, FoldTheorems

\* A counter and the tracker's last value of it.  After a restart the server
\* cannot have counted more than since the last sample.
Counted ==
  \A k \in Series, c \in Counters :
    /\ spans[k][c] => count[k][c] <= since[k][c]
    /\ ~ spans[k][c] /\ last[k][c] # None => count[k][c] = last[k][c] + since[k][c]

PeakIsKnown == peak <= run /\ resetIn <= run

TrackersAge == \A k \in Series, c \in Counters : age[k][c] >= gone[k]

\* The numbers of an entry are left open.
IsLog(log) == (\E S : log \in Seq(S)) /\ \A i \in 1 .. Len(log) : log[i].kind \in EventKinds

\* Every failure but the newest entry is followed by its recovery.
Told(log) ==
  \A i \in 1 .. Len(log) - 1 : log[i].kind = "failed" => log[i + 1].kind = "recovered"
Closed(log) == log # <<>> => log[Len(log)].kind # "failed"

FeedIsTold ==
  /\ IsLog(feed) /\ Told(feed)
  /\ status = "failing" => feed # <<>> /\ feed[Len(feed)].kind = "failed"
  /\ status # "failing" => Closed(feed)

Typed ==
  /\ since \in [Series -> [Counters -> Nat]]
  /\ spans \in [Series -> [Counters -> BOOLEAN]]
  /\ gone \in [Series -> 0 .. EvictAfter]

Inv ==
  /\ TypeOK /\ Typed
  /\ Counted /\ PeakFollowsReset /\ PeakIsKnown
  /\ TrackersAge /\ SeriesAreForgotten /\ FeedIsTold

LEMMA Bounds ==
  /\ EvictAfter \in Nat /\ EvictAfter > 0
  /\ MaxEvents \in Nat /\ MaxEvents > 0
  /\ MaxRuns \in Nat /\ MaxRuns > 0
  BY BoundsAssumption, SMT

-----------------------------------------------------------------------------
(* Pure lemmas.                                                            *)

\* A text of the server's: each sample is exact, missing, or no number.
LEMMA TextsAre ==
  ASSUME NEW text \in Texts
  PROVE  /\ DOMAIN text = served
         /\ \A k \in served, c \in Counters : text[k][c] \in {count[k][c], Absent, NaN}
<1>1. CASE text = ExactText
  BY <1>1 DEF ExactText
<1>2. ASSUME NEW k \in served, NEW c \in Flaky, NEW odd \in {Absent, NaN},
             text = OddText(k, c, odd)
      PROVE  /\ DOMAIN text = served
             /\ \A l \in served, d \in Counters : text[l][d] \in {count[l][d], Absent, NaN}
  BY <1>2 DEF OddText, ExactText
<1> QED BY <1>1, <1>2 DEF Texts

\* A rate is of the counter that was read and the tracker's last value.
LEMMA SampleIs ==
  ASSUME NEW prev \in Nat \cup {None}, NEW n \in Nat, NEW v \in {n, Absent, NaN},
         Sample(prev, v).delta # None
  PROVE  v = n /\ prev \in Nat /\ n >= prev /\ Sample(prev, v).delta = n - prev
<1>1. CASE v < 0 \/ prev = None
  BY <1>1 DEF Sample, Unavailable
<1>2. CASE ~ (v < 0 \/ prev = None)
  <2>1. v = n /\ prev \in Nat
    BY <1>2, SMT DEF Absent, NaN
  <2>2. CASE v < prev
    BY <1>2, <2>2 DEF Sample, Reset
  <2>3. CASE ~ (v < prev)
    BY <1>2, <2>1, <2>3, SMT DEF Sample
  <2> QED BY <2>1, <2>2, <2>3
<1> QED BY <1>1, <1>2

LEMMA Appended ==
  ASSUME NEW log, IsLog(log), NEW e, e.kind \in EventKinds
  PROVE  /\ IsLog(Append(log, e))
         /\ Len(Append(log, e)) = Len(log) + 1 /\ Len(log) \in Nat
         /\ \A i \in 1 .. Len(log) : Append(log, e)[i] = log[i]
         /\ Append(log, e)[Len(log) + 1] = e
<1>1. PICK S : log \in Seq(S)
  BY DEF IsLog
<1> DEFINE T == S \cup {e}
<1>2. log \in Seq(T) /\ e \in T
  BY <1>1, SMT
<1>3. /\ Append(log, e) \in Seq(T)
      /\ Len(Append(log, e)) = Len(log) + 1 /\ Len(log) \in Nat
      /\ \A i \in 1 .. Len(log) : Append(log, e)[i] = log[i]
      /\ Append(log, e)[Len(log) + 1] = e
  BY <1>2, SMT
<1>4. \A i \in 1 .. Len(log) + 1 : Append(log, e)[i].kind \in EventKinds
  BY <1>3, SMT DEF IsLog
<1> QED BY <1>3, <1>4 DEF IsLog

LEMMA Shortened ==
  ASSUME NEW log, IsLog(log), Len(log) > 0
  PROVE  /\ IsLog(Tail(log))
         /\ Len(Tail(log)) = Len(log) - 1
         /\ \A i \in 1 .. Len(log) - 1 : Tail(log)[i] = log[i + 1]
<1>1. PICK S : log \in Seq(S)
  BY DEF IsLog
<1>2. /\ Tail(log) \in Seq(S)
      /\ Len(Tail(log)) = Len(log) - 1 /\ Len(log) \in Nat
      /\ \A i \in 1 .. Len(log) - 1 : Tail(log)[i] = log[i + 1]
  BY <1>1, SMT
<1>3. \A i \in 1 .. Len(log) - 1 : Tail(log)[i].kind \in EventKinds
  BY <1>2, SMT DEF IsLog
<1> QED BY <1>2, <1>3 DEF IsLog

\* EventLog::push keeps the story, if a failure is only pushed on one that is
\* closed and anything but a recovery too.
LEMMA Pushed ==
  ASSUME NEW log, IsLog(log), Len(log) <= MaxEvents, Told(log),
         NEW kind \in EventKinds, NEW n,
         Closed(log) \/ kind = "recovered"
  PROVE  LET new == Push(log, kind, n) IN
         /\ IsLog(new) /\ Len(new) <= MaxEvents /\ Told(new)
         /\ new # <<>> /\ new[Len(new)].kind = kind
<1> DEFINE e == [kind |-> kind, n |-> n]
           longer == Append(log, e)
           new == Push(log, kind, n)
<1>1. e.kind = kind
  OBVIOUS
<1>2. CASE log # <<>> /\ log[Len(log)] = e
  <2>1. new = log
    BY <1>2 DEF Push
  <2> QED BY <1>1, <1>2, <2>1
<1>3. CASE ~ (log # <<>> /\ log[Len(log)] = e)
  <2>1. /\ IsLog(longer) /\ Len(longer) = Len(log) + 1 /\ Len(log) \in Nat
        /\ \A i \in 1 .. Len(log) : longer[i] = log[i]
        /\ longer[Len(log) + 1] = e
    BY <1>1, Appended
  <2>2. new = IF Len(longer) > MaxEvents THEN Tail(longer) ELSE longer
    BY <1>3 DEF Push
  <2>3. ASSUME NEW i \in 1 .. Len(log), longer[i].kind = "failed"
        PROVE  longer[i + 1].kind = "recovered"
    <3>1. CASE i < Len(log)
      <4>1. i \in 1 .. Len(log) - 1 /\ i + 1 \in 1 .. Len(log)
        BY <2>1, <3>1, SMT
      <4> QED BY <2>1, <2>3, <4>1 DEF Told
    <3>2. CASE i = Len(log)
      <4>1. log[Len(log)].kind = "failed"
        BY <2>1, <2>3, <3>2
      <4>2. log # <<>>
        BY <2>1, <3>2, SMT
      <4>3. kind = "recovered"
        BY <4>1, <4>2 DEF Closed
      <4> QED BY <1>1, <2>1, <3>2, <4>3
    <3> QED BY <2>1, <3>1, <3>2, SMT
  <2>4. Told(longer)
    BY <2>1, <2>3, SMT DEF Told
  <2>5. CASE Len(longer) > MaxEvents
    <3>1. /\ IsLog(Tail(longer)) /\ Len(Tail(longer)) = Len(log)
          /\ \A i \in 1 .. Len(log) : Tail(longer)[i] = longer[i + 1]
      <4>1. Len(longer) > 0 /\ Len(longer) - 1 = Len(log)
        BY <2>1, SMT
      <4> HIDE DEF longer
      <4> QED BY <2>1, <4>1, Shortened
    <3>2. Len(log) = MaxEvents /\ Len(log) > 0
      BY <2>1, <2>5, Bounds, SMT
    <3>3. Told(Tail(longer))
      <4> SUFFICES ASSUME NEW i \in 1 .. Len(log) - 1, Tail(longer)[i].kind = "failed"
                   PROVE  Tail(longer)[i + 1].kind = "recovered"
        BY <3>1 DEF Told
      <4>1. i \in 1 .. Len(log) /\ i + 1 \in 1 .. Len(log)
        BY <2>1, SMT
      <4> QED BY <2>3, <3>1, <4>1
    <3>4. Tail(longer)[Len(log)] = e /\ Tail(longer) # <<>>
      BY <2>1, <3>1, <3>2, SMT
    <3> QED BY <1>1, <2>2, <2>5, <3>1, <3>2, <3>3, <3>4, Bounds, SMT
  <2>6. CASE ~ (Len(longer) > MaxEvents)
    <3>1. longer # <<>> /\ Len(longer) <= MaxEvents
      BY <2>1, <2>6, Bounds, SMT
    <3> QED BY <1>1, <2>1, <2>2, <2>4, <2>6, <3>1
  <2> QED BY <2>5, <2>6
<1> QED BY <1>2, <1>3

-----------------------------------------------------------------------------
(* The parts that concern the data, step by step.                          *)

LEMMA Initial == Init => Inv
<1> SUFFICES ASSUME Init PROVE Inv
  OBVIOUS
<1> USE Bounds
<1>1. \A x : /\ Everywhere(x) \in [Series -> [Counters -> {x}]]
             /\ \A k \in Series, c \in Counters : Everywhere(x)[k][c] = x
  BY DEF Everywhere
<1>2. TypeOK
  <2>1. count \in [Series -> [Counters -> Nat]]
    BY <1>1 DEF Init, Everywhere
  <2>2. last \in [Series -> [Counters -> Nat \cup {None}]]
    BY <1>1 DEF Init, Everywhere
  <2>3. age \in [Series -> [Counters -> 0 .. EvictAfter]]
    BY <1>1, SMT DEF Init, Everywhere
  <2>4. Len(feed) = 0 /\ DOMAIN feed = {}
    BY SMT DEF Init
  <2>5. peak \in NoPeak .. MaxRuns /\ resetIn \in 0 .. MaxRuns /\ run \in 1 .. MaxRuns
    BY SMT DEF Init, NoPeak
  <2>6. failures \in Nat /\ (failures > 0 <=> status = "failing")
    BY SMT DEF Init
  <2>7. Len(feed) <= MaxEvents
    BY <2>4, SMT
  <2> QED BY <2>1, <2>2, <2>3, <2>4, <2>5, <2>6, <2>7, Zenon DEF Init, TypeOK
<1>3. Typed
  <2>1. since \in [Series -> [Counters -> Nat]]
    BY <1>1 DEF Init, Everywhere
  <2>2. spans \in [Series -> [Counters -> BOOLEAN]]
    BY <1>1 DEF Init, Everywhere
  <2>3. gone \in [Series -> 0 .. EvictAfter]
    BY SMT DEF Init
  <2> QED BY <2>1, <2>2, <2>3 DEF Typed
<1>4. Counted
  BY <1>1 DEF Init, Counted
<1>5. PeakFollowsReset /\ PeakIsKnown
  BY SMT DEF Init, PeakFollowsReset, PeakIsKnown, NoPeak, ZeroPeak
<1>6. TrackersAge /\ SeriesAreForgotten
  BY <1>1, SMT DEF Init, TrackersAge, SeriesAreForgotten
<1>7. FeedIsTold
  <2>1. feed \in Seq({}) /\ Len(feed) = 0
    BY SMT DEF Init
  <2>2. IsLog(feed) /\ Told(feed)
    BY <2>1, SMT DEF IsLog, Told
  <2> QED BY <2>2 DEF Init, FeedIsTold, Closed
<1> QED BY <1>2, <1>3, <1>4, <1>5, <1>6, <1>7 DEF Inv

LEMMA AfterServe ==
  ASSUME Inv, NEW k \in Series, NEW c \in Counters, Serve(k, c)
  PROVE  Inv'
<1>1. /\ count' = [count EXCEPT ![k][c] = @ + 1]
      /\ since' = [since EXCEPT ![k][c] = @ + 1]
      /\ UNCHANGED <<run, served, connVars, healthVars, dataVars, feed, spans, gone>>
  BY DEF Serve
<1>2. TypeOK' /\ Typed'
  <2>1. count' \in [Series -> [Counters -> Nat]] /\ since' \in [Series -> [Counters -> Nat]]
    BY <1>1, SMT DEF Inv, TypeOK, Typed
  <2> QED BY <1>1, <2>1 DEF Inv, TypeOK, Typed, connVars, healthVars, dataVars
<1>3. Counted'
  <2> SUFFICES ASSUME NEW l \in Series, NEW d \in Counters
               PROVE  /\ spans[l][d] => count'[l][d] <= since'[l][d]
                      /\ ~ spans[l][d] /\ last[l][d] # None => count'[l][d] = last[l][d] + since'[l][d]
    BY <1>1 DEF Counted, dataVars
  <2>1. CASE l = k /\ d = c
    <3>1. count'[l][d] = count[l][d] + 1 /\ since'[l][d] = since[l][d] + 1
      BY <1>1, <2>1 DEF Inv, TypeOK, Typed
    <3>2. count[l][d] \in Nat /\ since[l][d] \in Nat /\ last[l][d] \in Nat \cup {None}
      BY DEF Inv, TypeOK, Typed
    <3> QED BY <3>1, <3>2, SMT DEF Inv, Counted
  <2>2. CASE ~ (l = k /\ d = c)
    <3>1. count'[l][d] = count[l][d] /\ since'[l][d] = since[l][d]
      BY <1>1, <2>2 DEF Inv, TypeOK, Typed
    <3> QED BY <3>1 DEF Inv, Counted
  <2> QED BY <2>1, <2>2
<1>4. (PeakFollowsReset /\ PeakIsKnown /\ TrackersAge /\ SeriesAreForgotten /\ FeedIsTold)'
  BY <1>1 DEF Inv, PeakFollowsReset, PeakIsKnown, TrackersAge, SeriesAreForgotten, FeedIsTold,
              connVars, dataVars
<1> QED BY <1>2, <1>3, <1>4 DEF Inv

LEMMA AfterRestart ==
  ASSUME Inv, NEW keys \in SUBSET Series, Restart(keys)
  PROVE  Inv'
<1>1. /\ run' = run + 1 /\ run < MaxRuns /\ served' = keys
      /\ count' = Everywhere(0) /\ spans' = Everywhere(TRUE)
      /\ UNCHANGED <<connVars, healthVars, dataVars, feed, since, gone>>
  BY DEF Restart
<1>2. /\ count' \in [Series -> [Counters -> Nat]]
      /\ spans' \in [Series -> [Counters -> BOOLEAN]]
      /\ run' \in 1 .. MaxRuns
  BY <1>1, Bounds, SMT DEF Everywhere, Inv, TypeOK
<1>3. TypeOK' /\ Typed'
  BY <1>1, <1>2 DEF Inv, TypeOK, Typed, connVars, healthVars, dataVars
<1>4. Counted'
  <2> SUFFICES ASSUME NEW k \in Series, NEW c \in Counters
               PROVE  count'[k][c] <= since'[k][c] /\ spans'[k][c]
    BY DEF Counted
  <2>1. count'[k][c] = 0 /\ spans'[k][c] /\ since'[k][c] \in Nat
    BY <1>1 DEF Everywhere, Inv, Typed
  <2> QED BY <2>1, SMT
<1>5. PeakFollowsReset' /\ PeakIsKnown'
  BY <1>1, SMT DEF Inv, TypeOK, PeakFollowsReset, PeakIsKnown, dataVars, NoPeak
<1>6. (TrackersAge /\ SeriesAreForgotten /\ FeedIsTold)'
  BY <1>1 DEF Inv, TrackersAge, SeriesAreForgotten, FeedIsTold, connVars, dataVars
<1> QED BY <1>3, <1>4, <1>5, <1>6 DEF Inv

\* Steps that touch neither the server, nor the data, nor the feed.
LEMMA AfterNotes ==
  ASSUME Inv,
         MarkAttemptStarted \/ \E said \in {"unknown", "yes", "no"} : ApplyOptional(said)
  PROVE  Inv'
<1>1. /\ UNCHANGED <<serverVars, status, failures, scraped, dataVars, feed, histVars>>
      /\ scraping' \in BOOLEAN /\ {healthy', answer'} \subseteq {"unknown", "yes", "no"}
  BY DEF Inv, TypeOK, MarkAttemptStarted, ApplyOptional, connVars, healthVars
<1>2. TypeOK' /\ Typed'
  BY <1>1 DEF Inv, TypeOK, Typed, serverVars, dataVars, histVars
<1> QED BY <1>1, <1>2 DEF Inv, Counted, PeakFollowsReset, PeakIsKnown, TrackersAge,
              SeriesAreForgotten, FeedIsTold, serverVars, dataVars, histVars

LEMMA AfterFailure ==
  ASSUME Inv, ApplyFailure
  PROVE  Inv'
<1>1. /\ scraping' = FALSE /\ status' = "failing" /\ failures' = failures + 1
      /\ feed' = PushIf(failures = 0, feed, "failed", 0)
      /\ UNCHANGED <<serverVars, scraped, healthVars, dataVars, histVars>>
  BY DEF ApplyFailure
<1>2. IsLog(feed) /\ Told(feed) /\ Len(feed) <= MaxEvents /\ failures \in Nat
  BY DEF Inv, TypeOK, FeedIsTold
<1>3. FeedIsTold' /\ Len(feed') <= MaxEvents
  <2>1. CASE failures = 0
    <3>1. Closed(feed)
      BY <2>1, SMT DEF Inv, TypeOK, FeedIsTold
    <3>2. feed' = Push(feed, "failed", 0)
      BY <1>1, <2>1 DEF PushIf
    <3>3. "failed" \in EventKinds
      BY DEF EventKinds
    <3> QED BY <1>1, <1>2, <3>1, <3>2, <3>3, Pushed DEF FeedIsTold
  <2>2. CASE failures # 0
    <3>1. status = "failing" /\ feed' = feed
      BY <1>1, <1>2, <2>2, SMT DEF Inv, TypeOK, PushIf
    <3> QED BY <1>1, <1>2, <3>1 DEF Inv, FeedIsTold
  <2> QED BY <2>1, <2>2
<1>4. TypeOK' /\ Typed'
  <2>1. failures' \in Nat /\ failures' > 0
    BY <1>1, <1>2, SMT
  <2>2. \A i \in DOMAIN feed' : feed'[i].kind \in EventKinds
    BY <1>3, SMT DEF FeedIsTold, IsLog
  <2> QED BY <1>1, <1>3, <2>1, <2>2 DEF Inv, TypeOK, Typed, serverVars, healthVars, dataVars, histVars
<1>5. (Counted /\ PeakFollowsReset /\ PeakIsKnown /\ TrackersAge /\ SeriesAreForgotten)'
  BY <1>1 DEF Inv, Counted, PeakFollowsReset, PeakIsKnown, TrackersAge, SeriesAreForgotten,
              serverVars, dataVars, histVars
<1> QED BY <1>3, <1>4, <1>5 DEF Inv

-----------------------------------------------------------------------------
(* A good scrape: ingest_metrics, part by part.                            *)

LEMMA ValueIs ==
  ASSUME Inv, NEW text \in Texts, NEW k \in Series, NEW c \in Counters
  PROVE  /\ Value(text, k, c) \in {count[k][c], Absent, NaN}
         /\ count[k][c] \in Nat
         /\ k \notin DOMAIN text => Value(text, k, c) = Absent
<1>1. DOMAIN text = served /\ \A l \in served, d \in Counters : text[l][d] \in {count[l][d], Absent, NaN}
  BY TextsAre
<1>2. count[k][c] \in Nat
  BY DEF Inv, TypeOK
<1> QED BY <1>1, <1>2 DEF Value

LEMMA CountedAfterSuccess ==
  ASSUME Inv, NEW text \in Texts, ApplySuccess(text)
  PROVE  /\ Counted' /\ Typed'
         /\ last' \in [Series -> [Counters -> Nat \cup {None}]]
         /\ age' \in [Series -> [Counters -> 0 .. EvictAfter]]
         /\ TrackersAge'
<1> DEFINE v(k, c) == Value(text, k, c)
<1>1. /\ age' = [k \in Series |-> [c \in Counters |-> AgeAfter(age[k][c], v(k, c))]]
      /\ last' = [k \in Series |-> [c \in Counters |->
                    IF age'[k][c] = EvictAfter THEN None ELSE Kept(last[k][c], v(k, c))]]
      /\ since' = [k \in Series |-> [c \in Counters |-> IF v(k, c) = Absent THEN since[k][c] ELSE 0]]
      /\ spans' = [k \in Series |-> [c \in Counters |-> v(k, c) = Absent /\ spans[k][c]]]
      /\ gone' = [k \in Series |-> IF k \in DOMAIN text THEN 0
                                   ELSE IF gone[k] < EvictAfter THEN gone[k] + 1 ELSE gone[k]]
      /\ count' = count
  BY DEF ApplySuccess, Ingest, serverVars
<1>2. ASSUME NEW k \in Series, NEW c \in Counters
      PROVE  /\ v(k, c) \in {count[k][c], Absent, NaN} /\ count[k][c] \in Nat
             /\ k \notin DOMAIN text => v(k, c) = Absent
             /\ last[k][c] \in Nat \cup {None} /\ since[k][c] \in Nat
             /\ age[k][c] \in 0 .. EvictAfter /\ gone[k] \in 0 .. EvictAfter
             /\ spans[k][c] \in BOOLEAN
  BY ValueIs DEF Inv, TypeOK, Typed
<1> HIDE DEF v
<1>3. ASSUME NEW k \in Series, NEW c \in Counters
      PROVE  /\ AgeAfter(age[k][c], v(k, c)) \in 0 .. EvictAfter
             /\ Kept(last[k][c], v(k, c)) \in Nat \cup {None}
             /\ (IF v(k, c) = Absent THEN since[k][c] ELSE 0) \in Nat
  BY <1>2, Bounds, SMT DEF AgeAfter, Kept, Absent, NaN, None
<1>4. age' \in [Series -> [Counters -> 0 .. EvictAfter]]
  BY <1>1, <1>3
<1>5. last' \in [Series -> [Counters -> Nat \cup {None}]]
  BY <1>1, <1>3
<1>6. Typed'
  <2>1. since' \in [Series -> [Counters -> Nat]]
    BY <1>1, <1>3
  <2>2. spans' \in [Series -> [Counters -> BOOLEAN]]
    BY <1>1
  <2>3. gone' \in [Series -> 0 .. EvictAfter]
    <3>1. \A k \in Series : gone[k] \in 0 .. EvictAfter
      BY DEF Inv, Typed
    <3> QED BY <1>1, <3>1, Bounds, SMT
  <2> QED BY <2>1, <2>2, <2>3 DEF Typed
<1>7. Counted'
  <2> SUFFICES ASSUME NEW k \in Series, NEW c \in Counters
               PROVE  /\ spans'[k][c] => count[k][c] <= since'[k][c]
                      /\ ~ spans'[k][c] /\ last'[k][c] # None => count[k][c] = last'[k][c] + since'[k][c]
    BY <1>1 DEF Counted
  <2>1. /\ spans'[k][c] = (v(k, c) = Absent /\ spans[k][c])
        /\ since'[k][c] = IF v(k, c) = Absent THEN since[k][c] ELSE 0
        /\ last'[k][c] \in {None, Kept(last[k][c], v(k, c))}
    BY <1>1
  <2>2. CASE v(k, c) = Absent
    BY <1>2, <2>1, <2>2, SMT DEF Kept, Inv, Counted
  <2>3. CASE v(k, c) # Absent
    <3>1. Kept(last[k][c], v(k, c)) \in {None, count[k][c]}
      BY <1>2, <2>3 DEF Kept
    <3>2. count[k][c] \in Nat
      BY <1>2
    <3>3. spans'[k][c] = FALSE /\ since'[k][c] = 0
      BY <2>1, <2>3
    <3>4. last'[k][c] = None \/ last'[k][c] = count[k][c]
      BY <2>1, <3>1
    <3> QED BY <3>2, <3>3, <3>4, SMT
  <2> QED BY <2>2, <2>3
<1>8. TrackersAge'
  <2> SUFFICES ASSUME NEW k \in Series, NEW c \in Counters PROVE age'[k][c] >= gone'[k]
    BY DEF TrackersAge
  <2>1. /\ age'[k][c] = AgeAfter(age[k][c], v(k, c))
        /\ gone'[k] = IF k \in DOMAIN text THEN 0
                      ELSE IF gone[k] < EvictAfter THEN gone[k] + 1 ELSE gone[k]
    BY <1>1
  <2>2. age[k][c] >= gone[k]
    BY DEF Inv, TrackersAge
  <2>3. CASE k \in DOMAIN text
    BY <1>3, <2>1, <2>3, SMT
  <2>4. CASE k \notin DOMAIN text
    BY <1>2, <2>1, <2>2, <2>4, Bounds, SMT DEF AgeAfter
  <2> QED BY <2>3, <2>4
<1> QED BY <1>4, <1>5, <1>6, <1>7, <1>8

LEMMA PeakAfterSuccess ==
  ASSUME Inv, NEW text \in Texts, ApplySuccess(text)
  PROVE  /\ PeakFollowsReset' /\ PeakIsKnown'
         /\ peak' \in NoPeak .. MaxRuns /\ resetIn' \in 0 .. MaxRuns
<1>1. PICK anyReset, g :
        /\ resetIn' = IF anyReset THEN run ELSE resetIn
        /\ peak' \in PeakAfter(PeakBefore(anyReset), g)
  BY DEF ApplySuccess, Ingest
<1>2. run' = run /\ run \in 1 .. MaxRuns /\ peak \in NoPeak .. MaxRuns /\ resetIn \in 0 .. MaxRuns
  BY DEF Inv, TypeOK, ApplySuccess, serverVars
<1>3. peak' \in {PeakBefore(anyReset), ZeroPeak, run}
  BY <1>1 DEF PeakAfter
<1>4. CASE anyReset
  BY <1>1, <1>2, <1>3, <1>4, Bounds, SMT
     DEF PeakBefore, NoPeak, ZeroPeak, PeakFollowsReset, PeakIsKnown
<1>5. CASE ~ anyReset
  BY <1>1, <1>2, <1>3, <1>5, Bounds, SMT
     DEF PeakBefore, NoPeak, ZeroPeak, Inv, PeakFollowsReset, PeakIsKnown
<1> QED BY <1>1, <1>4, <1>5

\* On a closed feed, PushIf of anything but a failure leaves a closed one.
LEMMA PushedIf ==
  ASSUME NEW log, IsLog(log), Len(log) <= MaxEvents, Told(log), Closed(log),
         NEW kind \in EventKinds \ {"failed"}, NEW n, NEW condition
  PROVE  LET new == PushIf(condition, log, kind, n) IN
         IsLog(new) /\ Len(new) <= MaxEvents /\ Told(new) /\ Closed(new)
<1>1. CASE condition
  <2>1. PushIf(condition, log, kind, n) = Push(log, kind, n)
    BY <1>1 DEF PushIf
  <2> QED BY <2>1, Pushed DEF Closed
<1>2. CASE ~ condition
  <2>1. PushIf(condition, log, kind, n) = log
    BY <1>2 DEF PushIf
  <2> QED BY <2>1
<1> QED BY <1>1, <1>2

LEMMA FeedAfterSuccess ==
  ASSUME Inv, NEW text \in Texts, ApplySuccess(text)
  PROVE  FeedIsTold' /\ Len(feed') <= MaxEvents
<1> DEFINE Fine(log) == IsLog(log) /\ Len(log) <= MaxEvents /\ Told(log) /\ Closed(log)
<1>1. PICK p, r, q, e, x :
        feed' = PushIf(r, PushIf(q, PushIf(p, SuccessLog(feed), "preemption", x), "errors", e), "restarted", 0)
  BY DEF ApplySuccess, Ingest
<1>2. IsLog(feed) /\ Told(feed) /\ Len(feed) <= MaxEvents
  BY DEF Inv, TypeOK, FeedIsTold
<1>3. {"connected", "recovered", "preemption", "errors", "restarted"} \subseteq EventKinds \ {"failed"}
  BY DEF EventKinds
<1>4. Fine(SuccessLog(feed))
  <2>1. CASE status = "failing"
    <3>1. SuccessLog(feed) = Push(feed, "recovered", failures)
      BY <2>1 DEF SuccessLog
    <3> QED BY <1>2, <1>3, <3>1, Pushed DEF Closed
  <2>2. CASE status # "failing"
    <3>1. Closed(feed)
      BY <2>2 DEF Inv, FeedIsTold
    <3>2. SuccessLog(feed) = PushIf(~ scraped, feed, "connected", 0)
      BY <2>2 DEF SuccessLog
    <3> QED BY <1>2, <1>3, <3>1, <3>2, PushedIf
  <2> QED BY <2>1, <2>2
<1>5. ASSUME NEW log, Fine(log), NEW kind \in EventKinds \ {"failed"}, NEW n, NEW condition
      PROVE  Fine(PushIf(condition, log, kind, n))
  BY <1>5, PushedIf
<1> HIDE DEF Fine
<1>6. Fine(feed')
  <2> DEFINE noted == PushIf(p, SuccessLog(feed), "preemption", x)
             noted2 == PushIf(q, noted, "errors", e)
  <2>1. Fine(noted)
    BY <1>3, <1>4, <1>5
  <2> HIDE DEF noted
  <2>2. Fine(noted2)
    BY <1>3, <1>5, <2>1
  <2> QED BY <1>1, <1>3, <1>5, <2>2 DEF noted, noted2
<1>7. status' = "connected"
  BY DEF ApplySuccess
<1> QED BY <1>6, <1>7 DEF Fine, FeedIsTold

LEMMA AfterSuccess ==
  ASSUME Inv, NEW text \in Texts, ApplySuccess(text)
  PROVE  Inv'
<1>1. /\ Counted' /\ Typed' /\ TrackersAge'
      /\ last' \in [Series -> [Counters -> Nat \cup {None}]]
      /\ age' \in [Series -> [Counters -> 0 .. EvictAfter]]
  BY CountedAfterSuccess
<1>2. /\ PeakFollowsReset' /\ PeakIsKnown'
      /\ peak' \in NoPeak .. MaxRuns /\ resetIn' \in 0 .. MaxRuns
  BY PeakAfterSuccess
<1>3. FeedIsTold' /\ Len(feed') <= MaxEvents
  BY FeedAfterSuccess
<1>4. DOMAIN derived' = served /\ served \subseteq Series
  BY TextsAre DEF ApplySuccess, Ingest, Inv, TypeOK
<1>5. SeriesAreForgotten'
  <2>1. ASSUME NEW k \in Series, NEW c \in Counters, gone'[k] = EvictAfter
        PROVE  age'[k][c] = EvictAfter
    <3>1. age'[k][c] >= gone'[k] /\ age'[k][c] \in 0 .. EvictAfter
      BY <1>1 DEF TrackersAge
    <3> QED BY <2>1, <3>1, Bounds, SMT
  <2> DEFINE kept == {h \in history : h[1] \in DOMAIN derived'}
             charted == UNION {{k} \X SampleIds(derived'[k]) : k \in DOMAIN derived'}
  <2>2. history' = kept \cup charted
    BY DEF ApplySuccess, Ingest, KeepsSeries
  <2>3. \A h \in history' : h[1] \in DOMAIN derived'
    <3>1. ASSUME NEW k \in DOMAIN derived', NEW h \in {k} \X SampleIds(derived'[k])
          PROVE  h[1] \in DOMAIN derived'
      BY <3>1
    <3> QED BY <2>2, <3>1
  <2>4. windows' = DOMAIN derived'
    <3>1. windows' = {k \in windows \cup DOMAIN derived' : k \in DOMAIN derived'}
      BY DEF ApplySuccess, Ingest, KeepsSeries
    <3> QED BY <3>1
  <2>5. \A k \in DOMAIN derived' : {k} \X SampleIds(derived'[k]) \subseteq history'
    <3>1. \A k \in DOMAIN derived' : {k} \X SampleIds(derived'[k]) \subseteq charted
      OBVIOUS
    <3> HIDE DEF charted, kept
    <3> QED BY <2>2, <3>1
  <2> QED BY <2>1, <2>3, <2>4, <2>5 DEF SeriesAreForgotten
<1>6. TypeOK'
  <2>1. \A i \in DOMAIN feed' : feed'[i].kind \in EventKinds
    BY <1>3, SMT DEF FeedIsTold, IsLog
  <2>2. /\ scraping' = FALSE /\ status' = "connected" /\ failures' = 0 /\ scraped' = TRUE
        /\ UNCHANGED <<run, served, count, healthy, answer>>
    BY DEF ApplySuccess, serverVars, healthVars
  <2>3. failures' \in Nat /\ ~ (failures' > 0)
    BY <2>2, SMT
  <2> QED BY <1>1, <1>2, <1>3, <1>4, <2>1, <2>2, <2>3 DEF Inv, TypeOK
<1> QED BY <1>1, <1>2, <1>3, <1>5, <1>6 DEF Inv

LEMMA Preserved == Inv /\ [Next]_vars => Inv'
<1> SUFFICES ASSUME Inv, [Next]_vars PROVE Inv'
  OBVIOUS
<1>1. CASE UNCHANGED vars
  BY <1>1 DEF Inv, TypeOK, Typed, Counted, PeakFollowsReset, PeakIsKnown, TrackersAge,
              SeriesAreForgotten, FeedIsTold, vars, serverVars, connVars, healthVars, dataVars, histVars
<1>2. CASE Next
  BY <1>2, AfterServe, AfterRestart, AfterNotes, AfterFailure, AfterSuccess DEF Next
<1> QED BY <1>1, <1>2

LEMMA AlwaysInv == Spec => []Inv
  BY Initial, Preserved, PTL DEF Spec

-----------------------------------------------------------------------------
\* Types, the cap of the feed, and a failure count that is positive exactly
\* while the endpoint is failing (EndpointState::apply).
THEOREM TypeCorrect == Spec => []TypeOK
<1>1. Inv => TypeOK
  BY DEF Inv
<1> QED BY <1>1, AlwaysInv, PTL

\* The peak on display was not seen before the restart that was detected last
\* (ingest_metrics, restart_seen_at).
THEOREM PeaksAreDiscarded == Spec => []PeakFollowsReset
<1>1. Inv => PeakFollowsReset
  BY DEF Inv
<1> QED BY <1>1, AlwaysInv, PTL

\* However failures, recoveries and other observations follow each other and
\* push old entries out, feed and status never contradict each other (apply,
\* EventLog::push).
THEOREM FeedTellsTheStatus == Spec => []FeedAgreesWithStatus
<1>1. ASSUME Inv PROVE FeedAgreesWithStatus
  <2>1. PICK S : feed \in Seq(S)
    BY <1>1 DEF Inv, FeedIsTold, IsLog
  <2>2. DOMAIN feed = 1 .. Len(feed) /\ Len(feed) \in Nat
    BY <2>1, SMT
  <2>3. ASSUME status # "failing", NEW i \in DOMAIN feed, feed[i].kind = "failed"
        PROVE  i < Len(feed) /\ feed[i + 1].kind = "recovered"
    <3>1. i # Len(feed)
      <4>1. feed # <<>>
        BY <2>2, <2>3, SMT
      <4> QED BY <1>1, <2>3, <4>1 DEF Inv, FeedIsTold, Closed
    <3>2. i \in 1 .. Len(feed) - 1
      BY <2>2, <3>1, SMT
    <3> QED BY <1>1, <2>2, <2>3, <3>2, SMT DEF Inv, FeedIsTold, Told
  <2> QED BY <1>1, <2>3 DEF Inv, FeedIsTold, FeedAgreesWithStatus
<1>2. Inv => FeedAgreesWithStatus
  BY <1>1
<1> QED BY <1>2, AlwaysInv, PTL

\* Label churn leaves nothing behind, whatever other series come and go, and a
\* failing endpoint loses nothing (CounterBank::end_scrape, the pruning of the
\* windows and of history).
THEOREM ChurnIsForgotten == Spec => []SeriesAreForgotten
<1>1. Inv => SeriesAreForgotten
  BY DEF Inv
<1> QED BY <1>1, AlwaysInv, PTL

\* Only a good scrape ingests.
LEMMA IngestsIsSuccess ==
  ASSUME [Next]_vars, Ingests
  PROVE  (\E text \in Texts : ApplySuccess(text)) \/ UNCHANGED vars
  BY DEF Next, Ingests, Serve, Restart, MarkAttemptStarted, ApplyFailure, ApplyOptional, connVars

\* A rate lies between nothing and what the server counted since the last
\* sample, and is that, unless it restarted.
LEMMA RateIsHonest ==
  ASSUME Inv, NEW k \in Series, NEW c \in Counters, NEW v \in {count[k][c], Absent, NaN},
         Sample(last[k][c], v).delta # None
  PROVE  /\ Sample(last[k][c], v).delta \in Int
         /\ HonestDelta(Sample(last[k][c], v).delta, k, c)
<1>1. last[k][c] \in Nat \cup {None} /\ count[k][c] \in Nat /\ since[k][c] \in Nat
  BY DEF Inv, TypeOK, Typed
<1>2. /\ last[k][c] \in Nat /\ count[k][c] >= last[k][c]
      /\ Sample(last[k][c], v).delta = count[k][c] - last[k][c]
  BY <1>1, SampleIs
<1>3. /\ spans[k][c] => count[k][c] <= since[k][c]
      /\ ~ spans[k][c] => count[k][c] = last[k][c] + since[k][c]
  BY <1>2, SMT DEF Inv, Counted, None
<1> QED BY <1>1, <1>2, <1>3, SMT DEF HonestDelta

\* What a good scrape derives for one of its series.
LEMMA DerivedIs ==
  ASSUME Inv, NEW text \in Texts, ApplySuccess(text), NEW k \in DOMAIN derived'
  PROVE  /\ k \in Series /\ k \in DOMAIN text
         /\ \A c \in Counters : text[k][c] \in {count[k][c], Absent, NaN}
         /\ derived'[k] = Derive([c \in Counters |-> Sample(last[k][c], text[k][c])])
<1>1. /\ DOMAIN text = served /\ served \subseteq Series
      /\ \A l \in served, c \in Counters : text[l][c] \in {count[l][c], Absent, NaN}
  BY TextsAre DEF Inv, TypeOK
<1>2. derived' = [l \in DOMAIN text |-> Derive([c \in Counters |-> Sample(last[l][c], text[l][c])])]
  BY DEF ApplySuccess, Ingest
<1> QED BY <1>1, <1>2

\* The library's sum of what the trackers gained.
LEMMA SumOfGains ==
  ASSUME NEW S, IsFiniteSet(S), NEW k, NEW e,
         \A x \in S : e[x] = last'[k][x] - last[k][x] /\ e[x] \in Int
  PROVE  MapThenSumSet(LAMBDA x : last'[k][x] - last[k][x], S) = Total(e, S)
<1> DEFINE P(g) == g = [s \in SUBSET S |->
                          IF s = {} THEN 0
                          ELSE (last'[k][CHOOSE x \in s : TRUE] - last[k][CHOOSE x \in s : TRUE])
                               + g[s \ {CHOOSE x \in s : TRUE}]]
           G == CHOOSE g : P(g)
<1>1. MapThenSumSet(LAMBDA x : last'[k][x] - last[k][x], S) = G[S]
  BY DEF MapThenSumSet, MapThenFoldSet
<1>2. PICK g : IsSum(g, e, S)
  BY SumExists
<1>3. \A s \in SUBSET S : s # {} => e[Pick(s)] = last'[k][Pick(s)] - last[k][Pick(s)]
  BY PickIn
<1>4. P(g)
  BY <1>2, <1>3 DEF IsSum, Pick
<1>5. P(G)
  <2> HIDE DEF P
  <2> QED BY <1>4, Zenon
<1> HIDE DEF G
<1>6. IsSum(G, e, S)
  BY <1>3, <1>5 DEF IsSum, Pick
<1>7. G[S] = Total(e, S)
  BY <1>6, TotalIs
<1> QED BY <1>1, <1>7

\* The sum of the deltas there are.
LEMMA SumOfIs ==
  ASSUME NEW deltas, IsFiniteSet(DOMAIN deltas),
         \A x \in DOMAIN deltas : deltas[x] # None => deltas[x] \in Int
  PROVE  LET there == {x \in DOMAIN deltas : deltas[x] # None} IN
         /\ there = {} => SumOf(deltas) = None
         /\ there # {} => SumOf(deltas) = Total(deltas, there)
<1> DEFINE there == {x \in DOMAIN deltas : deltas[x] # None}
<1>1. IsFiniteSet(there) /\ \A x \in there : deltas[x] \in Int
  BY FS_Subset
<1>2. SumOf(deltas) = IF there = {} THEN None ELSE MapThenSumSet(LAMBDA x : deltas[x], there)
  BY DEF SumOf
<1> HIDE DEF there
<1>3. MapThenSumSet(LAMBDA x : deltas[x], there) = Total(deltas, there)
  BY <1>1, SumSetIsTotal
<1> QED BY <1>2, <1>3 DEF there

\* The errors are one counter, or nothing.
LEMMA ErrorsAre ==
  ASSUME Inv, NEW text \in Texts, ApplySuccess(text), NEW k \in DOMAIN derived',
         derived'[k].errors # None
  PROVE  LET s == Sample(last[k]["success:error"], text[k]["success:error"]) IN
         s.delta # None /\ derived'[k].errors = s.delta
<1> DEFINE samples == [c \in Counters |-> Sample(last[k][c], text[k][c])]
           deltas == [c \in {"success:error"} |-> samples[c].delta]
           there == {x \in DOMAIN deltas : deltas[x] # None}
<1>1. /\ k \in Series
      /\ \A c \in Counters : text[k][c] \in {count[k][c], Absent, NaN}
      /\ derived'[k] = Derive(samples)
  BY DerivedIs
<1>2. "success:error" \in Counters
  BY DEF Counters, Reasons
<1>3. derived'[k].errors = FamilySum(samples, {"success:error"})
  BY <1>1 DEF Derive
<1>4. derived'[k].errors = SumOf(deltas)
  BY <1>3 DEF FamilySum
<1>5. deltas["success:error"] = Sample(last[k]["success:error"], text[k]["success:error"]).delta
  BY <1>2
<1>6. DOMAIN deltas = {"success:error"} /\ IsFiniteSet(DOMAIN deltas)
  BY FS_Singleton
<1>7. deltas["success:error"] # None => deltas["success:error"] \in Int
  BY <1>1, <1>2, <1>5, RateIsHonest
<1> HIDE DEF deltas
<1>8. there # {} /\ SumOf(deltas) = Total(deltas, there)
  BY <1>4, <1>6, <1>7, SumOfIs
<1>9. there = {"success:error"}
  BY <1>6, <1>8
<1> HIDE DEF there
<1>10. deltas["success:error"] # None
  BY <1>9 DEF there
<1>11. IsFiniteSet(there) /\ (\A x \in there : deltas[x] \in Int) /\ "success:error" \in there
  BY <1>7, <1>9, <1>10, FS_Singleton
<1>12. Total(deltas, there) = deltas["success:error"] + Total(deltas, there \ {"success:error"})
  BY <1>11, TotalRemove
<1>13. Total(deltas, there \ {"success:error"}) = 0
  <2>1. there \ {"success:error"} = {}
    BY <1>9
  <2> QED BY <2>1, TotalEmpty
<1> QED BY <1>4, <1>5, <1>7, <1>8, <1>10, <1>12, <1>13

\* What a good scrape makes of the tokens, the preemptions and the errors is of
\* what the server counted, and never negative (CounterTracker::update, the sum
\* over the error reasons in ingest_metrics).
THEOREM RatesAreHonest == Spec => DeltasAreHonest
<1>1. ASSUME Inv, NEW text \in Texts, ApplySuccess(text)
      PROVE  CountersHonest
  <2>1. {"generation_tokens", "preemptions"} \subseteq Counters
    BY DEF Counters
  <2>2. ASSUME NEW k \in DOMAIN derived'
        PROVE  /\ k \in Series
               /\ \A c \in Counters : text[k][c] \in {count[k][c], Absent, NaN}
               /\ derived'[k].generation = Sample(last[k]["generation_tokens"], text[k]["generation_tokens"]).delta
               /\ derived'[k].preempted = Sample(last[k]["preemptions"], text[k]["preemptions"]).delta
    <3> DEFINE samples == [c \in Counters |-> Sample(last[k][c], text[k][c])]
    <3>1. /\ k \in Series
          /\ \A c \in Counters : text[k][c] \in {count[k][c], Absent, NaN}
          /\ derived'[k] = Derive(samples)
      BY <1>1, <2>2, DerivedIs
    <3>2. \A c \in Counters : samples[c] = Sample(last[k][c], text[k][c])
      OBVIOUS
    <3> HIDE DEF samples
    <3>3. /\ derived'[k].generation = samples["generation_tokens"].delta
          /\ derived'[k].preempted = samples["preemptions"].delta
      BY <3>1 DEF Derive
    <3> QED BY <2>1, <3>1, <3>2, <3>3
  <2> QED BY <1>1, <2>1, <2>2, RateIsHonest DEF CountersHonest
<1>2. ASSUME Inv, NEW text \in Texts, ApplySuccess(text)
      PROVE  ErrorsHonest
  <2>1. "success:error" \in Counters
    BY DEF Counters, Reasons
  <2>2. ASSUME NEW k \in DOMAIN derived'
        PROVE  /\ k \in Series
               /\ \A c \in Counters : text[k][c] \in {count[k][c], Absent, NaN}
    BY <1>2, DerivedIs
  <2> QED BY <1>2, <2>1, <2>2, ErrorsAre, RateIsHonest DEF ErrorsHonest
<1>3. Inv /\ [Next]_vars => [Ingests => CountersHonest /\ ErrorsHonest]_vars
  BY <1>1, <1>2, IngestsIsSuccess
<1> QED BY <1>3, AlwaysInv, PTL DEF Spec, DeltasAreHonest

-----------------------------------------------------------------------------
(* Request rates.                                                          *)

\* Two scrapes read a counter exactly if there is a rate of it or a reset.
LEMMA ReadIsSampled ==
  ASSUME Inv, NEW text \in Texts, ApplySuccess(text), NEW k \in DOMAIN text, k \in Series,
         NEW c \in Counters, text[k][c] \in {count[k][c], Absent, NaN},
         Sample(last[k][c], text[k][c]).kind # "reset"
  PROVE  LET s == Sample(last[k][c], text[k][c]) IN
         /\ s.delta # None <=> last[k][c] # None /\ last'[k][c] # None /\ age'[k][c] = 0
         /\ s.delta # None => s.delta = last'[k][c] - last[k][c] /\ s.delta \in Int
<1> DEFINE v == text[k][c]
<1>1. /\ last[k][c] \in Nat \cup {None} /\ count[k][c] \in Nat
      /\ age[k][c] \in 0 .. EvictAfter
  BY DEF Inv, TypeOK
<1>2. /\ age'[k][c] = AgeAfter(age[k][c], v)
      /\ last'[k][c] = IF age'[k][c] = EvictAfter THEN None ELSE Kept(last[k][c], v)
  BY DEF ApplySuccess, Ingest, Value
<1>3. v \in {count[k][c], Absent, NaN} /\ Sample(last[k][c], v).kind # "reset"
  OBVIOUS
<1> HIDE DEF v
<1>4. CASE v = Absent
  <2>1. age'[k][c] # 0
    BY <1>1, <1>2, <1>4, Bounds, SMT DEF AgeAfter
  <2>2. Sample(last[k][c], v).delta = None
    BY <1>4, SMT DEF Sample, Absent, Unavailable
  <2> QED BY <2>1, <2>2 DEF v
<1>5. CASE v = NaN
  <2>1. last'[k][c] = None
    BY <1>2, <1>5, SMT DEF Kept, NaN, Absent
  <2>2. Sample(last[k][c], v).delta = None
    BY <1>5, SMT DEF Sample, NaN, Unavailable
  <2> QED BY <2>1, <2>2 DEF v
<1>6. CASE v = count[k][c]
  <2>1. v \in Nat /\ v # Absent /\ v # NaN /\ v # None
    BY <1>1, <1>6, SMT DEF Absent, NaN, None
  <2>2. age'[k][c] = 0 /\ last'[k][c] = v
    BY <1>2, <2>1, Bounds, SMT DEF AgeAfter, Kept
  <2>3. CASE last[k][c] = None
    <3>1. Sample(last[k][c], v).delta = None
      BY <2>3 DEF Sample, Unavailable
    <3> QED BY <2>3, <3>1 DEF v
  <2>4. CASE last[k][c] # None
    <3>1. last[k][c] \in Nat
      BY <1>1, <2>4
    <3>2. ~ (v < last[k][c]) /\ ~ (v < 0)
      BY <1>3, <2>1, <2>4, <3>1, SMT DEF Sample, Reset
    <3>3. Sample(last[k][c], v).delta = v - last[k][c]
      BY <2>4, <3>2 DEF Sample
    <3>4. v - last[k][c] \in Int /\ v - last[k][c] # None
      BY <2>1, <3>1, <3>2, SMT DEF None
    <3> QED BY <2>1, <2>2, <2>4, <3>3, <3>4 DEF v
  <2> QED BY <2>3, <2>4
<1> QED BY <1>3, <1>4, <1>5, <1>6

\* A request rate is the sum over every reason that two scrapes read, none of
\* which was reset: never of the survivors of a restart (ingest_metrics).
THEOREM RequestRatesAreWhole == Spec => RequestRateIsWhole
<1> DEFINE Read(k) == {c \in Reasons : last[k][c] # None /\ last'[k][c] # None /\ age'[k][c] = 0}
           Whole(k) == derived'[k].requests # None =>
                         derived'[k].requests = MapThenSumSet(LAMBDA c : last'[k][c] - last[k][c], Read(k))
<1>1. ASSUME Inv, NEW text \in Texts, ApplySuccess(text), NEW k \in DOMAIN derived',
             derived'[k].requests # None
      PROVE  derived'[k].requests = MapThenSumSet(LAMBDA c : last'[k][c] - last[k][c], Read(k))
  <2> DEFINE samples == [c \in Counters |-> Sample(last[k][c], text[k][c])]
             deltas == [c \in Reasons |-> samples[c].delta]
             there == {x \in DOMAIN deltas : deltas[x] # None}
  <2>1. /\ k \in Series /\ k \in DOMAIN text
        /\ \A c \in Counters : text[k][c] \in {count[k][c], Absent, NaN}
        /\ derived'[k] = Derive(samples)
    BY <1>1, DerivedIs
  <2>2. Reasons \subseteq Counters /\ IsFiniteSet(Reasons)
    <3>1. Reasons = {"success:stop"} \cup {"success:error"}
      BY DEF Reasons
    <3>2. IsFiniteSet({"success:stop"}) /\ IsFiniteSet({"success:error"})
      BY FS_Singleton
    <3> QED BY <3>1, <3>2, FS_Union DEF Counters
  <2>3. derived'[k].requests = FamilySum(samples, Reasons)
    BY <2>1 DEF Derive
  <2>4. (\A c \in Reasons : samples[c].kind # "reset") /\ derived'[k].requests = SumOf(deltas)
    BY <1>1, <2>3 DEF FamilySum
  <2>5. ASSUME NEW c \in Reasons
        PROVE  /\ deltas[c] # None <=> last[k][c] # None /\ last'[k][c] # None /\ age'[k][c] = 0
               /\ deltas[c] # None => deltas[c] = last'[k][c] - last[k][c] /\ deltas[c] \in Int
    <3>1. c \in Counters /\ samples[c] = Sample(last[k][c], text[k][c])
      BY <2>2
    <3>2. Sample(last[k][c], text[k][c]).kind # "reset"
      BY <2>4, <3>1
    <3>3. deltas[c] = Sample(last[k][c], text[k][c]).delta
      BY <3>1
    <3> HIDE DEF deltas, samples
    <3> QED BY <1>1, <2>1, <3>1, <3>2, <3>3, ReadIsSampled
  <2>6. DOMAIN deltas = Reasons
    OBVIOUS
  <2> HIDE DEF deltas, samples
  <2>7. there = Read(k)
    BY <2>5, <2>6
  <2>8. SumOf(deltas) = Total(deltas, there)
    BY <1>1, <2>2, <2>4, <2>5, <2>6, SumOfIs
  <2>9. /\ IsFiniteSet(Read(k))
        /\ \A c \in Read(k) : deltas[c] = last'[k][c] - last[k][c] /\ deltas[c] \in Int
    <3>1. Read(k) \subseteq Reasons
      OBVIOUS
    <3> QED BY <2>2, <2>5, <2>6, <2>7, <3>1, FS_Subset
  <2> HIDE DEF Read, there
  <2>10. MapThenSumSet(LAMBDA c : last'[k][c] - last[k][c], Read(k)) = Total(deltas, Read(k))
    BY <2>9, SumOfGains
  <2> QED BY <2>4, <2>7, <2>8, <2>10
<1>2. ASSUME Inv, [Next]_vars, Ingests
      PROVE  (\A k \in DOMAIN derived' : Whole(k)) \/ UNCHANGED vars
  BY <1>1, <1>2, IngestsIsSuccess
<1>3. Inv /\ [Next]_vars => [Ingests => \A k \in DOMAIN derived' : Whole(k)]_vars
  BY <1>2
<1> QED BY <1>3, AlwaysInv, PTL DEF Spec, RequestRateIsWhole
=============================================================================
