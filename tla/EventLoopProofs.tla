-------------------------- MODULE EventLoopProofs ---------------------------
(***************************************************************************)
(* For any number of endpoints and any capacity of the channel: the        *)
(* channel keeps its bound, announcements and outcomes of an endpoint      *)
(* alternate, and there is one usage query at a time.                      *)
(*                                                                         *)
(* The conjunction of the three is inductive, with the fact that only the  *)
(* tasks that main started run.  The first part has what                   *)
(* sending and receiving one event does to the positions of the others.    *)
(***************************************************************************)
EXTENDS EventLoop, Integers, TLAPS

\* Only the tasks that main started run.
Configured ==
  \A e \in Endpoints :
    /\ optional[e] # "stopped" => e \in Authorized
    /\ tailer[e] => e \in Tailed

Inv == TypeOK /\ Configured /\ AttemptsAlternate /\ OneUsageQuery

-----------------------------------------------------------------------------
(* Queues of events.                                                       *)

IsAttempt(m, e) == m.kind \in {"started", "scrape"} /\ m.ep = e

LEMMA Sent ==
  ASSUME NEW ch \in Seq(Event), NEW m \in Event
  PROVE  /\ Append(ch, m) \in Seq(Event)
         /\ Len(Append(ch, m)) = Len(ch) + 1 /\ Len(ch) \in Nat
         /\ DOMAIN ch = 1 .. Len(ch) /\ DOMAIN Append(ch, m) = 1 .. Len(ch) + 1
         /\ \A i \in 1 .. Len(ch) : Append(ch, m)[i] = ch[i]
         /\ Append(ch, m)[Len(ch) + 1] = m
  BY SMT

LEMMA Taken ==
  ASSUME NEW ch \in Seq(Event), ch # <<>>
  PROVE  /\ Tail(ch) \in Seq(Event) /\ Head(ch) = ch[1] /\ Head(ch) \in Event
         /\ Len(Tail(ch)) = Len(ch) - 1 /\ Len(ch) \in Nat /\ Len(ch) > 0
         /\ DOMAIN ch = 1 .. Len(ch) /\ DOMAIN Tail(ch) = 1 .. Len(ch) - 1
         /\ \A i \in 1 .. Len(ch) - 1 : Tail(ch)[i] = ch[i + 1]
  BY SMT

LEMMA OtherSent ==
  ASSUME NEW ch \in Seq(Event), NEW m \in Event, NEW e, ~ IsAttempt(m, e),
         NEW known, NEW announced
  PROVE  LET new == Append(ch, m) IN
         /\ Alternate(ch, e) => Alternate(new, e)
         /\ NextFits(ch, e, known) => NextFits(new, e, known)
         /\ LastFits(ch, e, known, announced) => LastFits(new, e, known, announced)
<1> DEFINE new == Append(ch, m)
<1>1. /\ DOMAIN ch = 1 .. Len(ch) /\ DOMAIN new = 1 .. Len(ch) + 1 /\ Len(ch) \in Nat
      /\ \A i \in 1 .. Len(ch) : new[i] = ch[i]
      /\ new[Len(ch) + 1] = m
  BY Sent
<1> HIDE DEF new
<1>2. AttemptsIn(new, e) = AttemptsIn(ch, e)
  BY <1>1, SMT DEF AttemptsIn, IsAttempt
<1>3. \A i \in AttemptsIn(ch, e) : new[i] = ch[i]
  BY <1>1 DEF AttemptsIn
<1>4. /\ Alternate(ch, e) => Alternate(new, e)
      /\ NextFits(ch, e, known) => NextFits(new, e, known)
      /\ LastFits(ch, e, known, announced) => LastFits(new, e, known, announced)
  BY <1>2, <1>3 DEF Alternate, NextFits, LastFits
<1> QED BY <1>4 DEF new

\* An announcement after an outcome, or an outcome after an announcement.
LEMMA OwnSent ==
  ASSUME NEW ch \in Seq(Event), NEW m \in Event, NEW e, IsAttempt(m, e),
         NEW known \in BOOLEAN,
         Alternate(ch, e), NextFits(ch, e, known), LastFits(ch, e, known, m.kind = "scrape")
  PROVE  LET new == Append(ch, m) IN
         Alternate(new, e) /\ NextFits(new, e, known) /\ LastFits(new, e, known, m.kind = "started")
<1> DEFINE new == Append(ch, m)
           n == Len(ch)
           A == AttemptsIn(ch, e)
           B == AttemptsIn(new, e)
<1>1. /\ DOMAIN ch = 1 .. n /\ DOMAIN new = 1 .. n + 1 /\ n \in Nat
      /\ \A i \in 1 .. n : new[i] = ch[i]
      /\ new[n + 1] = m
  BY Sent
<1> HIDE DEF new, n
<1>2. B = A \cup {n + 1} /\ A \subseteq 1 .. n
  BY <1>1, SMT DEF AttemptsIn, IsAttempt
<1>3. /\ \A i \in A : new[i] = ch[i] /\ i < n + 1 /\ i \in Int /\ ch[i].kind \in {"started", "scrape"}
      /\ new[n + 1].kind = m.kind /\ m.kind \in {"started", "scrape"}
      /\ n + 1 \in Int
  BY <1>1, <1>2, SMT DEF AttemptsIn, IsAttempt
<1>4. Alternate(new, e)
  <2> SUFFICES ASSUME NEW i \in B, NEW j \in B, i < j, \A k \in B : k <= i \/ j <= k
               PROVE  new[i].kind # new[j].kind
    BY DEF Alternate
  <2>1. i \in A
    BY <1>2, <1>3, SMT
  <2>2. CASE j \in A
    BY <1>2, <1>3, <2>1, <2>2 DEF Alternate
  <2>3. CASE j = n + 1
    <3>1. \A k \in A : k <= i
      BY <1>2, <1>3, <2>1, <2>3, SMT
    <3>2. (m.kind = "scrape") = (ch[i].kind = "started")
      BY <2>1, <3>1 DEF LastFits
    <3> QED BY <1>3, <2>1, <2>3, <3>2
  <2> QED BY <1>2, <2>2, <2>3
<1>5. NextFits(new, e, known)
  <2> SUFFICES ASSUME NEW i \in B, \A k \in B : i <= k
               PROVE  new[i].kind = IF known THEN "scrape" ELSE "started"
    BY DEF NextFits
  <2>1. CASE i \in A
    BY <1>2, <1>3, <2>1 DEF NextFits
  <2>2. CASE i = n + 1
    <3>1. A = {}
      BY <1>2, <1>3, <2>2, SMT
    <3>2. (m.kind = "scrape") = known
      BY <3>1 DEF LastFits
    <3> QED BY <1>3, <2>2, <3>2
  <2> QED BY <1>2, <2>1, <2>2
<1>6. LastFits(new, e, known, m.kind = "started")
  <2>1. ASSUME NEW i \in B, \A k \in B : k <= i
        PROVE  i = n + 1
    BY <1>2, <1>3, <2>1, SMT
  <2> QED BY <1>2, <1>3, <2>1 DEF LastFits
<1> QED BY <1>4, <1>5, <1>6 DEF new

LEMMA OtherTaken ==
  ASSUME NEW ch \in Seq(Event), ch # <<>>, NEW e, ~ IsAttempt(Head(ch), e),
         NEW known, NEW announced
  PROVE  LET new == Tail(ch) IN
         /\ Alternate(ch, e) => Alternate(new, e)
         /\ NextFits(ch, e, known) => NextFits(new, e, known)
         /\ LastFits(ch, e, known, announced) => LastFits(new, e, known, announced)
<1> DEFINE new == Tail(ch)
           n == Len(ch)
           A == AttemptsIn(ch, e)
           B == AttemptsIn(new, e)
<1>1. /\ DOMAIN ch = 1 .. n /\ DOMAIN new = 1 .. n - 1 /\ n \in Nat /\ Head(ch) = ch[1]
      /\ \A i \in 1 .. n - 1 : new[i] = ch[i + 1]
  BY Taken
<1> HIDE DEF new, n
<1>2. /\ \A i \in B : i \in Int /\ i + 1 \in A /\ new[i] = ch[i + 1]
      /\ \A i \in A : i \in Int /\ i - 1 \in B
  BY <1>1, SMT DEF AttemptsIn, IsAttempt
<1>3. Alternate(ch, e) => Alternate(new, e)
  <2> SUFFICES ASSUME Alternate(ch, e), NEW i \in B, NEW j \in B, i < j, \A k \in B : k <= i \/ j <= k
               PROVE  new[i].kind # new[j].kind
    BY DEF Alternate
  <2>1. ASSUME NEW k \in A PROVE k <= i + 1 \/ j + 1 <= k
    <3>1. k \in Int /\ (k - 1 \in B)
      BY <1>2
    <3>2. CASE k - 1 \in B
      <4>1. k - 1 <= i \/ j <= k - 1
        BY <3>2
      <4> QED BY <1>2, <3>1, <4>1, SMT
    <3> QED BY <1>2, <3>1, <3>2, SMT
  <2>2. i + 1 \in A /\ j + 1 \in A /\ i + 1 < j + 1
    BY <1>2, SMT
  <2>3. ch[i + 1].kind # ch[j + 1].kind
    BY <2>1, <2>2 DEF Alternate
  <2> QED BY <1>2, <2>3
<1>4. NextFits(ch, e, known) => NextFits(new, e, known)
  <2> SUFFICES ASSUME NextFits(ch, e, known), NEW i \in B, \A k \in B : i <= k
               PROVE  ch[i + 1].kind = IF known THEN "scrape" ELSE "started"
    BY <1>2 DEF NextFits
  <2>1. \A k \in A : i + 1 <= k
    BY <1>2, SMT
  <2> QED BY <1>2, <2>1 DEF NextFits
<1>5. LastFits(ch, e, known, announced) => LastFits(new, e, known, announced)
  <2> SUFFICES ASSUME LastFits(ch, e, known, announced)
               PROVE  LastFits(new, e, known, announced)
    OBVIOUS
  <2>1. B = {} => A = {}
    BY <1>2
  <2>2. ASSUME NEW i \in B, \A k \in B : k <= i
        PROVE  announced = (ch[i + 1].kind = "started")
    <3>1. \A k \in A : k <= i + 1
      BY <1>2, <2>2, SMT
    <3> QED BY <1>2, <3>1 DEF LastFits
  <2> QED BY <1>2, <2>1, <2>2 DEF LastFits
<1> QED BY <1>3, <1>4, <1>5 DEF new

\* The main loop sees an announcement, or an outcome.
LEMMA OwnTaken ==
  ASSUME NEW ch \in Seq(Event), ch # <<>>, NEW e, IsAttempt(Head(ch), e),
         NEW known, NEW announced,
         Alternate(ch, e)
  PROVE  LET new == Tail(ch)
             begun == Head(ch).kind = "started" IN
         /\ Alternate(new, e) /\ NextFits(new, e, begun)
         /\ LastFits(ch, e, known, announced) => LastFits(new, e, begun, announced)
<1> DEFINE new == Tail(ch)
           n == Len(ch)
           A == AttemptsIn(ch, e)
           B == AttemptsIn(new, e)
           begun == Head(ch).kind = "started"
<1>1. /\ DOMAIN ch = 1 .. n /\ DOMAIN new = 1 .. n - 1 /\ n \in Nat /\ n > 0 /\ Head(ch) = ch[1]
      /\ \A i \in 1 .. n - 1 : new[i] = ch[i + 1]
  BY Taken
<1> HIDE DEF new, n
<1>2. /\ \A i \in B : i \in Int /\ 1 <= i /\ i + 1 \in A /\ new[i] = ch[i + 1]
      /\ \A i \in A : i \in Int /\ 1 <= i /\ (i = 1 \/ i - 1 \in B)
      /\ 1 \in A
      /\ \A i \in A : ch[i].kind \in {"started", "scrape"}
  BY <1>1, SMT DEF AttemptsIn, IsAttempt
<1>3. Alternate(new, e)
  <2> SUFFICES ASSUME NEW i \in B, NEW j \in B, i < j, \A k \in B : k <= i \/ j <= k
               PROVE  new[i].kind # new[j].kind
    BY DEF Alternate
  <2>1. ASSUME NEW k \in A PROVE k <= i + 1 \/ j + 1 <= k
    <3>1. k \in Int /\ (k - 1 \in B \/ k = 1)
      BY <1>2
    <3>2. i \in Int /\ j \in Int /\ 1 <= i
      BY <1>2
    <3>3. CASE k - 1 \in B
      <4>1. k - 1 <= i \/ j <= k - 1
        BY <3>3
      <4> QED BY <3>1, <3>2, <4>1, SMT
    <3> QED BY <3>1, <3>3, <3>2, SMT
  <2>2. i + 1 \in A /\ j + 1 \in A /\ i + 1 < j + 1
    BY <1>2, SMT
  <2>3. ch[i + 1].kind # ch[j + 1].kind
    BY <2>1, <2>2 DEF Alternate
  <2> QED BY <1>2, <2>3
<1>4. NextFits(new, e, begun)
  <2> SUFFICES ASSUME NEW i \in B, \A k \in B : i <= k
               PROVE  ch[i + 1].kind = IF begun THEN "scrape" ELSE "started"
    BY <1>2 DEF NextFits
  <2>1. 1 < i + 1 /\ i + 1 \in A
    BY <1>2, SMT
  <2>3. ASSUME NEW k \in A PROVE k <= 1 \/ i + 1 <= k
    <3>1. k \in Int /\ (k - 1 \in B \/ k = 1)
      BY <1>2
    <3>2. i \in Int
      BY <1>2
    <3>3. CASE k - 1 \in B
      <4>1. i <= k - 1
        BY <3>3
      <4> QED BY <3>1, <3>2, <4>1, SMT
    <3> QED BY <3>1, <3>3, SMT
  <2>2. ch[1].kind # ch[i + 1].kind
    BY <1>2, <2>1, <2>3 DEF Alternate
  <2> QED BY <1>1, <1>2, <2>2
<1>5. LastFits(ch, e, known, announced) => LastFits(new, e, begun, announced)
  <2> SUFFICES ASSUME LastFits(ch, e, known, announced)
               PROVE  LastFits(new, e, begun, announced)
    OBVIOUS
  <2>1. ASSUME B = {} PROVE announced = begun
    <3>1. \A k \in A : k <= 1
      BY <1>2, <2>1, SMT
    <3> QED BY <1>1, <1>2, <3>1 DEF LastFits
  <2>2. ASSUME NEW i \in B, \A k \in B : k <= i
        PROVE  announced = (ch[i + 1].kind = "started")
    <3>1. \A k \in A : k <= i + 1
      BY <1>2, <2>2, SMT
    <3> QED BY <1>2, <3>1 DEF LastFits
  <2> QED BY <1>2, <2>1, <2>2 DEF LastFits
<1> QED BY <1>3, <1>4, <1>5 DEF new

LEMMA UsageSent ==
  ASSUME NEW ch \in Seq(Event), NEW m \in Event
  PROVE  UsageIn(Append(ch, m)) = UsageIn(ch) \cup (IF m.kind = "usage" THEN {Len(ch) + 1} ELSE {})
<1> DEFINE new == Append(ch, m)
<1>1. /\ DOMAIN ch = 1 .. Len(ch) /\ DOMAIN new = 1 .. Len(ch) + 1 /\ Len(ch) \in Nat
      /\ \A i \in 1 .. Len(ch) : new[i] = ch[i]
      /\ new[Len(ch) + 1] = m
  BY Sent
<1> HIDE DEF new
<1>2. UsageIn(new) = UsageIn(ch) \cup (IF m.kind = "usage" THEN {Len(ch) + 1} ELSE {})
  BY <1>1, SMT DEF UsageIn
<1> QED BY <1>2 DEF new

LEMMA UsageTaken ==
  ASSUME NEW ch \in Seq(Event), ch # <<>>, \A i, j \in UsageIn(ch) : i = j
  PROVE  LET new == Tail(ch) IN
         /\ \A i, j \in UsageIn(new) : i = j
         /\ Head(ch).kind = "usage" => UsageIn(ch) # {} /\ UsageIn(new) = {}
         /\ Head(ch).kind # "usage" => (UsageIn(new) = {} <=> UsageIn(ch) = {})
<1> DEFINE new == Tail(ch)
           n == Len(ch)
<1>1. /\ DOMAIN ch = 1 .. n /\ DOMAIN new = 1 .. n - 1 /\ n \in Nat /\ n > 0 /\ Head(ch) = ch[1]
      /\ \A i \in 1 .. n - 1 : new[i] = ch[i + 1]
  BY Taken
<1> HIDE DEF new, n
<1>2. /\ \A i \in UsageIn(new) : i \in Int /\ 1 <= i /\ i + 1 \in UsageIn(ch)
      /\ \A i \in UsageIn(ch) : i \in Int /\ (i = 1 \/ i - 1 \in UsageIn(new))
      /\ 1 \in UsageIn(ch) <=> Head(ch).kind = "usage"
  BY <1>1, SMT DEF UsageIn
<1>3. \A i, j \in UsageIn(new) : i = j
  BY <1>2, SMT
<1>4. ASSUME Head(ch).kind = "usage" PROVE UsageIn(ch) # {} /\ UsageIn(new) = {}
  BY <1>2, <1>4, SMT
<1>5. ASSUME Head(ch).kind # "usage" PROVE UsageIn(new) = {} <=> UsageIn(ch) = {}
  BY <1>2, <1>5
<1> QED BY <1>3, <1>4, <1>5 DEF new

-----------------------------------------------------------------------------
(* What is in the channel.                                                 *)

LEMMA Kinds ==
  ASSUME NEW m \in Event
  PROVE  /\ m.kind \in {"started", "scrape", "optional", "log", "usage", "key", "closed"}
         /\ m.kind \in {"started", "scrape"} => m.ep \in Endpoints
         /\ m.kind \in {"scrape", "usage"} => m.ok \in BOOLEAN
BY SubsetsAssumption, SMT DEF Event, Started, Scrape, OptionalUpdate, RequestLog, UsageLoaded, Key, InputClosed

LEMMA Events ==
  /\ \A e \in Endpoints : Started(e) \in Event /\ Started(e).kind = "started" /\ Started(e).ep = e
  /\ \A e \in Endpoints, ok \in BOOLEAN :
       Scrape(e, ok) \in Event /\ Scrape(e, ok).kind = "scrape" /\ Scrape(e, ok).ep = e
  /\ \A e \in Authorized : OptionalUpdate(e) \in Event /\ OptionalUpdate(e).kind = "optional"
  /\ \A e \in Tailed : RequestLog(e) \in Event /\ RequestLog(e).kind = "log"
  /\ \A ok \in BOOLEAN : UsageLoaded(ok) \in Event /\ UsageLoaded(ok).kind = "usage"
  /\ \A k \in Keys : Key(k) \in Event /\ Key(k).kind = "key"
  /\ InputClosed \in Event /\ InputClosed.kind = "closed"
<1>1. \A e \in Endpoints : Started(e) \in Event /\ Started(e).kind = "started" /\ Started(e).ep = e
  BY DEF Event, Started
<1>2. \A e \in Endpoints, ok \in BOOLEAN :
        Scrape(e, ok) \in Event /\ Scrape(e, ok).kind = "scrape" /\ Scrape(e, ok).ep = e
  BY DEF Event, Scrape
<1>3. \A e \in Authorized : OptionalUpdate(e) \in Event /\ OptionalUpdate(e).kind = "optional"
  BY DEF Event, OptionalUpdate
<1>4. \A e \in Tailed : RequestLog(e) \in Event /\ RequestLog(e).kind = "log"
  BY DEF Event, RequestLog
<1>5. \A ok \in BOOLEAN : UsageLoaded(ok) \in Event /\ UsageLoaded(ok).kind = "usage"
  BY DEF Event, UsageLoaded
<1>6. \A k \in Keys : Key(k) \in Event /\ Key(k).kind = "key"
  BY DEF Event, Key
<1>7. InputClosed \in Event /\ InputClosed.kind = "closed"
  BY DEF Event, InputClosed
<1> QED BY <1>1, <1>2, <1>3, <1>4, <1>5, <1>6, <1>7

LEMMA Queued ==
  ASSUME TypeOK, NEW m \in Event, Put(m)
  PROVE  channel' \in Seq(Event) /\ Len(channel') <= ChannelCapacity
BY Sent, ChannelCapacityAssumption, SMT DEF TypeOK, Put, HasRoom

\* An event that is no endpoint's attempt disturbs none.
LEMMA AsideSent ==
  ASSUME TypeOK, AttemptsAlternate, NEW m \in Event, m.kind \notin {"started", "scrape"}, Put(m),
         UNCHANGED <<collector, scraping>>
  PROVE  AttemptsAlternate'
<1> SUFFICES ASSUME NEW e \in Endpoints
             PROVE  /\ Alternate(channel', e)
                    /\ NextFits(channel', e, scraping[e])
                    /\ collector[e] # "stopped" => LastFits(channel', e, scraping[e], Announced(e))
  BY DEF AttemptsAlternate, Announced
<1>1. channel' = Append(channel, m) /\ channel \in Seq(Event) /\ ~ IsAttempt(m, e)
  BY DEF Put, TypeOK, IsAttempt
<1> QED BY <1>1, OtherSent DEF AttemptsAlternate

\* The channel is as it was, and a collector is where it was or has stopped.
LEMMA NothingSent ==
  ASSUME AttemptsAlternate, UNCHANGED <<channel, scraping>>,
         \A e \in Endpoints : collector'[e] = "stopped" \/ (collector[e] # "stopped" /\ Announced(e)' = Announced(e)) \/ collector'[e] = collector[e]
  PROVE  AttemptsAlternate'
<1> SUFFICES ASSUME NEW e \in Endpoints
             PROVE  /\ Alternate(channel, e)
                    /\ NextFits(channel, e, scraping[e])
                    /\ collector'[e] # "stopped" => LastFits(channel, e, scraping[e], Announced(e)')
  BY DEF AttemptsAlternate
<1>1. collector'[e] = collector[e] => Announced(e)' = Announced(e)
  BY DEF Announced
<1> QED BY <1>1 DEF AttemptsAlternate

\* What is no usage result leaves the query alone.
LEMMA NoUsageSent ==
  ASSUME TypeOK, OneUsageQuery, NEW m \in Event, m.kind # "usage", Put(m),
         UNCHANGED <<receiver, query, inFlight>>
  PROVE  OneUsageQuery'
<1>1. UsageIn(channel') = UsageIn(channel)
  BY UsageSent DEF TypeOK, Put
<1> QED BY <1>1 DEF OneUsageQuery

LEMMA ConfiguredKept == Configured /\ UNCHANGED <<optional, tailer>> => Configured'
BY DEF Configured

LEMMA UsageAlone ==
  ASSUME OneUsageQuery, UNCHANGED <<receiver, channel, query, inFlight>>
  PROVE  OneUsageQuery'
BY DEF OneUsageQuery, UsageIn

-----------------------------------------------------------------------------
LEMMA Initial == Init => Inv
<1> SUFFICES ASSUME Init PROVE Inv
  OBVIOUS
<1>1. channel \in Seq(Event) /\ Len(channel) = 0 /\ DOMAIN channel = {}
  BY SMT DEF Init
<1>2. TypeOK
  <2>1. /\ collector \in [Endpoints -> CollectorState] /\ scraping \in [Endpoints -> BOOLEAN]
        /\ tailer \in [Endpoints -> BOOLEAN]
    BY DEF Init, CollectorState
  <2>2. optional \in [Endpoints -> OptionalState]
    BY DEF Init, OptionalState
  <2>3. Len(channel) <= ChannelCapacity
    BY <1>1, ChannelCapacityAssumption, SMT
  <2> QED BY <1>1, <2>1, <2>2, <2>3 DEF Init, TypeOK, AppState, QueryState
<1>3. AttemptsAlternate
  <2>1. \A e : AttemptsIn(channel, e) = {}
    BY <1>1 DEF AttemptsIn
  <2>2. \A e \in Endpoints : scraping[e] = FALSE /\ collector[e] = "waiting"
    BY DEF Init
  <2>3. \A e \in Endpoints : Announced(e) = FALSE
    BY <2>2 DEF Announced
  <2>4. \A e \in Endpoints : /\ Alternate(channel, e) /\ NextFits(channel, e, scraping[e])
                             /\ LastFits(channel, e, scraping[e], Announced(e))
    BY <2>1, <2>2, <2>3, Zenon DEF Alternate, NextFits, LastFits
  <2> QED BY <2>4 DEF AttemptsAlternate
<1>4. OneUsageQuery
  BY <1>1 DEF Init, OneUsageQuery, UsageIn
<1>5. Configured
  BY SubsetsAssumption DEF Init, Configured
<1> QED BY <1>2, <1>3, <1>4, <1>5 DEF Inv

LEMMA AfterStartAttempt == Inv /\ (\E e \in Endpoints : StartAttempt(e)) => Inv'
<1> SUFFICES ASSUME Inv, NEW e \in Endpoints, StartAttempt(e) PROVE Inv'
  OBVIOUS
<1>1. TypeOK'
  BY SMT DEF Inv, TypeOK, StartAttempt, CollectorState, usageVars, screenVars
<1>2. AttemptsAlternate'
  BY NothingSent DEF Inv, TypeOK, StartAttempt, Announced
<1>3. OneUsageQuery'
  BY UsageAlone DEF Inv, StartAttempt, usageVars
<1>4. Configured'
  BY ConfiguredKept DEF Inv, StartAttempt
<1> QED BY <1>1, <1>2, <1>3, <1>4 DEF Inv

LEMMA AfterFinishPoll == Inv /\ (\E e \in Endpoints : FinishPoll(e)) => Inv'
<1> SUFFICES ASSUME Inv, NEW e \in Endpoints, FinishPoll(e) PROVE Inv'
  OBVIOUS
<1>1. TypeOK'
  BY SMT DEF Inv, TypeOK, FinishPoll, CollectorState, usageVars, screenVars
<1>2. AttemptsAlternate'
  BY NothingSent DEF Inv, TypeOK, FinishPoll, Announced
<1>3. OneUsageQuery'
  BY UsageAlone DEF Inv, FinishPoll, usageVars
<1>4. Configured'
  BY ConfiguredKept DEF Inv, FinishPoll
<1> QED BY <1>1, <1>2, <1>3, <1>4 DEF Inv

\* An announcement and an outcome, from a collector that has told the opposite.
LEMMA AttemptSent ==
  ASSUME TypeOK, AttemptsAlternate, NEW e \in Endpoints, NEW m \in Event, Put(m), UNCHANGED scraping,
         IsAttempt(m, e), collector[e] # "stopped", Announced(e) = (m.kind = "scrape"),
         NEW s \in CollectorState, s \in {"polling", "reporting"} <=> m.kind = "started",
         collector' = [collector EXCEPT ![e] = s]
  PROVE  AttemptsAlternate'
<1>1. channel' = Append(channel, m) /\ channel \in Seq(Event)
  BY DEF Put, TypeOK
<1> SUFFICES ASSUME NEW f \in Endpoints
             PROVE  /\ Alternate(channel', f)
                    /\ NextFits(channel', f, scraping[f])
                    /\ collector'[f] # "stopped" => LastFits(channel', f, scraping[f], Announced(f)')
  BY DEF AttemptsAlternate
<1>2. CASE f = e
  <2>1. Announced(e)' = (m.kind = "started")
    BY DEF TypeOK, Announced
  <2>2. scraping[e] \in BOOLEAN
    BY DEF TypeOK
  <2>3. Alternate(channel, e) /\ NextFits(channel, e, scraping[e])
        /\ LastFits(channel, e, scraping[e], m.kind = "scrape")
    BY DEF AttemptsAlternate
  <2> QED BY <1>1, <1>2, <2>1, <2>2, <2>3, OwnSent
<1>3. CASE f # e
  <2>1. ~ IsAttempt(m, f) /\ collector'[f] = collector[f]
    BY <1>3 DEF IsAttempt, TypeOK
  <2>2. Announced(f)' = Announced(f)
    BY <2>1 DEF Announced
  <2> QED BY <1>1, <2>1, <2>2, OtherSent DEF AttemptsAlternate
<1> QED BY <1>2, <1>3

LEMMA AfterSendStarted == Inv /\ (\E e \in Endpoints : SendStarted(e)) => Inv'
<1> SUFFICES ASSUME Inv, NEW e \in Endpoints, SendStarted(e) PROVE Inv'
  OBVIOUS
<1> USE DEF Inv
<1>0. Configured'
  BY ConfiguredKept DEF SendStarted
<1>1. CASE Put(Started(e)) /\ collector' = [collector EXCEPT ![e] = "polling"]
  <2>1. Started(e) \in Event /\ Started(e).kind = "started" /\ Started(e).ep = e
    BY Events
  <2>2. channel' \in Seq(Event) /\ Len(channel') <= ChannelCapacity
    BY <1>1, <2>1, Queued
  <2>3. TypeOK'
    BY <1>1, <2>2, SMT DEF TypeOK, SendStarted, CollectorState, usageVars, screenVars
  <2>4. AttemptsAlternate'
    <3>1. collector[e] = "starting" /\ UNCHANGED scraping
      BY DEF SendStarted
    <3>2. Announced(e) = FALSE /\ IsAttempt(Started(e), e)
      BY <2>1, <3>1 DEF Announced, IsAttempt
    <3> QED BY <1>1, <2>1, <3>1, <3>2, AttemptSent DEF CollectorState
  <2>5. OneUsageQuery'
    BY <1>1, <2>1, NoUsageSent DEF SendStarted, usageVars
  <2> QED BY <1>0, <2>3, <2>4, <2>5
<1>2. CASE PutFails /\ collector' = [collector EXCEPT ![e] = "stopped"]
  <2>1. TypeOK'
    BY <1>2, SMT DEF TypeOK, SendStarted, PutFails, CollectorState, usageVars, screenVars
  <2>2. AttemptsAlternate'
    BY <1>2, NothingSent DEF TypeOK, SendStarted, PutFails
  <2>3. OneUsageQuery'
    BY <1>2, UsageAlone DEF SendStarted, PutFails, usageVars
  <2> QED BY <1>0, <2>1, <2>2, <2>3
<1> QED BY <1>1, <1>2 DEF SendStarted

LEMMA AfterSendScrape == Inv /\ (\E e \in Endpoints : SendScrape(e)) => Inv'
<1> SUFFICES ASSUME Inv, NEW e \in Endpoints, SendScrape(e) PROVE Inv'
  OBVIOUS
<1> USE DEF Inv
<1>0. Configured'
  BY ConfiguredKept DEF SendScrape
<1>1. ASSUME NEW ok \in BOOLEAN, Put(Scrape(e, ok)), collector' = [collector EXCEPT ![e] = AfterReport]
      PROVE  Inv'
  <2>1. Scrape(e, ok) \in Event /\ Scrape(e, ok).kind = "scrape" /\ Scrape(e, ok).ep = e
    BY Events
  <2>2. channel' \in Seq(Event) /\ Len(channel') <= ChannelCapacity
    BY <1>1, <2>1, Queued
  <2>3. TypeOK'
    BY <1>1, <2>2, SMT DEF TypeOK, SendScrape, CollectorState, AfterReport, usageVars, screenVars
  <2>4. AttemptsAlternate'
    <3>1. collector[e] = "reporting" /\ UNCHANGED scraping
      BY DEF SendScrape
    <3>2. Announced(e) = TRUE /\ IsAttempt(Scrape(e, ok), e)
      BY <2>1, <3>1 DEF Announced, IsAttempt
    <3> QED BY <1>1, <2>1, <3>1, <3>2, AttemptSent DEF CollectorState, AfterReport
  <2>5. OneUsageQuery'
    BY <1>1, <2>1, NoUsageSent DEF SendScrape, usageVars
  <2> QED BY <1>0, <2>3, <2>4, <2>5
<1>2. CASE PutFails /\ collector' = [collector EXCEPT ![e] = "stopped"]
  <2>1. TypeOK'
    BY <1>2, SMT DEF TypeOK, SendScrape, PutFails, CollectorState, usageVars, screenVars
  <2>2. AttemptsAlternate'
    BY <1>2, NothingSent DEF TypeOK, SendScrape, PutFails
  <2>3. OneUsageQuery'
    BY <1>2, UsageAlone DEF SendScrape, PutFails, usageVars
  <2> QED BY <1>0, <2>1, <2>2, <2>3
<1>3. Outcomes(e) \subseteq BOOLEAN
  BY DEF Outcomes
<1> QED BY <1>1, <1>2, <1>3 DEF SendScrape

LEMMA AfterProbes == Inv /\ (\E e \in Endpoints : FinishProbe(e) \/ SendOptional(e)) => Inv'
<1> SUFFICES ASSUME Inv, NEW e \in Endpoints, FinishProbe(e) \/ SendOptional(e) PROVE Inv'
  OBVIOUS
<1> USE DEF Inv
<1>1. CASE FinishProbe(e)
  <2>1. TypeOK'
    BY <1>1, SMT DEF TypeOK, FinishProbe, OptionalState, usageVars, screenVars
  <2>2. AttemptsAlternate'
    BY <1>1, NothingSent DEF FinishProbe
  <2>3. OneUsageQuery'
    BY <1>1, UsageAlone DEF FinishProbe, usageVars
  <2>4. Configured'
    BY <1>1 DEF Configured, FinishProbe, TypeOK
  <2> QED BY <2>1, <2>2, <2>3, <2>4
<1>2. CASE SendOptional(e) /\ Put(OptionalUpdate(e)) /\ optional' = [optional EXCEPT ![e] = "sleeping"]
  <2>1. e \in Authorized
    BY <1>2 DEF Configured, SendOptional
  <2>2. OptionalUpdate(e) \in Event /\ OptionalUpdate(e).kind = "optional"
    BY <2>1, Events
  <2>3. channel' \in Seq(Event) /\ Len(channel') <= ChannelCapacity
    BY <1>2, <2>2, Queued
  <2>4. TypeOK'
    BY <1>2, <2>3, SMT DEF TypeOK, SendOptional, OptionalState, usageVars, screenVars
  <2>5. AttemptsAlternate'
    BY <1>2, <2>2, AsideSent DEF SendOptional
  <2>6. OneUsageQuery'
    BY <1>2, <2>2, NoUsageSent DEF SendOptional, usageVars
  <2>7. Configured'
    BY <1>2, <2>1 DEF Configured, SendOptional, TypeOK
  <2> QED BY <2>4, <2>5, <2>6, <2>7
<1>3. CASE SendOptional(e) /\ PutFails /\ optional' = [optional EXCEPT ![e] = "stopped"]
  <2>1. TypeOK'
    BY <1>3, SMT DEF TypeOK, SendOptional, PutFails, OptionalState, usageVars, screenVars
  <2>2. AttemptsAlternate'
    BY <1>3, NothingSent DEF SendOptional, PutFails
  <2>3. OneUsageQuery'
    BY <1>3, UsageAlone DEF SendOptional, PutFails, usageVars
  <2>4. Configured'
    BY <1>3 DEF Configured, SendOptional, TypeOK
  <2> QED BY <2>1, <2>2, <2>3, <2>4
<1> QED BY <1>1, <1>2, <1>3 DEF SendOptional

LEMMA AfterTailerTick == Inv /\ (\E e \in Endpoints : TailerTick(e)) => Inv'
<1> SUFFICES ASSUME Inv, NEW e \in Endpoints, TailerTick(e) PROVE Inv'
  OBVIOUS
<1> USE DEF Inv
<1>1. CASE Put(RequestLog(e)) /\ UNCHANGED tailer
  <2>1. RequestLog(e) \in Event /\ RequestLog(e).kind = "log"
    BY Events DEF TailerTick, Configured
  <2>2. channel' \in Seq(Event) /\ Len(channel') <= ChannelCapacity
    BY <1>1, <2>1, Queued
  <2>3. TypeOK'
    BY <1>1, <2>2, SMT DEF TypeOK, TailerTick, usageVars, screenVars
  <2>4. AttemptsAlternate'
    BY <1>1, <2>1, AsideSent DEF TailerTick
  <2>5. OneUsageQuery'
    BY <1>1, <2>1, NoUsageSent DEF TailerTick, usageVars
  <2> QED BY <1>1, <2>3, <2>4, <2>5, ConfiguredKept DEF TailerTick
<1>2. CASE UNCHANGED channel /\ (UNCHANGED tailer \/ tailer' = [tailer EXCEPT ![e] = FALSE])
  <2>1. TypeOK'
    <3>1. tailer' \in [Endpoints -> BOOLEAN]
      BY <1>2 DEF TypeOK
    <3> QED BY <1>2, <3>1 DEF TypeOK, TailerTick, usageVars, screenVars
  <2>2. AttemptsAlternate'
    BY <1>2, NothingSent DEF TailerTick
  <2>3. OneUsageQuery'
    BY <1>2, UsageAlone DEF TailerTick, usageVars
  <2>4. Configured'
    BY <1>2 DEF Configured, TailerTick, TypeOK
  <2> QED BY <2>1, <2>2, <2>3, <2>4
<1> QED BY <1>1, <1>2 DEF TailerTick, PutFails

LEMMA AfterInput == Inv /\ ((\E k \in Keys : TypeKey(k)) \/ InputFails) => Inv'
<1> SUFFICES ASSUME Inv, (\E k \in Keys : TypeKey(k)) \/ InputFails PROVE Inv'
  OBVIOUS
<1> USE DEF Inv
<1>1. /\ input' \in BOOLEAN
      /\ UNCHANGED <<app, receiver, scraping, collector, optional, tailer, usageVars, screenVars>>
  BY DEF TypeKey, InputFails, TypeOK
<1>2. PICK m \in Event : m.kind \notin {"started", "scrape", "usage"} /\ (Put(m) \/ UNCHANGED channel)
  BY Events DEF TypeKey, InputFails, PutFails
<1>3. CASE Put(m)
  <2>1. channel' \in Seq(Event) /\ Len(channel') <= ChannelCapacity
    BY <1>3, Queued
  <2>2. TypeOK'
    BY <1>1, <2>1, SMT DEF TypeOK, usageVars, screenVars
  <2>3. AttemptsAlternate'
    BY <1>1, <1>2, <1>3, AsideSent
  <2>4. OneUsageQuery'
    BY <1>1, <1>2, <1>3, NoUsageSent DEF usageVars
  <2> QED BY <1>1, <2>2, <2>3, <2>4, ConfiguredKept
<1>4. CASE UNCHANGED channel
  <2>1. TypeOK'
    BY <1>1, <1>4, SMT DEF TypeOK, usageVars, screenVars
  <2>2. AttemptsAlternate'
    BY <1>1, <1>4, NothingSent
  <2>3. OneUsageQuery'
    BY <1>1, <1>4, UsageAlone DEF usageVars
  <2> QED BY <1>1, <2>1, <2>2, <2>3, ConfiguredKept
<1> QED BY <1>2, <1>3, <1>4

LEMMA AfterFinishQuery == Inv /\ FinishQuery => Inv'
<1> SUFFICES ASSUME Inv, FinishQuery PROVE Inv'
  OBVIOUS
<1> USE DEF Inv
<1>1. TypeOK'
  BY SMT DEF TypeOK, FinishQuery, QueryState, taskVars, screenVars
<1>2. AttemptsAlternate'
  BY NothingSent DEF FinishQuery, taskVars
<1>3. OneUsageQuery'
  BY DEF FinishQuery, OneUsageQuery, UsageIn
<1> QED BY <1>1, <1>2, <1>3, ConfiguredKept DEF FinishQuery, taskVars

LEMMA AfterSendUsage == Inv /\ SendUsage => Inv'
<1> SUFFICES ASSUME Inv, SendUsage PROVE Inv'
  OBVIOUS
<1> USE DEF Inv
<1>1. ASSUME NEW ok \in BOOLEAN, Put(UsageLoaded(ok)) PROVE Inv'
  <2>1. UsageLoaded(ok) \in Event /\ UsageLoaded(ok).kind = "usage"
    BY Events
  <2>2. channel' \in Seq(Event) /\ Len(channel') <= ChannelCapacity
    BY <1>1, <2>1, Queued
  <2>3. TypeOK'
    BY <2>2, SMT DEF TypeOK, SendUsage, QueryState, taskVars, screenVars
  <2>4. AttemptsAlternate'
    BY <1>1, <2>1, AsideSent DEF SendUsage, taskVars
  <2>5. OneUsageQuery'
    <3>1. UsageIn(channel') = UsageIn(channel) \cup {Len(channel) + 1}
      BY <1>1, <2>1, UsageSent DEF TypeOK, Put
    <3> QED BY <3>1 DEF OneUsageQuery, SendUsage
  <2> QED BY <2>3, <2>4, <2>5, ConfiguredKept DEF SendUsage, taskVars
<1>2. CASE PutFails
  <2>1. TypeOK'
    BY <1>2, SMT DEF TypeOK, SendUsage, PutFails, QueryState, taskVars, screenVars
  <2>2. AttemptsAlternate'
    BY <1>2, NothingSent DEF SendUsage, PutFails, taskVars
  <2>3. OneUsageQuery'
    BY <1>2 DEF SendUsage, PutFails, OneUsageQuery
  <2> QED BY <2>1, <2>2, <2>3, ConfiguredKept DEF SendUsage, taskVars
<1> QED BY <1>1, <1>2 DEF SendUsage

\* The receiver is only ever dropped.
LEMMA Closes ==
  ASSUME receiver \in BOOLEAN, receiver' = receiver \/ receiver' = FALSE
  PROVE  receiver' \in BOOLEAN /\ (receiver' => receiver)
<1>1. CASE receiver' = receiver
  BY <1>1
<1>2. CASE receiver' = FALSE
  BY <1>2, Zenon
<1> QED BY <1>1, <1>2

\* The timers, a signal, and the return of run().
LEMMA AfterQuietStep == Inv /\ (QueryAges \/ FrameAges \/ Sigterm \/ RunReturns) => Inv'
<1> SUFFICES ASSUME Inv, QueryAges \/ FrameAges \/ Sigterm \/ RunReturns PROVE Inv'
  OBVIOUS
<1> USE DEF Inv
<1>1. /\ UNCHANGED <<channel, scraping, taskVars, query, inFlight, paused, help>>
      /\ receiver' \in BOOLEAN /\ (receiver' => receiver)
  <2>1. receiver \in BOOLEAN
    BY DEF TypeOK
  <2>2. UNCHANGED <<channel, scraping, taskVars, query, inFlight, paused, help>>
    BY DEF QueryAges, FrameAges, Sigterm, RunReturns, usageVars, screenVars
  <2>3. UNCHANGED receiver \/ receiver' = FALSE
    BY DEF QueryAges, FrameAges, Sigterm, RunReturns, ClosesReceiver
  <2> QED BY <2>1, <2>2, <2>3, Closes
<1>2. app' \in AppState /\ lastQuery' \in {"none", "recent", "old"} /\ dirty' \in BOOLEAN /\ frameOld' \in BOOLEAN
  BY DEF QueryAges, FrameAges, Sigterm, RunReturns, usageVars, screenVars, TypeOK, AppState
<1>3. TypeOK'
  BY <1>1, <1>2, SMT DEF TypeOK, taskVars
<1>4. AttemptsAlternate'
  BY <1>1, NothingSent DEF taskVars
<1>5. OneUsageQuery'
  BY <1>1 DEF OneUsageQuery, UsageIn
<1> QED BY <1>1, <1>3, <1>4, <1>5, ConfiguredKept DEF taskVars

LEMMA AfterRuntimeDropped == Inv /\ RuntimeDropped => Inv'
<1> SUFFICES ASSUME Inv, RuntimeDropped PROVE Inv'
  OBVIOUS
<1> USE DEF Inv
<1>1. TypeOK'
  <2>1. /\ collector' \in [Endpoints -> CollectorState] /\ optional' \in [Endpoints -> OptionalState]
        /\ tailer' \in [Endpoints -> BOOLEAN] /\ app' \in AppState /\ input' \in BOOLEAN
    BY DEF RuntimeDropped, CollectorState, OptionalState, AppState
  <2> QED BY <2>1 DEF TypeOK, RuntimeDropped, usageVars, screenVars
<1>2. AttemptsAlternate'
  BY NothingSent DEF RuntimeDropped
<1>3. OneUsageQuery'
  BY UsageAlone DEF RuntimeDropped, usageVars
<1>4. Configured'
  BY DEF Configured, RuntimeDropped
<1> QED BY <1>1, <1>2, <1>3, <1>4

-----------------------------------------------------------------------------
(* The main loop.                                                          *)

LEMMA IterationEnds ==
  ASSUME TypeOK, NEW quit \in BOOLEAN, NEW d \in BOOLEAN, EndIteration(quit, d)
  PROVE  /\ app' \in AppState /\ dirty' \in BOOLEAN /\ frameOld' \in BOOLEAN
         /\ receiver' \in BOOLEAN /\ (receiver' => receiver)
<1>1. app \in AppState /\ receiver \in BOOLEAN /\ dirty \in BOOLEAN /\ frameOld \in BOOLEAN
  BY DEF TypeOK
<1>2. app' \in AppState
  BY <1>1 DEF EndIteration, AppState
<1>3. receiver' \in BOOLEAN /\ (receiver' => receiver)
  <2>1. receiver' = receiver \/ receiver' = FALSE
    BY DEF EndIteration
  <2> QED BY <1>1, <2>1, Closes
<1>4. dirty' \in BOOLEAN
  <2>1. dirty' = d \/ dirty' = (d /\ ~ MayDraw(d)) \/ dirty' = dirty
    BY DEF EndIteration
  <2>2. (d /\ ~ MayDraw(d)) \in BOOLEAN
    BY Zenon
  <2> QED BY <1>1, <2>1, <2>2, Zenon
<1>5. frameOld' \in BOOLEAN
  <2>1. frameOld' = frameOld \/ frameOld' = (frameOld /\ ~ MayDraw(d))
    BY DEF EndIteration
  <2>2. (frameOld /\ ~ MayDraw(d)) \in BOOLEAN
    BY Zenon
  <2> QED BY <1>1, <2>1, <2>2, Zenon
<1> QED BY <1>2, <1>3, <1>4, <1>5

LEMMA QuerySpawned ==
  ASSUME TypeOK, NEW last \in {"none", "recent", "old"}, MaybeSpawnQuery(last)
  PROVE  query' \in QueryState /\ inFlight' \in BOOLEAN /\ lastQuery' \in {"none", "recent", "old"}
BY DEF TypeOK, MaybeSpawnQuery, QueryState

\* The oldest event is taken, and it is no usage result.
LEMMA NoUsageTaken ==
  ASSUME TypeOK, OneUsageQuery, channel # <<>>, channel' = Tail(channel), Head(channel).kind # "usage",
         receiver' => receiver,
         UNCHANGED <<query, inFlight>> \/ \E last \in {"none", "recent", "old"} : MaybeSpawnQuery(last)
  PROVE  OneUsageQuery'
<1> SUFFICES ASSUME receiver
             PROVE  /\ inFlight' = (query' # "none" \/ UsageIn(channel') # {})
                    /\ query' # "none" => UsageIn(channel') = {}
                    /\ \A i, j \in UsageIn(channel') : i = j
  BY DEF OneUsageQuery
<1>1. /\ UsageIn(channel') = {} <=> UsageIn(channel) = {}
      /\ \A i, j \in UsageIn(channel') : i = j
  BY UsageTaken DEF TypeOK, OneUsageQuery
<1>2. /\ inFlight' = (query' # "none" \/ UsageIn(channel) # {})
      /\ query' # "none" => UsageIn(channel) = {}
  BY DEF OneUsageQuery, MaybeSpawnQuery, QueryDue, TypeOK
<1> QED BY <1>1, <1>2

LEMMA AsideTaken ==
  ASSUME TypeOK, AttemptsAlternate, channel # <<>>, channel' = Tail(channel),
         Head(channel).kind \notin {"started", "scrape"}, UNCHANGED <<collector, scraping>>
  PROVE  AttemptsAlternate'
<1> SUFFICES ASSUME NEW e \in Endpoints
             PROVE  /\ Alternate(channel', e)
                    /\ NextFits(channel', e, scraping[e])
                    /\ collector[e] # "stopped" => LastFits(channel', e, scraping[e], Announced(e))
  BY DEF AttemptsAlternate, Announced
<1>1. channel \in Seq(Event) /\ ~ IsAttempt(Head(channel), e)
  BY DEF TypeOK, IsAttempt
<1> QED BY <1>1, OtherTaken DEF AttemptsAlternate

LEMMA AttemptTaken ==
  ASSUME TypeOK, AttemptsAlternate, channel # <<>>, channel' = Tail(channel), UNCHANGED collector,
         Head(channel).kind \in {"started", "scrape"},
         scraping' = [scraping EXCEPT ![Head(channel).ep] = (Head(channel).kind = "started")]
  PROVE  AttemptsAlternate'
<1>1. channel \in Seq(Event) /\ Head(channel) \in Event /\ Head(channel).ep \in Endpoints
  BY Taken, Kinds DEF TypeOK
<1> SUFFICES ASSUME NEW e \in Endpoints
             PROVE  /\ Alternate(channel', e)
                    /\ NextFits(channel', e, scraping'[e])
                    /\ collector[e] # "stopped" => LastFits(channel', e, scraping'[e], Announced(e))
  BY DEF AttemptsAlternate, Announced
<1>2. CASE Head(channel).ep = e
  <2>1. IsAttempt(Head(channel), e) /\ scraping'[e] = (Head(channel).kind = "started")
    BY <1>1, <1>2 DEF IsAttempt, TypeOK
  <2> QED BY <1>1, <2>1, OwnTaken DEF AttemptsAlternate
<1>3. CASE Head(channel).ep # e
  <2>1. ~ IsAttempt(Head(channel), e) /\ scraping'[e] = scraping[e]
    BY <1>1, <1>3 DEF IsAttempt, TypeOK
  <2> QED BY <1>1, <2>1, OtherTaken DEF AttemptsAlternate
<1> QED BY <1>2, <1>3

LEMMA AfterTick == Inv /\ Tick => Inv'
<1> SUFFICES ASSUME Inv, Tick PROVE Inv'
  OBVIOUS
<1> USE DEF Inv
<1>1. DataDirty \in BOOLEAN /\ lastQuery \in {"none", "recent", "old"}
  BY DEF TypeOK, DataDirty
<1>2. /\ app' \in AppState /\ dirty' \in BOOLEAN /\ frameOld' \in BOOLEAN
      /\ receiver' \in BOOLEAN /\ (receiver' => receiver)
  BY <1>1, IterationEnds DEF Tick
<1>3. query' \in QueryState /\ inFlight' \in BOOLEAN /\ lastQuery' \in {"none", "recent", "old"}
  BY <1>1, QuerySpawned DEF Tick
<1>4. TypeOK'
  BY <1>2, <1>3, SMT DEF TypeOK, Tick, taskVars
<1>5. AttemptsAlternate'
  BY NothingSent DEF Tick, taskVars
<1>6. OneUsageQuery'
  <2>1. UNCHANGED channel
    BY DEF Tick
  <2> QED BY <1>2, <2>1 DEF OneUsageQuery, Tick, MaybeSpawnQuery, QueryDue, TypeOK, UsageIn
<1> QED BY <1>4, <1>5, <1>6, ConfiguredKept DEF Tick, taskVars

LEMMA AfterHandle == Inv /\ Handle => Inv'
<1> SUFFICES ASSUME Inv, Handle PROVE Inv'
  OBVIOUS
<1> USE DEF Inv
<1> DEFINE m == Head(channel)
<1>1. channel # <<>> /\ channel' = Tail(channel) /\ UNCHANGED taskVars
  BY DEF Handle
<1>2. m \in Event /\ channel' \in Seq(Event) /\ Len(channel') <= ChannelCapacity
  BY <1>1, Taken, ChannelCapacityAssumption, SMT DEF TypeOK
<1>3. OnStarted(m) \/ OnScrape(m) \/ OnOptionalOrLog(m) \/ OnUsage(m) \/ OnKey(m) \/ OnInputClosed(m)
  BY DEF Handle
<1> HIDE DEF m
<1>4. DataDirty \in BOOLEAN /\ dirty \in BOOLEAN
  BY DEF TypeOK, DataDirty
<1>5. Configured'
  BY <1>1, ConfiguredKept DEF taskVars
<1>6. ASSUME app' \in AppState /\ dirty' \in BOOLEAN /\ frameOld' \in BOOLEAN /\ receiver' \in BOOLEAN,
             scraping' \in [Endpoints -> BOOLEAN],
             query' \in QueryState /\ inFlight' \in BOOLEAN /\ lastQuery' \in {"none", "recent", "old"},
             paused' \in BOOLEAN /\ help' \in BOOLEAN
      PROVE  TypeOK'
  BY <1>1, <1>2, <1>6, SMT DEF TypeOK, taskVars
<1>7. CASE OnStarted(m) \/ OnScrape(m)
  <2>1. EndIteration(FALSE, DataDirty) /\ UNCHANGED <<usageVars, paused, help>>
    BY <1>7 DEF OnStarted, OnScrape
  <2>2. /\ app' \in AppState /\ dirty' \in BOOLEAN /\ frameOld' \in BOOLEAN
        /\ receiver' \in BOOLEAN /\ (receiver' => receiver)
    BY <1>4, <2>1, IterationEnds
  <2>3. m.kind \in {"started", "scrape"} /\ m.kind # "usage"
        /\ scraping' = [scraping EXCEPT ![m.ep] = (m.kind = "started")]
    BY <1>2, <1>7, Kinds DEF OnStarted, OnScrape, ClearsScraping, TypeOK
  <2>4. scraping' \in [Endpoints -> BOOLEAN]
    BY <2>3 DEF TypeOK
  <2>5. TypeOK'
    BY <1>6, <2>1, <2>2, <2>4 DEF TypeOK, usageVars
  <2>6. AttemptsAlternate'
    BY <1>1, <2>3, AttemptTaken DEF m, taskVars
  <2>7. OneUsageQuery'
    BY <1>1, <2>1, <2>2, <2>3, NoUsageTaken DEF m, usageVars
  <2> QED BY <1>5, <2>5, <2>6, <2>7
<1>8. CASE OnOptionalOrLog(m)
  <2>1. EndIteration(FALSE, DataDirty) /\ UNCHANGED <<scraping, usageVars, paused, help>>
    BY <1>8 DEF OnOptionalOrLog
  <2>2. /\ app' \in AppState /\ dirty' \in BOOLEAN /\ frameOld' \in BOOLEAN
        /\ receiver' \in BOOLEAN /\ (receiver' => receiver)
    BY <1>4, <2>1, IterationEnds
  <2>3. m.kind \notin {"started", "scrape", "usage"}
    BY <1>8 DEF OnOptionalOrLog
  <2>4. TypeOK'
    BY <1>6, <2>1, <2>2 DEF TypeOK, usageVars
  <2>5. AttemptsAlternate'
    BY <1>1, <2>1, <2>3, AsideTaken DEF m, taskVars
  <2>6. OneUsageQuery'
    BY <1>1, <2>1, <2>2, <2>3, NoUsageTaken DEF m, usageVars
  <2> QED BY <1>5, <2>4, <2>5, <2>6
<1>9. CASE OnUsage(m)
  <2>1. m.kind = "usage" /\ EndIteration(FALSE, DataDirty) /\ inFlight' = FALSE
        /\ UNCHANGED <<scraping, query, lastQuery, paused, help>>
    BY <1>9 DEF OnUsage, LandsQuery, TypeOK
  <2>2. /\ app' \in AppState /\ dirty' \in BOOLEAN /\ frameOld' \in BOOLEAN
        /\ receiver' \in BOOLEAN /\ (receiver' => receiver)
    BY <1>4, <2>1, IterationEnds
  <2>3. TypeOK'
    BY <1>6, <2>1, <2>2 DEF TypeOK
  <2>4. AttemptsAlternate'
    BY <1>1, <2>1, AsideTaken DEF m, taskVars
  <2>5. OneUsageQuery'
    <3> SUFFICES ASSUME receiver PROVE query' = "none" /\ UsageIn(channel') = {}
      BY <2>1, <2>2 DEF OneUsageQuery
    <3>1. UsageIn(channel) # {} /\ UsageIn(channel') = {}
      BY <1>1, <2>1, UsageTaken DEF m, TypeOK, OneUsageQuery
    <3> QED BY <2>1, <3>1 DEF OneUsageQuery
  <2> QED BY <1>5, <2>3, <2>4, <2>5
<1>10. CASE OnKey(m)
  <2>1. m.kind = "key" /\ EndIteration(Quits(m), TRUE) /\ UNCHANGED scraping
        /\ (MaybeSpawnQuery("none") \/ UNCHANGED usageVars)
    BY <1>10 DEF OnKey
  <2>2. Quits(m) \in BOOLEAN /\ paused' \in BOOLEAN /\ help' \in BOOLEAN
    BY <1>10 DEF OnKey, Quits, TypeOK
  <2>3. /\ app' \in AppState /\ dirty' \in BOOLEAN /\ frameOld' \in BOOLEAN
        /\ receiver' \in BOOLEAN /\ (receiver' => receiver)
    BY <2>1, <2>2, IterationEnds
  <2>4. query' \in QueryState /\ inFlight' \in BOOLEAN /\ lastQuery' \in {"none", "recent", "old"}
    BY <2>1, QuerySpawned DEF TypeOK, usageVars
  <2>5. TypeOK'
    BY <1>6, <2>1, <2>2, <2>3, <2>4 DEF TypeOK
  <2>6. AttemptsAlternate'
    BY <1>1, <2>1, AsideTaken DEF m, taskVars
  <2>7. OneUsageQuery'
    BY <1>1, <2>1, <2>3, NoUsageTaken DEF m, usageVars
  <2> QED BY <1>5, <2>5, <2>6, <2>7
<1>11. CASE OnInputClosed(m)
  <2>1. m.kind = "closed" /\ EndIteration(TRUE, dirty) /\ UNCHANGED <<scraping, usageVars, paused, help>>
    BY <1>11 DEF OnInputClosed
  <2>2. /\ app' \in AppState /\ dirty' \in BOOLEAN /\ frameOld' \in BOOLEAN
        /\ receiver' \in BOOLEAN /\ (receiver' => receiver)
    BY <1>4, <2>1, IterationEnds
  <2>3. TypeOK'
    BY <1>6, <2>1, <2>2 DEF TypeOK, usageVars
  <2>4. AttemptsAlternate'
    BY <1>1, <2>1, AsideTaken DEF m, taskVars
  <2>5. OneUsageQuery'
    BY <1>1, <2>1, <2>2, NoUsageTaken DEF m, usageVars
  <2> QED BY <1>5, <2>3, <2>4, <2>5
<1> QED BY <1>3, <1>7, <1>8, <1>9, <1>10, <1>11

-----------------------------------------------------------------------------
LEMMA Preserved == Inv /\ [Next]_vars => Inv'
<1> SUFFICES ASSUME Inv, [Next]_vars PROVE Inv'
  OBVIOUS
<1>1. CASE UNCHANGED vars
  BY <1>1 DEF Inv, TypeOK, Configured, AttemptsAlternate, Announced, OneUsageQuery, vars, taskVars,
              usageVars, screenVars
<1>2. CASE Exited
  BY <1>1, <1>2 DEF Exited
<1> QED BY <1>1, <1>2, AfterStartAttempt, AfterSendStarted, AfterFinishPoll, AfterSendScrape, AfterProbes,
           AfterTailerTick, AfterInput, AfterFinishQuery, AfterSendUsage, AfterQuietStep, AfterTick,
           AfterHandle, AfterRuntimeDropped DEF Next

LEMMA AlwaysInv == Spec => []Inv
BY Initial, Preserved, PTL DEF Spec

\* The channel never holds more events than its capacity, whoever sends.
THEOREM ChannelIsBounded == Spec => []TypeOK
BY AlwaysInv, PTL DEF Inv

\* The main loop sees the announcements and outcomes of each endpoint in turn,
\* and its spinner is on exactly between the two.
THEOREM AttemptsStayInOrder == Spec => []AttemptsAlternate
BY AlwaysInv, PTL DEF Inv

\* At most one usage query is in flight, and the flag tells so.
THEOREM OneQueryAtATime == Spec => []OneUsageQuery
BY AlwaysInv, PTL DEF Inv
=============================================================================
