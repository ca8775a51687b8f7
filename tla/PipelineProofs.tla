--------------------------- MODULE PipelineProofs ---------------------------
(***************************************************************************)
(* Proofs about the way from a server's text to what is shown of it: the   *)
(* parser, the join of capacities, and the rings.                          *)
(***************************************************************************)
EXTENDS MetricsPipeline, FoldTheorems

-----------------------------------------------------------------------------
(* The join of the engines' KV capacities onto the series, for any texts:  *)
(* no capacity is given to two series, and none crosses from one named     *)
(* engine to another.                                                      *)

LEMMA OnlyMember ==
  ASSUME NEW S, IsFiniteSet(S), Cardinality(S) = 1, NEW x \in S, NEW y \in S
  PROVE  x = y
<1>1. PICK z : S = {z}
  BY FS_Singleton
<1> QED BY <1>1

\* Each series' claim is an entry there is, and of its own engine unless one of
\* the two is not named.
LEMMA ClaimIsOwn ==
  ASSUME NEW keys, NEW capacities, IsFiniteSet(DOMAIN capacities),
         NEW k \in DOMAIN Claims(keys, capacities)
  PROVE  LET entry == Claims(keys, capacities)[k] IN
         /\ k \in keys
         /\ entry \in DOMAIN capacities
         /\ entry = k.engine \/ NoEngine \in {entry, k.engine}
<1> DEFINE entry == Claims(keys, capacities)[k]
<1>1. /\ k \in keys
      /\ \/ k.engine \in DOMAIN capacities
         \/ Lone(capacities) /\ NoEngine \in DOMAIN capacities \cup {k.engine}
      /\ entry = IF k.engine \in DOMAIN capacities THEN k.engine ELSE CHOOSE e \in DOMAIN capacities : TRUE
  BY DEF Claims
<1>2. CASE k.engine \in DOMAIN capacities
  BY <1>1, <1>2
<1>3. CASE k.engine \notin DOMAIN capacities
  <2>1. PICK only : DOMAIN capacities = {only}
    BY <1>1, <1>3, FS_Singleton DEF Lone
  <2>2. entry = only
    BY <1>1, <1>3, <2>1
  <2> QED BY <1>1, <1>3, <2>1, <2>2
<1> QED BY <1>2, <1>3

\* normalize.rs:407: attributing one engine's capacities to each of two models
\* would double-count it, and an engine-1 series must not claim engine-0's.
THEOREM CapacityHasOneOwner ==
  ASSUME NEW keys, NEW capacities, IsFiniteSet(keys), IsFiniteSet(DOMAIN capacities)
  PROVE  LET claims == Claims(keys, capacities)
             joined == Joined(keys, capacities) IN
         /\ joined \subseteq keys
         /\ \A k \in joined :
              /\ claims[k] \in DOMAIN capacities
              /\ claims[k] = k.engine \/ NoEngine \in {claims[k], k.engine}
         /\ \A k, l \in joined : claims[k] = claims[l] => k = l
<1> DEFINE claims == Claims(keys, capacities)
           joined == Joined(keys, capacities)
<1>1. joined \subseteq DOMAIN claims
  BY DEF Joined
<1>2. DOMAIN claims \subseteq keys
  BY DEF Claims
<1>3. ASSUME NEW k \in joined, NEW l \in joined, claims[k] = claims[l]
      PROVE  k = l
  <2> DEFINE S == Claimants(claims, claims[k])
  <2>1. S \subseteq keys /\ Cardinality(S) = 1
    BY <1>2 DEF Claimants, Joined
  <2>2. IsFiniteSet(S)
    BY <2>1, FS_Subset
  <2>3. k \in S /\ l \in S
    BY <1>1, <1>3 DEF Claimants
  <2> HIDE DEF S
  <2> QED BY <2>1, <2>2, <2>3, OnlyMember
<1> QED BY <1>1, <1>2, <1>3, ClaimIsOwn

-----------------------------------------------------------------------------
(* The parser.                                                             *)

\* What may come out of the lines of a text.
NamesOf(lines) ==
  {lines[i].name : i \in DOMAIN lines} \cup {<<lines[i].name[1], "">> : i \in DOMAIN lines}

SampleType(lines) ==
  [name : NamesOf(lines), labels : {lines[i].labels : i \in DOMAIN lines},
   value : {lines[i].tokens[1].v : i \in DOMAIN lines}]

FamilyType(lines) ==
  [name : NamesOf(lines), kind : KnownKinds \cup {"untyped"}, samples : Seq(SampleType(lines))]

OutType(lines) ==
  [families : Seq(FamilyType(lines)), issues : Seq({lines[i] : i \in DOMAIN lines}),
   issue_count : Nat]

NewFamily(name) == [name |-> name, kind |-> "untyped", samples |-> <<>>]

\* A name that has a family finds it.
LEMMA IndexIs ==
  ASSUME NEW out, NEW name, Named(out, name) # {}
  PROVE  IndexOf(out, name) \in DOMAIN out.families /\ out.families[IndexOf(out, name)].name = name
  BY DEF IndexOf, Named

Added(out, name, known) ==
  /\ Named(out, name) = {}
  /\ Len(known.families) = Len(out.families) + 1
  /\ \A i \in 1 .. Len(out.families) : known.families[i] = out.families[i]
  /\ known.families[Len(out.families) + 1] = NewFamily(name)

\* ensure_family leaves the families there are and may add an empty one.
LEMMA EnsuredIs ==
  ASSUME NEW lines, NEW out \in OutType(lines), NEW name \in NamesOf(lines)
  PROVE  LET known == ensure_family(out, name) IN
         /\ known \in OutType(lines)
         /\ known.issues = out.issues /\ known.issue_count = out.issue_count
         /\ (known = out /\ Named(out, name) # {}) \/ Added(out, name, known)
         /\ IndexOf(known, name) \in DOMAIN known.families
         /\ known.families[IndexOf(known, name)].name = name
<1> DEFINE known == ensure_family(out, name)
<1>1. CASE Named(out, name) # {}
  <2>1. known = out
    BY <1>1 DEF ensure_family
  <2>2. IndexOf(out, name) \in DOMAIN out.families /\ out.families[IndexOf(out, name)].name = name
    BY <1>1, IndexIs
  <2> QED BY <1>1, <2>1, <2>2
<1>2. CASE Named(out, name) = {}
  <2> DEFINE new == NewFamily(name)
             fam == Append(out.families, new)
  <2>1. known = [out EXCEPT !.families = fam]
    BY <1>2 DEF ensure_family, NewFamily
  <2>2. new \in FamilyType(lines) /\ new.name = name
    BY DEF FamilyType, NewFamily
  <2>3. out.families \in Seq(FamilyType(lines))
    BY DEF OutType
  <2> HIDE DEF new
  <2>4. /\ fam \in Seq(FamilyType(lines)) /\ Len(fam) = Len(out.families) + 1
        /\ Len(out.families) \in Nat
        /\ \A i \in 1 .. Len(out.families) : fam[i] = out.families[i]
        /\ fam[Len(out.families) + 1] = new
    BY <2>2, <2>3, SMT
  <2> HIDE DEF fam
  <2>5. /\ known \in OutType(lines) /\ known.families = fam
        /\ known.issues = out.issues /\ known.issue_count = out.issue_count
    BY <2>1, <2>4 DEF OutType
  <2>6. Len(out.families) + 1 \in DOMAIN fam
    BY <2>4, SMT
  <2>7. Len(out.families) + 1 \in Named(known, name)
    BY <2>2, <2>4, <2>5, <2>6 DEF Named
  <2> HIDE DEF known
  <2>8. IndexOf(known, name) \in DOMAIN known.families /\ known.families[IndexOf(known, name)].name = name
    BY <2>7, IndexIs
  <2> QED BY <1>2, <2>4, <2>5, <2>8 DEF known, new, Added
<1> QED BY <1>1, <1>2

\* A sample that is appended to one family leaves the others alone.
LEMMA SampleAdded ==
  ASSUME NEW lines, NEW out \in OutType(lines), NEW j \in DOMAIN out.families,
         NEW s \in SampleType(lines)
  PROVE  LET new == [out EXCEPT !.families[j].samples = Append(@, s)] IN
         /\ new \in OutType(lines)
         /\ new.issues = out.issues /\ new.issue_count = out.issue_count
         /\ Len(new.families) = Len(out.families)
         /\ \A i \in DOMAIN out.families :
              /\ new.families[i].name = out.families[i].name
              /\ new.families[i].kind = out.families[i].kind
              /\ i # j => new.families[i].samples = out.families[i].samples
         /\ new.families[j].samples = Append(out.families[j].samples, s)
<1> DEFINE fam == [out.families EXCEPT ![j].samples = Append(@, s)]
           new == [out EXCEPT !.families[j].samples = Append(@, s)]
<1>1. out.families \in Seq(FamilyType(lines)) /\ out = [out EXCEPT !.families = out.families]
  BY DEF OutType
<1>2. out.families[j] \in FamilyType(lines)
  BY <1>1
<1>3. Append(out.families[j].samples, s) \in Seq(SampleType(lines))
  BY <1>2 DEF FamilyType
<1>4. /\ fam \in Seq(FamilyType(lines)) /\ Len(fam) = Len(out.families)
      /\ \A i \in DOMAIN out.families : i # j => fam[i] = out.families[i]
      /\ fam[j] = [out.families[j] EXCEPT !.samples = Append(@, s)]
  <2> DEFINE f == [out.families[j] EXCEPT !.samples = Append(@, s)]
  <2>1. f \in FamilyType(lines)
    BY <1>2, <1>3 DEF FamilyType
  <2>2. fam = [out.families EXCEPT ![j] = f]
    OBVIOUS
  <2> HIDE DEF f, fam
  <2>3. /\ fam \in Seq(FamilyType(lines)) /\ Len(fam) = Len(out.families)
        /\ \A i \in DOMAIN out.families : i # j => fam[i] = out.families[i]
        /\ fam[j] = f
    BY <1>1, <2>1, <2>2
  <2> QED BY <2>3 DEF f
<1>5. /\ fam[j].name = out.families[j].name /\ fam[j].kind = out.families[j].kind
      /\ fam[j].samples = Append(out.families[j].samples, s)
  BY <1>2, <1>4 DEF FamilyType
<1>6. new = [out EXCEPT !.families = fam]
  OBVIOUS
<1> HIDE DEF fam
<1>7. new \in OutType(lines) /\ new.families = fam
      /\ new.issues = out.issues /\ new.issue_count = out.issue_count
  BY <1>4, <1>6 DEF OutType
<1> QED BY <1>4, <1>5, <1>7

\* ... as does a kind that is declared.
LEMMA KindSet ==
  ASSUME NEW lines, NEW out \in OutType(lines), NEW j \in DOMAIN out.families,
         NEW k \in KnownKinds \cup {"untyped"}
  PROVE  LET new == [out EXCEPT !.families[j].kind = k] IN
         /\ new \in OutType(lines)
         /\ new.issues = out.issues /\ new.issue_count = out.issue_count
         /\ Len(new.families) = Len(out.families)
         /\ \A i \in DOMAIN out.families :
              /\ new.families[i].name = out.families[i].name
              /\ new.families[i].samples = out.families[i].samples
              /\ i # j => new.families[i].kind = out.families[i].kind
         /\ new.families[j].kind = k
<1> DEFINE f == [out.families[j] EXCEPT !.kind = k]
           fam == [out.families EXCEPT ![j] = f]
           new == [out EXCEPT !.families[j].kind = k]
<1>1. out.families \in Seq(FamilyType(lines))
  BY DEF OutType
<1>2. out.families[j] \in FamilyType(lines)
  BY <1>1
<1>3. /\ f \in FamilyType(lines) /\ f.kind = k
      /\ f.name = out.families[j].name /\ f.samples = out.families[j].samples
  BY <1>2 DEF FamilyType
<1>4. new = [out EXCEPT !.families = fam]
  OBVIOUS
<1> HIDE DEF f
<1>5. /\ fam \in Seq(FamilyType(lines)) /\ Len(fam) = Len(out.families)
      /\ \A i \in DOMAIN out.families : i # j => fam[i] = out.families[i]
      /\ fam[j] = f
  BY <1>1, <1>3
<1> HIDE DEF fam
<1>6. new \in OutType(lines) /\ new.families = fam
      /\ new.issues = out.issues /\ new.issue_count = out.issue_count
  BY <1>4, <1>5 DEF OutType
<1> QED BY <1>3, <1>5, <1>6

\* The family a sample is given to is of its name, or of its base.
LEMMA OwnerIs ==
  ASSUME NEW lines, NEW i \in DOMAIN lines, NEW out
  PROVE  /\ Owner(out, lines[i].name) \in {lines[i].name, <<lines[i].name[1], "">>}
         /\ Owner(out, lines[i].name) \in NamesOf(lines)
  BY DEF Owner, NamesOf

TheSample(line) == [name |-> line.name, labels |-> line.labels, value |-> line.tokens[1].v]

LEMMA SampleIsTyped ==
  ASSUME NEW lines, NEW i \in DOMAIN lines
  PROVE  TheSample(lines[i]) \in SampleType(lines)
  BY DEF TheSample, SampleType, NamesOf

\* What one line does to the families: a new one may come, and one gets one
\* more sample or another kind.
LEMMA AttachedIs ==
  ASSUME NEW lines, NEW out \in OutType(lines), NEW i \in DOMAIN lines
  PROVE  LET owner == Owner(out, lines[i].name)
             known == ensure_family(out, owner)
             j == IndexOf(known, owner)
             new == attach_sample(out, lines[i]) IN
         /\ known \in OutType(lines) /\ new \in OutType(lines)
         /\ new.issues = out.issues /\ new.issue_count = out.issue_count
         /\ j \in DOMAIN known.families /\ known.families[j].name = owner
         /\ Len(new.families) = Len(known.families)
         /\ \A x \in DOMAIN known.families :
              /\ new.families[x].name = known.families[x].name
              /\ new.families[x].kind = known.families[x].kind
              /\ x # j => new.families[x].samples = known.families[x].samples
         /\ new.families[j].samples = Append(known.families[j].samples, TheSample(lines[i]))
<1> DEFINE owner == Owner(out, lines[i].name)
           known == ensure_family(out, owner)
           j == IndexOf(known, owner)
           s == TheSample(lines[i])
           new == [known EXCEPT !.families[j].samples = Append(@, s)]
<1>1. attach_sample(out, lines[i]) = new
  BY DEF attach_sample, TheSample
<1>2. owner \in NamesOf(lines)
  BY OwnerIs
<1> HIDE DEF owner
<1>3. /\ known \in OutType(lines)
      /\ known.issues = out.issues /\ known.issue_count = out.issue_count
      /\ j \in DOMAIN known.families /\ known.families[j].name = owner
  BY <1>2, EnsuredIs
<1>4. s \in SampleType(lines)
  BY SampleIsTyped
<1> HIDE DEF known, j, s
<1>5. /\ new \in OutType(lines)
      /\ new.issues = known.issues /\ new.issue_count = known.issue_count
      /\ Len(new.families) = Len(known.families)
      /\ \A x \in DOMAIN known.families :
              /\ new.families[x].name = known.families[x].name
              /\ new.families[x].kind = known.families[x].kind
              /\ x # j => new.families[x].samples = known.families[x].samples
      /\ new.families[j].samples = Append(known.families[j].samples, s)
  BY <1>3, <1>4, SampleAdded
<1> HIDE DEF new
<1> QED BY <1>1, <1>3, <1>5 DEF owner, known, j, s

LEMMA CommentedIs ==
  ASSUME NEW lines, NEW out \in OutType(lines), NEW i \in DOMAIN lines
  PROVE  LET known == ensure_family(out, lines[i].name)
             j == IndexOf(known, lines[i].name)
             new == handle_comment(out, lines[i]) IN
         /\ known \in OutType(lines) /\ new \in OutType(lines)
         /\ new.issues = out.issues /\ new.issue_count = out.issue_count
         /\ j \in DOMAIN known.families /\ known.families[j].name = lines[i].name
         /\ Len(new.families) = Len(known.families)
         /\ \A x \in DOMAIN known.families :
              /\ new.families[x].name = known.families[x].name
              /\ new.families[x].samples = known.families[x].samples
              /\ x # j => new.families[x].kind = known.families[x].kind
         /\ lines[i].form # "help" /\ lines[i].kind \in KnownKinds => new.families[j].kind = lines[i].kind
         /\ lines[i].form = "help" => new = known
         /\ new.families[j].kind = "histogram" =>
              \/ known.families[j].kind = "histogram"
              \/ lines[i].form # "help" /\ lines[i].kind = "histogram"
<1> DEFINE name == lines[i].name
           known == ensure_family(out, name)
           j == IndexOf(known, name)
           k == IF lines[i].kind \in KnownKinds THEN lines[i].kind ELSE "untyped"
           new == [known EXCEPT !.families[j].kind = k]
<1>1. handle_comment(out, lines[i]) = IF lines[i].form = "help" THEN known ELSE new
  BY DEF handle_comment
<1>2. name \in NamesOf(lines)
  BY DEF NamesOf
<1> HIDE DEF name
<1>3. /\ known \in OutType(lines)
      /\ known.issues = out.issues /\ known.issue_count = out.issue_count
      /\ j \in DOMAIN known.families /\ known.families[j].name = name
  BY <1>2, EnsuredIs
<1>4. /\ k \in KnownKinds \cup {"untyped"} /\ (lines[i].kind \in KnownKinds => k = lines[i].kind)
      /\ k = "histogram" => lines[i].kind = "histogram"
  OBVIOUS
<1> HIDE DEF known, j, k
<1>5. /\ new \in OutType(lines)
      /\ new.issues = known.issues /\ new.issue_count = known.issue_count
      /\ Len(new.families) = Len(known.families)
      /\ \A x \in DOMAIN known.families :
              /\ new.families[x].name = known.families[x].name
              /\ new.families[x].samples = known.families[x].samples
              /\ x # j => new.families[x].kind = known.families[x].kind
      /\ new.families[j].kind = k
  BY <1>3, <1>4, KindSet
<1> HIDE DEF new
<1> QED BY <1>1, <1>3, <1>4, <1>5 DEF name, known, j

LEMMA IssueIs ==
  ASSUME NEW lines, NEW out \in OutType(lines), NEW i \in DOMAIN lines
  PROVE  LET new == record_issue(out, lines[i]) IN
         /\ new \in OutType(lines)
         /\ new.families = out.families
         /\ new.issue_count = out.issue_count + 1
         /\ Len(new.issues) = IF Len(out.issues) >= MaxIssues THEN Len(out.issues) ELSE Len(out.issues) + 1
         /\ Len(out.issues) \in Nat /\ out.issue_count \in Nat
<1> DEFINE iss == IF Len(out.issues) >= MaxIssues THEN out.issues ELSE Append(out.issues, lines[i])
           new == [out EXCEPT !.issue_count = out.issue_count + 1, !.issues = iss]
<1>1. record_issue(out, lines[i]) = new
  BY DEF record_issue
<1>2. out.issues \in Seq({lines[x] : x \in DOMAIN lines}) /\ out.issue_count \in Nat
  BY DEF OutType
<1>3. /\ iss \in Seq({lines[x] : x \in DOMAIN lines})
      /\ Len(iss) = IF Len(out.issues) >= MaxIssues THEN Len(out.issues) ELSE Len(out.issues) + 1
  <2>1. lines[i] \in {lines[x] : x \in DOMAIN lines}
    OBVIOUS
  <2> DEFINE S == {lines[x] : x \in DOMAIN lines}
  <2> HIDE DEF S
  <2>2. /\ Append(out.issues, lines[i]) \in Seq(S) /\ Len(Append(out.issues, lines[i])) = Len(out.issues) + 1
    BY <1>2, <2>1 DEF S
  <2> QED BY <1>2, <2>2 DEF S
<1> HIDE DEF iss
<1>4. /\ new \in OutType(lines) /\ new.families = out.families /\ new.issues = iss
      /\ new.issue_count = out.issue_count + 1
  <2> DEFINE S == {lines[x] : x \in DOMAIN lines}
             c == out.issue_count + 1
  <2>1. c \in Nat /\ iss \in Seq(S)
    BY <1>2, <1>3
  <2>2. out \in [families : Seq(FamilyType(lines)), issues : Seq(S), issue_count : Nat]
    BY DEF OutType
  <2> HIDE DEF S, c
  <2>3. /\ [out EXCEPT !.issue_count = c, !.issues = iss]
             \in [families : Seq(FamilyType(lines)), issues : Seq(S), issue_count : Nat]
        /\ [out EXCEPT !.issue_count = c, !.issues = iss].families = out.families
        /\ [out EXCEPT !.issue_count = c, !.issues = iss].issues = iss
        /\ [out EXCEPT !.issue_count = c, !.issues = iss].issue_count = c
    BY <2>1, <2>2
  <2> QED BY <2>3 DEF S, c, OutType
<1>5. Len(out.issues) \in Nat
  BY <1>2
<1> QED BY <1>1, <1>2, <1>3, <1>4, <1>5

LEMMA LineType ==
  ASSUME NEW lines, NEW out \in OutType(lines), NEW i \in DOMAIN lines
  PROVE  Line(out, lines[i]) \in OutType(lines)
<1>1. handle_comment(out, lines[i]) \in OutType(lines)
  BY CommentedIs
<1>2. attach_sample(out, lines[i]) \in OutType(lines)
  BY AttachedIs
<1>3. record_issue(out, lines[i]) \in OutType(lines)
  BY IssueIs
<1> QED BY <1>1, <1>2, <1>3 DEF Line

IsList(lines) == Len(lines) \in Nat /\ DOMAIN lines = 1 .. Len(lines)

\* The parser's passes over a text, from line to line.
LEMMA ParsedIs ==
  ASSUME NEW lines, IsList(lines)
  PROVE  \E c \in [0 .. Len(lines) -> OutType(lines)] :
           /\ c[0] = NoText
           /\ \A i \in 1 .. Len(lines) : c[i] = Line(c[i - 1], lines[i])
           /\ parse_text(lines) = c[Len(lines)]
<1> DEFINE n == Len(lines)
           V == OutType(lines)
           step == [p \in (1 .. n) \X V |-> Line(p[2], lines[p[1]])]
           P(g) == g = [i \in 0 .. n |-> IF i = 0 THEN NoText ELSE Line(g[i - 1], lines[i])]
           G == CHOOSE g : P(g)
<1>1. n \in Nat /\ DOMAIN lines = 1 .. n
  BY DEF IsList
<1>2. parse_text(lines) = G[n]
  BY DEF parse_text, Fold
<1>3. NoText \in V
  BY SMT DEF OutType, NoText
<1>4. \A i \in 1 .. n, o \in V : Line(o, lines[i]) \in V
  BY <1>1, LineType
<1> HIDE DEF V, n
<1>5. step \in [(1 .. n) \X V -> V]
  BY <1>4
<1>6. \A i \in 1 .. n, o \in V : step[<<i, o>>] = Line(o, lines[i])
  OBVIOUS
<1> HIDE DEF step
<1>7. PICK c \in [0 .. n -> V] : IsChain(c, step, NoText, n)
  BY <1>1, <1>3, <1>5, ChainExists
<1>8. \A i \in 0 .. n : c[i] \in V /\ (i # 0 => i - 1 \in 0 .. n /\ i \in 1 .. n)
  BY <1>1, <1>7
<1>9. \A i \in 0 .. n : c[i] = IF i = 0 THEN NoText ELSE Line(c[i - 1], lines[i])
  BY <1>6, <1>7, <1>8 DEF IsChain
<1>10. c = [i \in 0 .. n |-> c[i]]
  BY <1>7
<1>11. P(c)
  BY <1>9, <1>10
<1>12. P(G)
  <2> HIDE DEF P
  <2> QED BY <1>11, Zenon
<1> HIDE DEF G
<1>13. G \in [0 .. n -> V]
  <2> DEFINE T == {i \in 0 .. n : G[i] \notin V}
  <2>1. SUFFICES ASSUME T # {} PROVE FALSE
    BY <1>12
  <2>2. T \in SUBSET Nat
    BY <1>1
  <2> HIDE DEF T
  <2>3. PICK i \in T : \A m \in T : i <= m
    BY <2>1, <2>2, LeastNatural
  <2>4. i \in 0 .. n /\ G[i] \notin V
    BY <2>3 DEF T
  <2>5. i # 0
    BY <1>3, <1>12, <2>4
  <2>6. i - 1 \in 0 .. n /\ i \in 1 .. n
    BY <1>1, <2>4, <2>5
  <2>7. G[i - 1] \in V
    BY <2>2, <2>3, <2>6 DEF T
  <2>8. G[i] = Line(G[i - 1], lines[i])
    BY <1>12, <2>4, <2>5
  <2> QED BY <1>4, <2>4, <2>6, <2>7, <2>8
<1>14. 0 \in 0 .. n /\ G[0] = NoText /\ \A i \in 1 .. n : G[i] = Line(G[i - 1], lines[i])
  BY <1>1, <1>12
<1> QED BY <1>2, <1>13, <1>14 DEF V, n

LEMMA IntervalIsFinite == \A n \in Nat : IsFiniteSet(1 .. n)
BY FS_Interval

\* One more number, zero.
LEMMA TotalOfOneMore ==
  ASSUME NEW n \in Nat, NEW f, NEW e, \A x \in 1 .. n : f[x] \in Int /\ e[x] = f[x], e[n + 1] = 0
  PROVE  Total(e, 1 .. n + 1) = Total(f, 1 .. n)
<1> DEFINE S == 1 .. n
           m == n + 1
           T == 1 .. m
<1>1. m \in Nat /\ m \in T /\ T \ {m} = S
  OBVIOUS
<1>2. IsFiniteSet(T) /\ IsFiniteSet(S)
  BY <1>1, IntervalIsFinite
<1>3. \A x \in T : e[x] \in Int
  OBVIOUS
<1>4. e[m] = 0 /\ \A x \in S : f[x] \in Int /\ e[x] = f[x]
  OBVIOUS
<1> HIDE DEF S, T, m
<1>5. Total(e, T) = e[m] + Total(e, T \ {m})
  BY <1>1, <1>2, <1>3, TotalRemove
<1>6. Total(e, S) = Total(f, S) /\ Total(f, S) \in Int
  BY <1>2, <1>4, TotalEqual, TotalType
<1>7. Total(e, T) = Total(f, S)
  BY <1>1, <1>4, <1>5, <1>6
<1> QED BY <1>7 DEF S, T, m

\* One of the numbers grows by one.
LEMMA TotalOfOneGrown ==
  ASSUME NEW S, IsFiniteSet(S), NEW j \in S, NEW f, NEW e,
         \A x \in S : f[x] \in Int, e[j] = f[j] + 1, \A x \in S : x # j => e[x] = f[x]
  PROVE  Total(e, S) = Total(f, S) + 1
<1>1. \A x \in S : e[x] \in Int
  OBVIOUS
<1>2. Total(e, S) = e[j] + Total(e, S \ {j}) /\ Total(f, S) = f[j] + Total(f, S \ {j})
  BY <1>1, TotalRemove
<1>3. IsFiniteSet(S \ {j}) /\ \A x \in S \ {j} : f[x] \in Int /\ e[x] = f[x]
  BY FS_Subset
<1>4. Total(e, S \ {j}) = Total(f, S \ {j}) /\ Total(f, S \ {j}) \in Int
  BY <1>3, TotalEqual, TotalType
<1> QED BY <1>2, <1>4

\* How many samples the families have together.
Sizes(out) == [i \in DOMAIN out.families |-> Len(out.families[i].samples)]
Held(out) == Total(Sizes(out), DOMAIN out.families)

LEMMA SizesAre ==
  ASSUME NEW lines, NEW out \in OutType(lines)
  PROVE  /\ Len(out.families) \in Nat /\ DOMAIN out.families = 1 .. Len(out.families)
         /\ IsFiniteSet(DOMAIN out.families)
         /\ \A i \in DOMAIN out.families : Sizes(out)[i] = Len(out.families[i].samples) /\ Sizes(out)[i] \in Nat
<1>1. out.families \in Seq(FamilyType(lines))
  BY DEF OutType
<1>2. Len(out.families) \in Nat /\ DOMAIN out.families = 1 .. Len(out.families)
  BY <1>1
<1>3. ASSUME NEW i \in DOMAIN out.families PROVE Len(out.families[i].samples) \in Nat
  <2>1. out.families[i] \in FamilyType(lines)
    BY <1>1
  <2>2. out.families[i].samples \in Seq(SampleType(lines))
    BY <2>1 DEF FamilyType
  <2> QED BY <2>2
<1> QED BY <1>2, <1>3, IntervalIsFinite DEF Sizes

LEMMA EnsuredHolds ==
  ASSUME NEW lines, NEW out \in OutType(lines), NEW name \in NamesOf(lines)
  PROVE  Held(ensure_family(out, name)) = Held(out)
<1> DEFINE known == ensure_family(out, name)
           k == Len(out.families)
<1>1. known \in OutType(lines) /\ (known = out \/ Added(out, name, known))
  BY EnsuredIs
<1> HIDE DEF known
<1>2. CASE Added(out, name, known)
  <2>1. /\ k \in Nat /\ DOMAIN out.families = 1 .. k /\ DOMAIN known.families = 1 .. k + 1
        /\ \A i \in 1 .. k : Sizes(out)[i] = Len(out.families[i].samples) /\ Sizes(out)[i] \in Nat
        /\ \A i \in 1 .. k + 1 : Sizes(known)[i] = Len(known.families[i].samples)
    BY <1>1, <1>2, SizesAre DEF Added
  <2>2. /\ \A i \in 1 .. k : known.families[i] = out.families[i]
        /\ known.families[k + 1] = NewFamily(name)
    BY <1>2, <2>1 DEF Added
  <2>3. /\ \A i \in 1 .. k : Sizes(known)[i] = Sizes(out)[i] /\ i \in 1 .. k + 1
        /\ k + 1 \in 1 .. k + 1
    BY <2>1, <2>2
  <2>4. Sizes(known)[k + 1] = 0
    BY <2>1, <2>2, <2>3 DEF NewFamily
  <2>5. \A i \in 1 .. k : Sizes(out)[i] \in Int /\ Sizes(known)[i] = Sizes(out)[i]
    BY <2>1, <2>3
  <2> HIDE DEF k
  <2>6. Total(Sizes(known), 1 .. k + 1) = Total(Sizes(out), 1 .. k)
    BY <2>1, <2>4, <2>5, TotalOfOneMore
  <2> QED BY <2>1, <2>6 DEF Held, known
<1>3. CASE known = out
  BY <1>3 DEF known
<1> QED BY <1>1, <1>2, <1>3

\* A comment adds no sample, a sample that is attached adds one.
LEMMA CommentHolds ==
  ASSUME NEW lines, NEW out \in OutType(lines), NEW i \in DOMAIN lines
  PROVE  Held(handle_comment(out, lines[i])) = Held(out)
<1> DEFINE known == ensure_family(out, lines[i].name)
           new == handle_comment(out, lines[i])
<1>1. lines[i].name \in NamesOf(lines)
  BY DEF NamesOf
<1>2. Held(known) = Held(out)
  BY <1>1, EnsuredHolds
<1>3. /\ known \in OutType(lines) /\ new \in OutType(lines)
      /\ Len(new.families) = Len(known.families)
      /\ \A x \in DOMAIN known.families : new.families[x].samples = known.families[x].samples
  BY CommentedIs
<1> HIDE DEF known, new
<1>4. DOMAIN new.families = DOMAIN known.families /\ IsFiniteSet(DOMAIN known.families)
      /\ \A x \in DOMAIN known.families : Sizes(known)[x] \in Int /\ Sizes(new)[x] = Sizes(known)[x]
  BY <1>3, SizesAre
<1>5. Held(new) = Held(known)
  BY <1>4, TotalEqual DEF Held
<1> QED BY <1>2, <1>5 DEF new

LEMMA AttachHolds ==
  ASSUME NEW lines, NEW out \in OutType(lines), NEW i \in DOMAIN lines
  PROVE  Held(attach_sample(out, lines[i])) = Held(out) + 1
<1> DEFINE owner == Owner(out, lines[i].name)
           known == ensure_family(out, owner)
           j == IndexOf(known, owner)
           new == attach_sample(out, lines[i])
<1>1. owner \in NamesOf(lines)
  BY OwnerIs
<1> HIDE DEF owner
<1>2. Held(known) = Held(out)
  BY <1>1, EnsuredHolds
<1>3. /\ known \in OutType(lines) /\ new \in OutType(lines)
      /\ j \in DOMAIN known.families
      /\ Len(new.families) = Len(known.families)
      /\ \A x \in DOMAIN known.families : x # j => new.families[x].samples = known.families[x].samples
      /\ new.families[j].samples = Append(known.families[j].samples, TheSample(lines[i]))
  BY AttachedIs DEF owner
<1> HIDE DEF known, new, j
<1>4. /\ DOMAIN new.families = DOMAIN known.families /\ IsFiniteSet(DOMAIN known.families)
      /\ \A x \in DOMAIN known.families : Sizes(known)[x] \in Int
      /\ \A x \in DOMAIN known.families : x # j => Sizes(new)[x] = Sizes(known)[x]
  BY <1>3, SizesAre
<1>5. Sizes(new)[j] = Sizes(known)[j] + 1
  <2>1. known.families[j].samples \in Seq(SampleType(lines))
    <3>1. known.families \in Seq(FamilyType(lines))
      BY <1>3 DEF OutType
    <3>2. known.families[j] \in FamilyType(lines)
      BY <1>3, <3>1
    <3> QED BY <3>2 DEF FamilyType
  <2>2. Len(Append(known.families[j].samples, TheSample(lines[i]))) = Len(known.families[j].samples) + 1
    BY <2>1
  <2> QED BY <1>3, <1>4, <2>2, SizesAre
<1>6. Held(new) = Held(known) + 1
  <2> DEFINE S == DOMAIN known.families
             f == Sizes(known)
             e == Sizes(new)
  <2>1. /\ IsFiniteSet(S) /\ j \in S /\ e[j] = f[j] + 1
        /\ (\A x \in S : f[x] \in Int) /\ (\A x \in S : x # j => e[x] = f[x])
    BY <1>3, <1>4, <1>5
  <2> HIDE DEF S, f, e
  <2>2. Total(e, S) = Total(f, S) + 1
    BY <2>1, TotalOfOneGrown
  <2> QED BY <1>4, <2>2 DEF Held, S, e, f
<1> QED BY <1>2, <1>6 DEF new

IsText(lines) ==
  IsList(lines) /\ \A i \in DOMAIN lines : lines[i].form \in {"type", "help", "sample", "other"}

SamplesTo(lines, k) == {i \in 1 .. k : lines[i].form = "sample"}
BadTo(lines, k) == {i \in SamplesTo(lines, k) : ~ parse_sample_line(lines[i])}

CountsAre(lines, k, out) ==
  /\ Cardinality(SamplesTo(lines, k)) = out.issue_count + Held(out)
  /\ Cardinality(BadTo(lines, k)) = out.issue_count
  /\ Len(out.issues) = IF out.issue_count <= MaxIssues THEN out.issue_count ELSE MaxIssues

LEMMA MinOfTwo ==
  ASSUME NEW a \in Int, NEW b \in Int
  PROVE  Min({a, b}) = IF a <= b THEN a ELSE b
BY DEF Min

LEMMA TakenTo ==
  ASSUME NEW lines, NEW k \in Nat
  PROVE  /\ IsFiniteSet(SamplesTo(lines, k)) /\ IsFiniteSet(BadTo(lines, k))
         /\ k + 1 \notin SamplesTo(lines, k) /\ k + 1 \notin BadTo(lines, k)
         /\ SamplesTo(lines, k + 1) =
              SamplesTo(lines, k) \cup (IF lines[k + 1].form = "sample" THEN {k + 1} ELSE {})
         /\ BadTo(lines, k + 1) =
              BadTo(lines, k) \cup (IF lines[k + 1].form = "sample" /\ ~ parse_sample_line(lines[k + 1])
                                    THEN {k + 1} ELSE {})
<1> DEFINE m == k + 1
           S == 1 .. k
<1>1. m \in Nat /\ 1 .. m = S \cup {m} /\ m \notin S
  OBVIOUS
<1>2. IsFiniteSet(S)
  BY IntervalIsFinite
<1> HIDE DEF m, S
<1>3. SamplesTo(lines, k) = {i \in S : lines[i].form = "sample"}
  BY DEF SamplesTo, S
<1>4. SamplesTo(lines, m) = {i \in S \cup {m} : lines[i].form = "sample"}
  BY <1>1 DEF SamplesTo
<1>5. IsFiniteSet(SamplesTo(lines, k)) /\ IsFiniteSet(BadTo(lines, k))
  BY <1>2, <1>3, FS_Subset DEF BadTo
<1>6. m \notin SamplesTo(lines, k) /\ m \notin BadTo(lines, k)
  BY <1>1, <1>3 DEF BadTo
<1>7. SamplesTo(lines, m) = SamplesTo(lines, k) \cup (IF lines[m].form = "sample" THEN {m} ELSE {})
  BY <1>3, <1>4
<1>8. BadTo(lines, m) =
              BadTo(lines, k) \cup (IF lines[m].form = "sample" /\ ~ parse_sample_line(lines[m])
                                    THEN {m} ELSE {})
  BY <1>3, <1>4 DEF BadTo
<1> QED BY <1>5, <1>6, <1>7, <1>8 DEF m

LEMMA LineCounts ==
  ASSUME NEW lines, IsText(lines), NEW k \in Nat, k + 1 \in 1 .. Len(lines),
         NEW out \in OutType(lines), CountsAre(lines, k, out)
  PROVE  CountsAre(lines, k + 1, Line(out, lines[k + 1]))
<1> DEFINE m == k + 1
           new == Line(out, lines[m])
<1>1. m \in DOMAIN lines /\ lines[m].form \in {"type", "help", "sample", "other"}
  BY DEF IsText, IsList
<1>2. /\ IsFiniteSet(SamplesTo(lines, k)) /\ IsFiniteSet(BadTo(lines, k))
      /\ m \notin SamplesTo(lines, k) /\ m \notin BadTo(lines, k)
      /\ SamplesTo(lines, m) = SamplesTo(lines, k) \cup (IF lines[m].form = "sample" THEN {m} ELSE {})
      /\ BadTo(lines, m) =
              BadTo(lines, k) \cup (IF lines[m].form = "sample" /\ ~ parse_sample_line(lines[m])
                                    THEN {m} ELSE {})
  BY TakenTo
<1> HIDE DEF m
<1>3. /\ Cardinality(SamplesTo(lines, k) \cup {m}) = Cardinality(SamplesTo(lines, k)) + 1
      /\ Cardinality(BadTo(lines, k) \cup {m}) = Cardinality(BadTo(lines, k)) + 1
  BY <1>2, FS_AddElement
<1>4. out.issue_count \in Nat /\ Len(out.issues) \in Nat /\ Held(out) \in Int
  <2>1. Held(out) \in Int
    <3>1. IsFiniteSet(DOMAIN out.families) /\ \A i \in DOMAIN out.families : Sizes(out)[i] \in Int
      BY SizesAre
    <3> QED BY <3>1, TotalType DEF Held
  <2> QED BY <1>1, <2>1, IssueIs
<1>5. CASE lines[m].form \notin {"sample"}
  <2>1. new.issues = out.issues /\ new.issue_count = out.issue_count /\ Held(new) = Held(out)
    <3>1. new = out \/ new = handle_comment(out, lines[m])
      BY <1>1, <1>5 DEF Line
    <3> HIDE DEF new
    <3>2. CASE new = handle_comment(out, lines[m])
      BY <1>1, <3>2, CommentedIs, CommentHolds
    <3> QED BY <3>1, <3>2
  <2>2. SamplesTo(lines, m) = SamplesTo(lines, k) /\ BadTo(lines, m) = BadTo(lines, k)
    BY <1>2, <1>5
  <2> QED BY <2>1, <2>2 DEF CountsAre, m
<1>6. CASE lines[m].form = "sample" /\ parse_sample_line(lines[m])
  <2>1. new = attach_sample(out, lines[m])
    BY <1>6 DEF Line
  <2> HIDE DEF new
  <2>2. new.issues = out.issues /\ new.issue_count = out.issue_count
    BY <1>1, <2>1, AttachedIs
  <2>3. Held(new) = Held(out) + 1
    BY <1>1, <2>1, AttachHolds
  <2>4. SamplesTo(lines, m) = SamplesTo(lines, k) \cup {m} /\ BadTo(lines, m) = BadTo(lines, k)
    BY <1>2, <1>6
  <2>5. CountsAre(lines, m, new)
    BY <1>3, <1>4, <2>2, <2>3, <2>4 DEF CountsAre
  <2> QED BY <2>5 DEF new, m
<1>7. CASE lines[m].form = "sample" /\ ~ parse_sample_line(lines[m])
  <2>1. new = record_issue(out, lines[m])
    BY <1>7 DEF Line
  <2> HIDE DEF new
  <2>2. /\ new.families = out.families
        /\ new.issue_count = out.issue_count + 1
        /\ Len(new.issues) = IF Len(out.issues) >= MaxIssues THEN Len(out.issues) ELSE Len(out.issues) + 1
    BY <1>1, <2>1, IssueIs
  <2>3. Held(new) = Held(out)
    BY <2>2 DEF Held, Sizes
  <2>4. SamplesTo(lines, m) = SamplesTo(lines, k) \cup {m} /\ BadTo(lines, m) = BadTo(lines, k) \cup {m}
    BY <1>2, <1>7
  <2>5. Len(new.issues) = IF new.issue_count <= MaxIssues THEN new.issue_count ELSE MaxIssues
    BY <1>4, <2>2, IssuesAssumption DEF CountsAre
  <2>6. CountsAre(lines, m, new)
    BY <1>3, <1>4, <2>2, <2>3, <2>4, <2>5 DEF CountsAre
  <2> QED BY <2>6 DEF new, m
<1> QED BY <1>5, <1>6, <1>7

\* parse.rs, whatever a text contains: every sample line is a sample of a
\* family or an issue; the issues are the lines that do not parse, and of them
\* as many are kept as there is room for.
THEOREM EverySampleIsCounted ==
  ASSUME NEW lines, IsText(lines)
  PROVE  LET parsed == parse_text(lines)
             samples == {i \in DOMAIN lines : lines[i].form = "sample"}
             good == {i \in samples : parse_sample_line(lines[i])} IN
         /\ Cardinality(samples) =
              parsed.issue_count
              + Sum([i \in DOMAIN parsed.families |-> Len(parsed.families[i].samples)])
         /\ parsed.issue_count = Cardinality(samples \ good)
         /\ Len(parsed.issues) = Min({MaxIssues, parsed.issue_count})
<1> DEFINE n == Len(lines)
           parsed == parse_text(lines)
<1>1. n \in Nat /\ DOMAIN lines = 1 .. n /\ IsList(lines)
  BY DEF IsText, IsList
<1>2. PICK c \in [0 .. n -> OutType(lines)] :
         /\ c[0] = NoText
         /\ \A i \in 1 .. n : c[i] = Line(c[i - 1], lines[i])
         /\ parsed = c[n]
  BY <1>1, ParsedIs
<1> HIDE DEF parsed, n
<1>3. CountsAre(lines, n, c[n])
  <2> DEFINE T == {k \in 0 .. n : ~ CountsAre(lines, k, c[k])}
  <2>1. SUFFICES ASSUME T # {} PROVE FALSE
    BY <1>1
  <2>2. T \in SUBSET Nat
    BY <1>1
  <2> HIDE DEF T
  <2>3. PICK k \in T : \A m \in T : k <= m
    BY <2>1, <2>2, LeastNatural
  <2>4. k \in 0 .. n /\ ~ CountsAre(lines, k, c[k])
    BY <2>3 DEF T
  <2>5. CASE k = 0
    <3>1. SamplesTo(lines, 0) = {} /\ BadTo(lines, 0) = {}
      BY DEF SamplesTo, BadTo
    <3>2. Held(NoText) = 0
      <4>1. DOMAIN NoText.families = {}
        BY SMT DEF NoText
      <4> QED BY <4>1, TotalEmpty DEF Held
    <3>3. NoText.issue_count = 0 /\ Len(NoText.issues) = 0
      BY SMT DEF NoText
    <3>4. Cardinality({}) = 0
      BY FS_EmptySet
    <3>5. CountsAre(lines, 0, NoText)
      <4>1. /\ Cardinality(SamplesTo(lines, 0)) = 0 /\ Cardinality(BadTo(lines, 0)) = 0
        BY <3>1, <3>4
      <4>2. Len(NoText.issues) = IF NoText.issue_count <= MaxIssues THEN NoText.issue_count ELSE MaxIssues
        BY <3>3, IssuesAssumption
      <4> HIDE DEF parsed
      <4>3. NoText.issue_count + Held(NoText) = 0
        BY <3>2, <3>3
      <4> QED BY <3>3, <4>1, <4>2, <4>3 DEF CountsAre
    <3> QED BY <1>2, <2>4, <2>5, <3>5
  <2>6. CASE k # 0
    <3> DEFINE p == k - 1
    <3>1. p \in Nat /\ p + 1 = k /\ p \in 0 .. n /\ k \in 1 .. n
      BY <1>1, <2>4, <2>6
    <3>2. ~ (k <= p)
      BY <1>1, <2>4
    <3> HIDE DEF p
    <3>3. CountsAre(lines, p, c[p])
      BY <2>3, <3>1, <3>2 DEF T
    <3>4. c[k] = Line(c[p], lines[p + 1]) /\ c[p] \in OutType(lines)
      BY <1>2, <3>1 DEF p
    <3>5. CountsAre(lines, p + 1, Line(c[p], lines[p + 1]))
      BY <3>1, <3>3, <3>4, LineCounts DEF n
    <3> QED BY <2>4, <3>1, <3>4, <3>5
  <2> QED BY <2>5, <2>6
<1>4. parsed \in OutType(lines) /\ CountsAre(lines, n, parsed)
  BY <1>1, <1>2, <1>3
<1>5. parsed.issue_count \in Nat
  BY <1>4 DEF OutType
<1>6. Sum([i \in DOMAIN parsed.families |-> Len(parsed.families[i].samples)]) = Held(parsed)
  <2> DEFINE f == Sizes(parsed)
             S == DOMAIN parsed.families
  <2>1. IsFiniteSet(S) /\ \A i \in S : f[i] \in Int
    BY <1>4, SizesAre
  <2>2. DOMAIN f = S /\ f = [i \in DOMAIN parsed.families |-> Len(parsed.families[i].samples)]
    BY DEF Sizes
  <2> HIDE DEF f, S
  <2>3. MapThenSumSet(LAMBDA x : f[x], S) = Total(f, S)
    BY <2>1, SumSetIsTotal
  <2>4. Sum(f) = Total(f, S)
    BY <2>2, <2>3 DEF Sum
  <2> QED BY <2>2, <2>4 DEF Held, f, S
<1>7. Min({MaxIssues, parsed.issue_count})
        = IF parsed.issue_count <= MaxIssues THEN parsed.issue_count ELSE MaxIssues
  BY <1>5, MinOfTwo, IssuesAssumption
<1> DEFINE samples == {i \in DOMAIN lines : lines[i].form = "sample"}
           good == {i \in samples : parse_sample_line(lines[i])}
<1>8. samples = SamplesTo(lines, n) /\ samples \ good = BadTo(lines, n)
  BY <1>1 DEF SamplesTo, BadTo
<1>9. /\ Cardinality(samples) = parsed.issue_count + Held(parsed)
      /\ parsed.issue_count = Cardinality(samples \ good)
      /\ Len(parsed.issues) = Min({MaxIssues, parsed.issue_count})
  <2>1. Cardinality(SamplesTo(lines, n)) = parsed.issue_count + Held(parsed)
        /\ Cardinality(BadTo(lines, n)) = parsed.issue_count
    BY <1>4 DEF CountsAre
  <2>2. Len(parsed.issues) = Min({MaxIssues, parsed.issue_count})
    BY <1>4, <1>7 DEF CountsAre
  <2> HIDE DEF samples, good
  <2> QED BY <1>8, <2>1, <2>2
<1> HIDE DEF samples, good
<1>10. /\ Cardinality(samples) =
            parsed.issue_count + Sum([i \in DOMAIN parsed.families |-> Len(parsed.families[i].samples)])
       /\ parsed.issue_count = Cardinality(samples \ good)
       /\ Len(parsed.issues) = Min({MaxIssues, parsed.issue_count})
  BY <1>6, <1>9
<1> QED BY <1>10, Zenon DEF parsed, samples, good

\* What the TYPE lines of a text in order look like: a name is a base and a part,
\* comments are about bases, and a histogram is declared once and before
\* its samples.
Histograms(lines) == {j \in DOMAIN lines : lines[j].form = "type" /\ lines[j].kind = "histogram"}

IsPair(name) == name = <<name[1], name[2]>>

IsOrderly(lines) ==
  /\ \A i \in DOMAIN lines : lines[i].form # "other" => IsPair(lines[i].name)
  /\ \A i \in DOMAIN lines : lines[i].form \in {"type", "help"} => lines[i].name[2] = ""
  /\ \A j \in Histograms(lines), i \in DOMAIN lines :
       /\ lines[i].form = "type" /\ i # j => lines[i].name # lines[j].name
       /\ lines[i].form = "sample" /\ i < j => lines[i].name[1] # lines[j].name[1]

\* After k lines: a family that is not of a base is of a sample; no two have a
\* name in common; a declared histogram is the only family of its base; and
\* it has the samples that came since.
PartsAreSampled(lines, k, out) ==
  \A x \in DOMAIN out.families :
    /\ IsPair(out.families[x].name)
    /\ out.families[x].name[2] # "" =>
         \E i \in 1 .. k : lines[i].form = "sample" /\ lines[i].name = out.families[x].name

NamesAreDistinct(out) ==
  \A x, y \in DOMAIN out.families : out.families[x].name = out.families[y].name => x = y

HistogramsStand(lines, k, out) ==
  \A j \in Histograms(lines) : j <= k =>
    /\ \E x \in DOMAIN out.families :
         out.families[x].name = lines[j].name /\ out.families[x].kind = "histogram"
    /\ \A y \in DOMAIN out.families :
         out.families[y].name[1] = lines[j].name[1] => out.families[y].name = lines[j].name

HistogramsGather(lines, k, out) ==
  \A j \in Histograms(lines), i \in 1 .. k :
    /\ j < i
    /\ lines[i].form = "sample" /\ parse_sample_line(lines[i]) /\ lines[i].name[1] = lines[j].name[1]
    => \A x \in DOMAIN out.families : out.families[x].name = lines[j].name =>
         TheSample(lines[i]) \in ToSet(out.families[x].samples)

Fits(lines, k, out) ==
  /\ PartsAreSampled(lines, k, out) /\ NamesAreDistinct(out)
  /\ HistogramsStand(lines, k, out) /\ HistogramsGather(lines, k, out)

\* A base's family may be ensured at any time; another's with a sample of a base
\* that is no histogram.
MayBeNew(lines, k, name) ==
  /\ IsPair(name)
  /\ \/ name[2] = ""
     \/ /\ lines[k + 1].form = "sample" /\ lines[k + 1].name = name
        /\ \A j \in Histograms(lines) : j <= k => lines[j].name[1] # name[1]

LEMMA EnsuredFits ==
  ASSUME NEW lines, IsText(lines), IsOrderly(lines), NEW k \in Nat, k + 1 \in DOMAIN lines,
         NEW out \in OutType(lines), Fits(lines, k, out),
         NEW name \in NamesOf(lines), MayBeNew(lines, k, name)
  PROVE  LET known == ensure_family(out, name) IN
         /\ PartsAreSampled(lines, k + 1, known) /\ NamesAreDistinct(known)
         /\ HistogramsStand(lines, k, known) /\ HistogramsGather(lines, k, known)
<1> DEFINE known == ensure_family(out, name)
           z == Len(out.families) + 1
<1>1. known \in OutType(lines) /\ (known = out \/ Added(out, name, known))
  BY EnsuredIs
<1> HIDE DEF known
<1>2. \A i \in 1 .. k : i \in 1 .. k + 1
  OBVIOUS
<1>3. PartsAreSampled(lines, k + 1, out)
  BY <1>2 DEF Fits, PartsAreSampled
<1>4. CASE known = out
  BY <1>3, <1>4 DEF Fits, known
<1>5. CASE Added(out, name, known)
  <2>1. /\ DOMAIN known.families = DOMAIN out.families \cup {z} /\ z \notin DOMAIN out.families
        /\ \A x \in DOMAIN out.families : known.families[x] = out.families[x]
        /\ known.families[z].name = name
    <3>1. /\ DOMAIN out.families = 1 .. Len(out.families) /\ Len(out.families) \in Nat
          /\ DOMAIN known.families = 1 .. Len(known.families)
      BY <1>1, SizesAre
    <3>2. known.families[z].name = name
      BY <1>5 DEF Added, NewFamily
    <3> QED BY <1>5, <3>1, <3>2 DEF Added
  <2> HIDE DEF z
  <2>2. \A x \in DOMAIN out.families : out.families[x].name # name
    BY <1>5 DEF Named, Added
  <2>3. PartsAreSampled(lines, k + 1, known)
    <3>1. name[2] # "" => k + 1 \in 1 .. k + 1 /\ lines[k + 1].form = "sample" /\ lines[k + 1].name = name
      <4>1. k + 1 \in 1 .. k + 1
        OBVIOUS
      <4> QED BY <4>1, Zenon DEF MayBeNew
    <3>4. IsPair(name)
      BY DEF MayBeNew
    <3>2. \A x \in DOMAIN out.families :
             /\ IsPair(known.families[x].name)
             /\ known.families[x].name[2] # "" =>
                 \E i \in 1 .. k + 1 : lines[i].form = "sample" /\ lines[i].name = known.families[x].name
      BY <1>3, <2>1 DEF PartsAreSampled
    <3> QED BY <2>1, <3>1, <3>2, <3>4, Zenon DEF PartsAreSampled
  <2>4. NamesAreDistinct(known)
    BY <2>1, <2>2, Zenon DEF Fits, NamesAreDistinct
  <2>5. HistogramsStand(lines, k, known)
    <3> SUFFICES ASSUME NEW j \in Histograms(lines), j <= k
                 PROVE  /\ \E x \in DOMAIN known.families :
                             known.families[x].name = lines[j].name /\ known.families[x].kind = "histogram"
                        /\ \A y \in DOMAIN known.families :
                             known.families[y].name[1] = lines[j].name[1] => known.families[y].name = lines[j].name
      BY DEF HistogramsStand
    <3>1. /\ \E x \in DOMAIN out.families :
               out.families[x].name = lines[j].name /\ out.families[x].kind = "histogram"
          /\ \A y \in DOMAIN out.families :
               out.families[y].name[1] = lines[j].name[1] => out.families[y].name = lines[j].name
      BY DEF Fits, HistogramsStand
    <3>2. j \in DOMAIN lines /\ lines[j].form = "type"
      BY DEF Histograms
    <3>3. lines[j].form # "other" /\ lines[j].form \in {"type", "help"}
      BY <3>2
    <3>4. lines[j].name = <<lines[j].name[1], "">>
      BY <3>2, <3>3 DEF IsOrderly, IsPair
    <3>5. name[1] = lines[j].name[1] => name = lines[j].name
      BY <3>4 DEF IsPair, MayBeNew
    <3> QED BY <2>1, <3>1, <3>5
  <2>6. HistogramsGather(lines, k, known)
    <3> SUFFICES ASSUME NEW j \in Histograms(lines), NEW i \in 1 .. k, j < i,
                        lines[i].form = "sample", parse_sample_line(lines[i]),
                        lines[i].name[1] = lines[j].name[1],
                        NEW x \in DOMAIN known.families, known.families[x].name = lines[j].name
                 PROVE  TheSample(lines[i]) \in ToSet(known.families[x].samples)
      BY DEF HistogramsGather
    <3>1. j <= k
      <4>1. j \in Nat
        BY DEF IsText, IsList, Histograms
      <4> QED BY <4>1
    <3>2. \E y \in DOMAIN out.families : out.families[y].name = lines[j].name
      BY <3>1 DEF Fits, HistogramsStand
    <3>3. x \in DOMAIN out.families
      BY <2>1, <2>2, <3>2
    <3>4. out.families[x] = known.families[x]
      BY <2>1, <3>3
    <3> QED BY <3>3, <3>4 DEF Fits, HistogramsGather
  <2> QED BY <2>3, <2>4, <2>5, <2>6 DEF known
<1> QED BY <1>1, <1>4, <1>5

\* More samples, and other kinds for families that are no declared histogram,
\* change none of this.
LEMMA StaysFit ==
  ASSUME NEW lines, NEW k, NEW m, NEW known, NEW new,
         DOMAIN new.families = DOMAIN known.families,
         \A x \in DOMAIN known.families : new.families[x].name = known.families[x].name,
         \A x \in DOMAIN known.families :
           ToSet(known.families[x].samples) \subseteq ToSet(new.families[x].samples),
         \A x \in DOMAIN known.families, j \in Histograms(lines) :
           j <= k /\ known.families[x].name = lines[j].name =>
             new.families[x].kind = known.families[x].kind,
         PartsAreSampled(lines, m, known), NamesAreDistinct(known),
         HistogramsStand(lines, k, known), HistogramsGather(lines, k, known)
  PROVE  /\ PartsAreSampled(lines, m, new) /\ NamesAreDistinct(new)
         /\ HistogramsStand(lines, k, new) /\ HistogramsGather(lines, k, new)
<1>1. PartsAreSampled(lines, m, new)
  BY Zenon DEF PartsAreSampled
<1>2. NamesAreDistinct(new)
  BY DEF NamesAreDistinct
<1>3. HistogramsStand(lines, k, new)
  <2> SUFFICES ASSUME NEW j \in Histograms(lines), j <= k
               PROVE  /\ \E x \in DOMAIN new.families :
                           new.families[x].name = lines[j].name /\ new.families[x].kind = "histogram"
                      /\ \A y \in DOMAIN new.families :
                           new.families[y].name[1] = lines[j].name[1] => new.families[y].name = lines[j].name
    BY DEF HistogramsStand
  <2>1. PICK x \in DOMAIN known.families :
          known.families[x].name = lines[j].name /\ known.families[x].kind = "histogram"
    BY DEF HistogramsStand
  <2>2. \A y \in DOMAIN known.families :
          known.families[y].name[1] = lines[j].name[1] => known.families[y].name = lines[j].name
    BY DEF HistogramsStand
  <2>3. new.families[x].name = lines[j].name /\ new.families[x].kind = "histogram"
    BY <2>1
  <2> QED BY <2>1, <2>2, <2>3
<1>4. HistogramsGather(lines, k, new)
  BY Zenon DEF HistogramsGather
<1> QED BY <1>1, <1>2, <1>3, <1>4

LEMMA NamesAreIn ==
  ASSUME NEW lines, NEW i \in DOMAIN lines
  PROVE  lines[i].name \in NamesOf(lines)
BY DEF NamesOf

\* A line that is not a sample gathers nothing.
LEMMA GatherNext ==
  ASSUME NEW lines, NEW k \in Nat, NEW out, HistogramsGather(lines, k, out),
         \/ lines[k + 1].form # "sample"
         \/ ~ parse_sample_line(lines[k + 1])
  PROVE  HistogramsGather(lines, k + 1, out)
<1> SUFFICES ASSUME NEW j \in Histograms(lines), NEW i \in 1 .. k + 1, j < i,
                    lines[i].form = "sample", parse_sample_line(lines[i]),
                    lines[i].name[1] = lines[j].name[1],
                    NEW x \in DOMAIN out.families, out.families[x].name = lines[j].name
             PROVE  TheSample(lines[i]) \in ToSet(out.families[x].samples)
  BY DEF HistogramsGather
<1>1. i # k + 1
  OBVIOUS
<1>2. i \in 1 .. k
  BY <1>1
<1> QED BY <1>2 DEF HistogramsGather

LEMMA StandNext ==
  ASSUME NEW lines, IsText(lines), NEW k \in Nat, NEW out, HistogramsStand(lines, k, out),
         k + 1 \notin Histograms(lines)
  PROVE  HistogramsStand(lines, k + 1, out)
<1>1. \A j \in Histograms(lines) : j \in Nat
  BY DEF IsText, IsList, Histograms
<1>2. \A j \in Histograms(lines) : j <= k + 1 => j <= k
  BY <1>1
<1> QED BY <1>2, Zenon DEF HistogramsStand

LEMMA Positions ==
  ASSUME NEW lines, IsText(lines), NEW k \in Nat
  PROVE  /\ \A j \in Histograms(lines) :
              /\ j \in Nat
              /\ j <= k => j # k + 1
              /\ j <= k + 1 /\ j # k + 1 => j <= k
         /\ k + 1 \in DOMAIN lines => \A i \in 1 .. k + 1 :
              i # k + 1 => i < k + 1 /\ i \in DOMAIN lines
<1>1. \A j \in Histograms(lines) : j \in Nat
  BY DEF IsText, IsList, Histograms
<1>2. DOMAIN lines = 1 .. Len(lines) /\ Len(lines) \in Nat
  BY DEF IsText, IsList
<1> QED BY <1>1, <1>2

LEMMA CommentFits ==
  ASSUME NEW lines, IsText(lines), IsOrderly(lines), NEW k \in Nat, k + 1 \in DOMAIN lines,
         NEW out \in OutType(lines), Fits(lines, k, out),
         lines[k + 1].form \in {"type", "help"}
  PROVE  Fits(lines, k + 1, handle_comment(out, lines[k + 1]))
<1> DEFINE m == k + 1
           name == lines[m].name
           known == ensure_family(out, name)
           z == IndexOf(known, name)
           new == handle_comment(out, lines[m])
<1>1. /\ IsPair(name) /\ name[2] = "" /\ name \in NamesOf(lines) /\ m \in DOMAIN lines
      /\ MayBeNew(lines, k, name)
  BY NamesAreIn DEF IsOrderly, MayBeNew
<1>2. /\ PartsAreSampled(lines, m, known) /\ NamesAreDistinct(known)
      /\ HistogramsStand(lines, k, known) /\ HistogramsGather(lines, k, known)
  BY <1>1, EnsuredFits
<1>3. /\ known \in OutType(lines) /\ new \in OutType(lines)
      /\ z \in DOMAIN known.families /\ known.families[z].name = name
      /\ Len(new.families) = Len(known.families)
      /\ \A x \in DOMAIN known.families :
              /\ new.families[x].name = known.families[x].name
              /\ new.families[x].samples = known.families[x].samples
              /\ x # z => new.families[x].kind = known.families[x].kind
      /\ lines[m].form # "help" /\ lines[m].kind \in KnownKinds => new.families[z].kind = lines[m].kind
      /\ lines[m].form = "help" => new = known
  BY <1>1, CommentedIs
<1> HIDE DEF known, z, new
<1>4. DOMAIN new.families = DOMAIN known.families
  BY <1>3, SizesAre
<1>5. \A x \in DOMAIN known.families, j \in Histograms(lines) :
        j <= k /\ known.families[x].name = lines[j].name =>
          new.families[x].kind = known.families[x].kind
  <2> SUFFICES ASSUME NEW x \in DOMAIN known.families, NEW j \in Histograms(lines),
                      j <= k, known.families[x].name = lines[j].name, lines[m].form = "type"
               PROVE  x # z
    BY <1>3
  <2>1. j # m /\ m \in DOMAIN lines
    <3>1. j # k + 1
      BY Positions
    <3> QED BY <1>1, <3>1
  <2>2. lines[m].name # lines[j].name
    BY <2>1 DEF IsOrderly
  <2> QED BY <1>3, <2>2
<1>6. /\ PartsAreSampled(lines, m, new) /\ NamesAreDistinct(new)
      /\ HistogramsStand(lines, k, new) /\ HistogramsGather(lines, k, new)
  <2>1. \A x \in DOMAIN known.families :
          /\ new.families[x].name = known.families[x].name
          /\ ToSet(known.families[x].samples) \subseteq ToSet(new.families[x].samples)
    BY <1>3
  <2> QED BY <1>2, <1>4, <1>5, <2>1, StaysFit
<1>7. HistogramsGather(lines, m, new)
  BY <1>6, GatherNext DEF m
<1>8. HistogramsStand(lines, m, new)
  <2>1. CASE m \notin Histograms(lines)
    BY <1>6, <2>1, StandNext DEF m
  <2>2. CASE m \in Histograms(lines)
    <3>1. lines[m].form = "type" /\ lines[m].kind = "histogram"
      BY <2>2 DEF Histograms
    <3>2. new.families[z].kind = "histogram" /\ new.families[z].name = name /\ z \in DOMAIN new.families
      BY <1>3, <1>4, <3>1 DEF KnownKinds
    <3>3. ASSUME NEW y \in DOMAIN new.families, new.families[y].name[1] = name[1]
          PROVE  new.families[y].name = name
      <4> DEFINE other == new.families[y].name
      <4>1. IsPair(other)
        BY <1>6 DEF PartsAreSampled
      <4>2. CASE other[2] = ""
        <5> HIDE DEF other, name
        <5>1. other = <<other[1], other[2]>> /\ name = <<name[1], name[2]>> /\ other[1] = name[1]
          BY <1>1, <3>3, <4>1 DEF IsPair, other
        <5>2. other = name
          BY <1>1, <4>2, <5>1
        <5> QED BY <5>2 DEF other
      <4>3. CASE other[2] # ""
        <5>1. PICK i \in 1 .. m : lines[i].form = "sample" /\ lines[i].name = other
          BY <1>6, <4>3 DEF PartsAreSampled
        <5>2. i # m
          BY <3>1, <5>1
        <5>3. i < m /\ i \in DOMAIN lines
          <6>1. i \in 1 .. k + 1 /\ i # k + 1
            BY <5>2
          <6>2. i < k + 1 /\ i \in DOMAIN lines
            BY <6>1, Positions
          <6> QED BY <6>2
        <5>4. lines[i].name[1] # lines[m].name[1]
          BY <2>2, <5>1, <5>3 DEF IsOrderly
        <5> QED BY <3>3, <5>1, <5>4
      <4> QED BY <4>2, <4>3
    <3>4. ASSUME NEW j \in Histograms(lines), j <= m, j # m PROVE j <= k
      BY <3>4, Positions
    <3> SUFFICES ASSUME NEW j \in Histograms(lines), j <= m
                 PROVE  /\ \E x \in DOMAIN new.families :
                             new.families[x].name = lines[j].name /\ new.families[x].kind = "histogram"
                        /\ \A y \in DOMAIN new.families :
                             new.families[y].name[1] = lines[j].name[1] => new.families[y].name = lines[j].name
      BY DEF HistogramsStand
    <3>5. CASE j = m
      BY <3>2, <3>3, <3>5
    <3>6. CASE j # m
      BY <1>6, <3>4, <3>6 DEF HistogramsStand
    <3> QED BY <3>5, <3>6
  <2> QED BY <2>1, <2>2
<1> QED BY <1>6, <1>7, <1>8 DEF Fits, m, new

\* The samples of a base that a histogram was declared for are the histogram's.
LEMMA OwnerIsHistogram ==
  ASSUME NEW lines, IsOrderly(lines), NEW k, NEW out, NamesAreDistinct(out),
         HistogramsStand(lines, k, out), NEW j \in Histograms(lines), j <= k,
         NEW name, IsPair(name), name[1] = lines[j].name[1]
  PROVE  Owner(out, name) = lines[j].name
<1> DEFINE base == <<name[1], "">>
<1>1. base = lines[j].name
  <2>1. j \in DOMAIN lines /\ lines[j].form = "type"
    BY DEF Histograms
  <2>2. IsPair(lines[j].name) /\ lines[j].name[2] = ""
    BY <2>1 DEF IsOrderly
  <2> QED BY <2>2 DEF IsPair
<1>2. Owner(out, name) =
        IF /\ Named(out, name) = {}
           /\ name[2] # "" /\ Named(out, base) # {}
           /\ Takes(out.families[IndexOf(out, base)], name[2])
        THEN base ELSE name
  BY DEF Owner
<1>3. PICK x \in DOMAIN out.families :
        out.families[x].name = lines[j].name /\ out.families[x].kind = "histogram"
  BY DEF HistogramsStand
<1>4. \A y \in DOMAIN out.families :
        out.families[y].name[1] = lines[j].name[1] => out.families[y].name = lines[j].name
  BY DEF HistogramsStand
<1>5. CASE name[2] = ""
  <2>1. name = base
    BY <1>5 DEF IsPair
  <2> HIDE DEF base
  <2> QED BY <1>1, <1>2, <2>1
<1>6. CASE name[2] # ""
  <2>1. Named(out, name) = {}
    <3> SUFFICES ASSUME NEW y \in DOMAIN out.families, out.families[y].name = name
                 PROVE  FALSE
      BY DEF Named
    <3>1. name = lines[j].name
      BY <1>4
    <3>2. lines[j].name[2] = ""
      BY DEF Histograms, IsOrderly
    <3> QED BY <1>6, <3>1, <3>2
  <2>2. Named(out, base) # {}
    BY <1>1, <1>3 DEF Named
  <2> HIDE DEF base
  <2>3. IndexOf(out, base) \in DOMAIN out.families /\ out.families[IndexOf(out, base)].name = base
    BY <2>2, IndexIs
  <2>4. IndexOf(out, base) = x
    BY <1>1, <1>3, <2>3 DEF NamesAreDistinct
  <2>5. Takes(out.families[IndexOf(out, base)], name[2])
    BY <1>3, <2>4 DEF Takes
  <2> QED BY <1>1, <1>2, <1>6, <2>1, <2>2, <2>5
<1> QED BY <1>5, <1>6

LEMMA SampleIsAppended ==
  ASSUME NEW S, NEW seq \in Seq(S), NEW s
  PROVE  ToSet(seq) \subseteq ToSet(Append(seq, s)) /\ s \in ToSet(Append(seq, s))
<1> DEFINE T == S \cup {s}
           longer == Append(seq, s)
<1>1. seq \in Seq(T) /\ s \in T
  OBVIOUS
<1> HIDE DEF T
<1>2. /\ DOMAIN seq = 1 .. Len(seq) /\ Len(seq) \in Nat
      /\ DOMAIN longer = 1 .. Len(seq) + 1
      /\ \A i \in 1 .. Len(seq) : longer[i] = seq[i]
      /\ longer[Len(seq) + 1] = s
  BY <1>1
<1> HIDE DEF longer
<1>3. \A i \in DOMAIN seq : i \in DOMAIN longer /\ longer[i] = seq[i]
  BY <1>2
<1>4. Len(seq) + 1 \in DOMAIN longer
  BY <1>2
<1> QED BY <1>2, <1>3, <1>4 DEF ToSet, longer

LEMMA AttachFits ==
  ASSUME NEW lines, IsText(lines), IsOrderly(lines), NEW k \in Nat, k + 1 \in DOMAIN lines,
         NEW out \in OutType(lines), Fits(lines, k, out),
         lines[k + 1].form = "sample"
  PROVE  Fits(lines, k + 1, attach_sample(out, lines[k + 1]))
<1> DEFINE m == k + 1
           name == lines[m].name
           owner == Owner(out, name)
           known == ensure_family(out, owner)
           z == IndexOf(known, owner)
           new == attach_sample(out, lines[m])
<1>1. /\ IsPair(name) /\ m \in DOMAIN lines /\ lines[m].form = "sample"
      /\ owner \in {name, <<name[1], "">>} /\ owner \in NamesOf(lines)
  BY OwnerIs DEF IsOrderly
<1>2. ASSUME NEW j \in Histograms(lines), j <= k, lines[j].name[1] = name[1]
      PROVE  owner = lines[j].name
  <2> HIDE DEF name
  <2>1. NamesAreDistinct(out) /\ HistogramsStand(lines, k, out)
    BY DEF Fits
  <2>2. IsPair(name) /\ name[1] = lines[j].name[1]
    BY <1>1, <1>2
  <2>3. Owner(out, name) = lines[j].name
    BY <1>2, <2>1, <2>2, OwnerIsHistogram
  <2> QED BY <2>3
<1>3. MayBeNew(lines, k, owner)
  <2> HIDE DEF owner, name, m
  <2>1. IsPair(<<name[1], "">>) /\ <<name[1], "">>[2] = "" /\ <<name[1], "">>[1] = name[1]
    BY DEF IsPair
  <2>2. CASE owner = <<name[1], "">>
    BY <2>1, <2>2 DEF MayBeNew
  <2>3. CASE owner = name /\ owner # <<name[1], "">>
    <3>1. ASSUME NEW j \in Histograms(lines), j <= k PROVE lines[j].name[1] # owner[1]
      <4> SUFFICES ASSUME lines[j].name[1] = name[1] PROVE FALSE
        BY <2>3
      <4>1. owner = lines[j].name
        BY <1>2, <3>1
      <4>2. lines[j].name[2] = ""
        BY DEF Histograms, IsOrderly
      <4> QED BY <1>1, <2>3, <4>1, <4>2 DEF IsPair
    <3>2. IsPair(owner) /\ lines[k + 1].form = "sample" /\ lines[k + 1].name = owner
      BY <1>1, <2>3 DEF name, m
    <3> QED BY <3>1, <3>2 DEF MayBeNew
  <2> QED BY <1>1, <2>2, <2>3
<1>4. /\ PartsAreSampled(lines, m, known) /\ NamesAreDistinct(known)
      /\ HistogramsStand(lines, k, known) /\ HistogramsGather(lines, k, known)
  BY <1>1, <1>3, EnsuredFits
<1>5. /\ known \in OutType(lines) /\ new \in OutType(lines)
      /\ z \in DOMAIN known.families /\ known.families[z].name = owner
      /\ Len(new.families) = Len(known.families)
      /\ \A x \in DOMAIN known.families :
              /\ new.families[x].name = known.families[x].name
              /\ new.families[x].kind = known.families[x].kind
              /\ x # z => new.families[x].samples = known.families[x].samples
      /\ new.families[z].samples = Append(known.families[z].samples, TheSample(lines[m]))
  BY <1>1, AttachedIs
<1> HIDE DEF known, z, new, owner
<1>6. DOMAIN new.families = DOMAIN known.families
  BY <1>5, SizesAre
<1>7. known.families[z].samples \in Seq(SampleType(lines))
  <2>1. known.families \in Seq(FamilyType(lines))
    BY <1>5 DEF OutType
  <2>2. known.families[z] \in FamilyType(lines)
    BY <1>5, <2>1
  <2> QED BY <2>2 DEF FamilyType
<1>8. /\ ToSet(known.families[z].samples) \subseteq ToSet(new.families[z].samples)
      /\ TheSample(lines[m]) \in ToSet(new.families[z].samples)
  BY <1>5, <1>7, SampleIsAppended
<1>9. /\ PartsAreSampled(lines, m, new) /\ NamesAreDistinct(new)
      /\ HistogramsStand(lines, k, new) /\ HistogramsGather(lines, k, new)
  <2>1. /\ \A x \in DOMAIN known.families : new.families[x].name = known.families[x].name
        /\ \A x \in DOMAIN known.families :
             ToSet(known.families[x].samples) \subseteq ToSet(new.families[x].samples)
        /\ \A x \in DOMAIN known.families : new.families[x].kind = known.families[x].kind
    BY <1>5, <1>8
  <2> QED BY <1>4, <1>6, <2>1, StaysFit
<1>10. HistogramsStand(lines, m, new)
  <2>1. m \notin Histograms(lines)
    BY <1>1 DEF Histograms
  <2> QED BY <1>9, <2>1, StandNext DEF m
<1>11. HistogramsGather(lines, m, new)
  <2> SUFFICES ASSUME NEW j \in Histograms(lines), NEW i \in 1 .. m, j < i,
                      lines[i].form = "sample", parse_sample_line(lines[i]),
                      lines[i].name[1] = lines[j].name[1],
                      NEW x \in DOMAIN new.families, new.families[x].name = lines[j].name
               PROVE  TheSample(lines[i]) \in ToSet(new.families[x].samples)
    BY DEF HistogramsGather
  <2>1. CASE i = m
    <3>1. j <= k
      <4>1. j \in Nat
        BY Positions
      <4> QED BY <2>1, <4>1
    <3>2. owner = lines[j].name
      BY <1>2, <2>1, <3>1
    <3>3. new.families[z].name = lines[j].name /\ z \in DOMAIN new.families
      BY <1>5, <1>6, <3>2
    <3>4. x = z
      BY <1>9, <3>3 DEF NamesAreDistinct
    <3> QED BY <1>8, <2>1, <3>4
  <2>2. CASE i # m
    <3>1. i \in 1 .. k
      BY <2>2
    <3> QED BY <1>9, <3>1 DEF HistogramsGather
  <2> QED BY <2>1, <2>2
<1> QED BY <1>9, <1>10, <1>11 DEF Fits, m, new

LEMMA LineFits ==
  ASSUME NEW lines, IsText(lines), IsOrderly(lines), NEW k \in Nat, k + 1 \in DOMAIN lines,
         NEW out \in OutType(lines), Fits(lines, k, out)
  PROVE  Fits(lines, k + 1, Line(out, lines[k + 1]))
<1> DEFINE m == k + 1
           new == Line(out, lines[m])
<1>1. lines[m].form \in {"type", "help", "sample", "other"}
  BY DEF IsText
<1>2. CASE lines[m].form \in {"type", "help"}
  <2>1. new = handle_comment(out, lines[m])
    BY <1>2 DEF Line
  <2> QED BY <1>2, <2>1, CommentFits
<1>3. CASE lines[m].form = "sample" /\ parse_sample_line(lines[m])
  <2>1. new = attach_sample(out, lines[m])
    BY <1>3 DEF Line
  <2> QED BY <1>3, <2>1, AttachFits
<1>4. CASE lines[m].form = "other" \/ (lines[m].form = "sample" /\ ~ parse_sample_line(lines[m]))
  <2>1. new.families = out.families
    <3>1. m \in DOMAIN lines
      OBVIOUS
    <3>2. record_issue(out, lines[m]).families = out.families
      BY <3>1, IssueIs
    <3>3. new = out \/ new = record_issue(out, lines[m])
      BY <1>4 DEF Line
    <3> QED BY <3>2, <3>3
  <2> HIDE DEF new
  <2>2. HistogramsStand(lines, m, out)
    <3>1. k + 1 \notin Histograms(lines)
      BY <1>4 DEF Histograms
    <3> QED BY <3>1, StandNext DEF Fits
  <2>3. HistogramsGather(lines, m, out)
    BY <1>4, GatherNext DEF Fits
  <2>4. PartsAreSampled(lines, m, out)
    <3>1. \A i \in 1 .. k : i \in 1 .. m
      OBVIOUS
    <3> QED BY <3>1, Zenon DEF Fits, PartsAreSampled
  <2>5. Fits(lines, m, out)
    BY <2>2, <2>3, <2>4 DEF Fits
  <2>6. Fits(lines, m, new)
    <3>1. PartsAreSampled(lines, m, new) /\ NamesAreDistinct(new)
      <4>1. NamesAreDistinct(new)
        BY <2>1, <2>5 DEF Fits, NamesAreDistinct
      <4>2. ASSUME NEW x \in DOMAIN new.families
            PROVE  /\ IsPair(new.families[x].name)
                   /\ new.families[x].name[2] # "" =>
                        \E i \in 1 .. m : lines[i].form = "sample" /\ lines[i].name = new.families[x].name
        <5>1. x \in DOMAIN out.families /\ new.families[x] = out.families[x]
          BY <2>1
        <5>2. /\ IsPair(out.families[x].name)
              /\ out.families[x].name[2] # "" =>
                   \E i \in 1 .. m : lines[i].form = "sample" /\ lines[i].name = out.families[x].name
          BY <2>4, <5>1, Zenon DEF PartsAreSampled
        <5> QED BY <5>1, <5>2
      <4>3. PartsAreSampled(lines, m, new)
        BY <4>2, Zenon DEF PartsAreSampled
      <4> QED BY <4>1, <4>3
    <3>2. HistogramsStand(lines, m, new)
      BY <2>1, <2>5 DEF Fits, HistogramsStand
    <3>3. HistogramsGather(lines, m, new)
      BY <2>1, <2>5, Zenon DEF Fits, HistogramsGather
    <3> QED BY <3>1, <3>2, <3>3 DEF Fits
  <2> QED BY <2>6 DEF new, m
<1> QED BY <1>1, <1>2, <1>3, <1>4

LEMMA ParsedFits ==
  ASSUME NEW lines, IsText(lines), IsOrderly(lines)
  PROVE  Fits(lines, Len(lines), parse_text(lines))
<1> DEFINE n == Len(lines)
<1>1. n \in Nat /\ DOMAIN lines = 1 .. n /\ IsList(lines)
  BY DEF IsText, IsList
<1>2. PICK c \in [0 .. n -> OutType(lines)] :
         /\ c[0] = NoText
         /\ \A i \in 1 .. n : c[i] = Line(c[i - 1], lines[i])
         /\ parse_text(lines) = c[n]
  BY <1>1, ParsedIs
<1> HIDE DEF n
<1> DEFINE T == {k \in 0 .. n : ~ Fits(lines, k, c[k])}
<1>3. SUFFICES ASSUME T # {} PROVE FALSE
  BY <1>1, <1>2 DEF n
<1>4. T \in SUBSET Nat
  BY <1>1
<1> HIDE DEF T
<1>5. PICK k \in T : \A m \in T : k <= m
  BY <1>3, <1>4, LeastNatural
<1>6. k \in 0 .. n /\ ~ Fits(lines, k, c[k])
  BY <1>5 DEF T
<1>7. CASE k = 0
  <2>1. DOMAIN NoText.families = {}
    BY SMT DEF NoText
  <2>2. \A j \in Histograms(lines) : ~ (j <= 0)
    BY <1>1 DEF Histograms
  <2>3. Fits(lines, 0, NoText)
    BY <2>1, <2>2 DEF Fits, PartsAreSampled, NamesAreDistinct, HistogramsStand, HistogramsGather
  <2> QED BY <1>2, <1>6, <1>7, <2>3
<1>8. CASE k # 0
  <2> DEFINE p == k - 1
  <2>1. p \in Nat /\ p + 1 = k /\ p \in 0 .. n /\ k \in 1 .. n
    BY <1>1, <1>6, <1>8
  <2>2. ~ (k <= p)
    BY <1>1, <1>6
  <2> HIDE DEF p
  <2>3. Fits(lines, p, c[p])
    BY <1>5, <2>1, <2>2 DEF T
  <2>4. c[k] = Line(c[p], lines[p + 1]) /\ c[p] \in OutType(lines) /\ p + 1 \in DOMAIN lines
    BY <1>1, <1>2, <2>1 DEF p
  <2>5. Fits(lines, p + 1, Line(c[p], lines[p + 1]))
    BY <2>1, <2>3, <2>4, LineFits
  <2> QED BY <1>6, <2>1, <2>4, <2>5
<1> QED BY <1>7, <1>8

\* parse.rs, family resolution: in a text that declares a histogram once and
\* before its samples, each of them is in its family, and in no other.
THEOREM HistogramsKeepTheirSamples ==
  ASSUME NEW lines, IsText(lines), IsOrderly(lines)
  PROVE  LET parsed == parse_text(lines)
             samples == {i \in DOMAIN lines : lines[i].form = "sample"}
             good == {i \in samples : parse_sample_line(lines[i])}
             histograms == {j \in DOMAIN lines : lines[j].form = "type" /\ lines[j].kind = "histogram"}
             parts(j) == {i \in good : i > j /\ lines[i].name[1] = lines[j].name[1]}
             family(name) == parsed.families[IndexOf(parsed, name)] IN
         \A j \in histograms :
           /\ {<<lines[i].name, lines[i].labels>> : i \in parts(j)}
                \subseteq {<<s.name, s.labels>> : s \in ToSet(family(lines[j].name).samples)}
           /\ \A x \in DOMAIN parsed.families :
                parsed.families[x].name[1] = lines[j].name[1] => x = IndexOf(parsed, lines[j].name)
<1> DEFINE parsed == parse_text(lines)
<1>1. Fits(lines, Len(lines), parsed)
  BY ParsedFits
<1>2. Len(lines) \in Nat /\ DOMAIN lines = 1 .. Len(lines)
  BY DEF IsText, IsList
<1> HIDE DEF parsed
<1> DEFINE place(j) == IndexOf(parsed, lines[j].name)
           kept(j) == \A i \in DOMAIN lines :
                        /\ lines[i].form = "sample" /\ parse_sample_line(lines[i])
                        /\ i > j /\ lines[i].name[1] = lines[j].name[1]
                        => \E s \in ToSet(parsed.families[place(j)].samples) :
                             <<lines[i].name, lines[i].labels>> = <<s.name, s.labels>>
           alone(j) == \A x \in DOMAIN parsed.families :
                         parsed.families[x].name[1] = lines[j].name[1] => x = place(j)
<1>3. ASSUME NEW j \in Histograms(lines) PROVE kept(j) /\ alone(j)
  <2> DEFINE z == place(j)
  <2>1. j \in DOMAIN lines /\ j <= Len(lines)
    BY <1>2 DEF Histograms
  <2>2. /\ Named(parsed, lines[j].name) # {}
        /\ \A y \in DOMAIN parsed.families :
             parsed.families[y].name[1] = lines[j].name[1] => parsed.families[y].name = lines[j].name
    BY <1>1, <2>1 DEF Fits, HistogramsStand, Named
  <2>3. z \in DOMAIN parsed.families /\ parsed.families[z].name = lines[j].name
    BY <2>2, IndexIs
  <2> HIDE DEF z
  <2>4. \A x \in DOMAIN parsed.families :
          parsed.families[x].name[1] = lines[j].name[1] => x = z
    BY <1>1, <2>2, <2>3 DEF Fits, NamesAreDistinct
  <2>5. ASSUME NEW i \in DOMAIN lines, lines[i].form = "sample", parse_sample_line(lines[i]),
               i > j, lines[i].name[1] = lines[j].name[1]
        PROVE  \E s \in ToSet(parsed.families[z].samples) :
                 <<lines[i].name, lines[i].labels>> = <<s.name, s.labels>>
    <3>1. i \in 1 .. Len(lines) /\ j < i
      BY <1>2, <2>1, <2>5
    <3>2. TheSample(lines[i]) \in ToSet(parsed.families[z].samples)
      BY <1>1, <2>3, <2>5, <3>1 DEF Fits, HistogramsGather
    <3> QED BY <3>2 DEF TheSample
  <2>6. kept(j)
    BY <2>5, Zenon DEF z
  <2>7. alone(j)
    BY <2>4, Zenon DEF z
  <2> QED BY <2>6, <2>7
<1>4. ASSUME NEW j \in Histograms(lines),
             NEW e \in {<<lines[i].name, lines[i].labels>> :
                          i \in {i \in {i \in {i \in DOMAIN lines : lines[i].form = "sample"} :
                                            parse_sample_line(lines[i])} :
                                   i > j /\ lines[i].name[1] = lines[j].name[1]}}
      PROVE  e \in {<<s.name, s.labels>> : s \in ToSet(parsed.families[place(j)].samples)}
  <2> HIDE DEF place
  <2>1. PICK i \in DOMAIN lines :
          /\ lines[i].form = "sample" /\ parse_sample_line(lines[i])
          /\ i > j /\ lines[i].name[1] = lines[j].name[1]
          /\ e = <<lines[i].name, lines[i].labels>>
    BY <1>4, Zenon
  <2>2. kept(j)
    BY <1>3
  <2>3. PICK s \in ToSet(parsed.families[place(j)].samples) :
          <<lines[i].name, lines[i].labels>> = <<s.name, s.labels>>
    BY <2>1, <2>2, Zenon
  <2> QED BY <2>1, <2>3, Zenon
<1>5. \A j \in Histograms(lines) : alone(j)
  BY <1>3
<1> QED BY <1>4, <1>5, Zenon DEF parsed, Histograms

-----------------------------------------------------------------------------
(* What the server writes.                                                 *)

LEMMA ForEachIs ==
  ASSUME NEW f, IsFiniteSet(DOMAIN f)
  PROVE  /\ IsList(ForEach(f))
         /\ \A i \in DOMAIN ForEach(f) : \E x \in DOMAIN f : ForEach(f)[i] = f[x]
         /\ ForEach(f) \in Seq({f[x] : x \in DOMAIN f})
<1> DEFINE S == DOMAIN f
           n == Cardinality(S)
           order == SetToSeq(S)
<1>1. n \in Nat /\ ExistsBijection(1 .. n, S)
  BY FS_CardinalityType
<1>2. PICK g : g \in [1 .. n -> S] /\ \A a, b \in 1 .. n : g[a] = g[b] => a = b
  BY <1>1 DEF ExistsBijection, Bijection, Injection, Surjection, IsInjective
<1>3. g \in [1 .. n -> S] /\ IsInjective(g)
  BY <1>2 DEF IsInjective
<1>4. order \in [1 .. n -> S]
  BY <1>3, Zenon DEF SetToSeq
<1>5. ForEach(f) = [i \in 1 .. n |-> f[order[i]]]
  BY <1>4 DEF ForEach
<1> HIDE DEF order, n
<1>6. \A i \in 1 .. n : order[i] \in S
  BY <1>4
<1> HIDE DEF S
<1>7. ForEach(f) \in [1 .. n -> {f[x] : x \in S}]
  BY <1>5, <1>6
<1>8. ForEach(f) \in Seq({f[x] : x \in S}) /\ Len(ForEach(f)) = n /\ DOMAIN ForEach(f) = 1 .. n
  BY <1>1, <1>7
<1> QED BY <1>1, <1>5, <1>6, <1>8 DEF S, IsList

IsJoined(w, S, a, b) ==
  /\ w \in Seq(S) /\ Len(w) = Len(a) + Len(b)
  /\ \A i \in 1 .. Len(a) + Len(b) : w[i] = IF i <= Len(a) THEN a[i] ELSE b[i - Len(a)]

LEMMA TwoLists ==
  ASSUME NEW S, NEW a, a \in Seq(S), NEW b, b \in Seq(S)
  PROVE  IsJoined(a \o b, S, a, b)
BY DEF IsJoined

\* Three lists one after the other.
AreJoined(w, S, a, b, c) ==
  /\ w \in Seq(S) /\ IsList(w) /\ Len(w) = Len(a) + Len(b) + Len(c)
  /\ \A i \in DOMAIN a : i \in DOMAIN w /\ w[i] = a[i]
  /\ \A i \in DOMAIN b : Len(a) + i \in DOMAIN w /\ w[Len(a) + i] = b[i]
  /\ \A i \in DOMAIN w :
       \/ i \in DOMAIN a /\ w[i] = a[i]
       \/ i - Len(a) \in DOMAIN b /\ w[i] = b[i - Len(a)]
       \/ i - Len(a) - Len(b) \in DOMAIN c /\ w[i] = c[i - Len(a) - Len(b)]

LEMMA ThreeLists ==
  ASSUME NEW S, NEW a, a \in Seq(S), NEW b, b \in Seq(S), NEW c, c \in Seq(S)
  PROVE  AreJoined(a \o b \o c, S, a, b, c)
<1> DEFINE ab == a \o b
           w == ab \o c
<1>1. /\ ab \in Seq(S) /\ Len(ab) = Len(a) + Len(b)
      /\ \A i \in 1 .. Len(a) + Len(b) : ab[i] = IF i <= Len(a) THEN a[i] ELSE b[i - Len(a)]
  BY TwoLists DEF IsJoined
<1> HIDE DEF ab
<1>8. IsJoined(w, S, ab, c)
  BY <1>1, TwoLists, Zenon
<1> HIDE DEF w
<1>2. /\ w \in Seq(S) /\ Len(w) = Len(ab) + Len(c)
      /\ \A i \in 1 .. Len(ab) + Len(c) : w[i] = IF i <= Len(ab) THEN ab[i] ELSE c[i - Len(ab)]
  BY <1>8 DEF IsJoined
<1>3. /\ Len(a) \in Nat /\ DOMAIN a = 1 .. Len(a) /\ Len(b) \in Nat /\ DOMAIN b = 1 .. Len(b)
      /\ Len(c) \in Nat /\ DOMAIN c = 1 .. Len(c) /\ DOMAIN w = 1 .. Len(w)
  BY <1>2
<1>4. /\ IsList(w) /\ Len(w) = Len(a) + Len(b) + Len(c)
  BY <1>1, <1>2, <1>3 DEF IsList
<1>5. \A i \in DOMAIN a : i \in DOMAIN w /\ w[i] = a[i]
  BY <1>1, <1>2, <1>3
<1>6. \A i \in DOMAIN b : Len(a) + i \in DOMAIN w /\ w[Len(a) + i] = b[i]
  BY <1>1, <1>2, <1>3
<1>7. ASSUME NEW i \in DOMAIN w
      PROVE  \/ i \in DOMAIN a /\ w[i] = a[i]
             \/ i - Len(a) \in DOMAIN b /\ w[i] = b[i - Len(a)]
             \/ i - Len(a) - Len(b) \in DOMAIN c /\ w[i] = c[i - Len(a) - Len(b)]
  <2>1. CASE i <= Len(a)
    BY <1>1, <1>2, <1>3, <2>1
  <2>2. CASE i > Len(a) /\ i <= Len(ab)
    <3>1. i - Len(a) \in 1 .. Len(b)
      BY <1>1, <1>3, <2>2
    <3>2. w[i] = ab[i] /\ ab[i] = b[i - Len(a)]
      BY <1>1, <1>2, <1>3, <2>2
    <3> QED BY <1>3, <3>1, <3>2
  <2>3. CASE i > Len(ab)
    <3>1. i - Len(ab) = i - Len(a) - Len(b)
      BY <1>1, <1>3
    <3>2. i - Len(ab) \in 1 .. Len(c)
      BY <1>1, <1>2, <1>3, <2>3
    <3>3. w[i] = c[i - Len(ab)]
      BY <1>1, <1>2, <1>3, <2>3
    <3> QED BY <1>3, <3>1, <3>2, <3>3
  <2> QED BY <1>1, <1>2, <1>3, <2>1, <2>2, <2>3
<1>9. AreJoined(w, S, a, b, c)
  BY <1>2, <1>4, <1>5, <1>6, <1>7 DEF AreJoined
<1> QED BY <1>9 DEF w, ab

\* The lines of the present text, by what they are about.
GaugeBase == IF deployment.old THEN "vllm:gpu_cache_usage_perc" ELSE "vllm:kv_cache_usage_perc"
HistogramBase ==
  IF deployment.old THEN "vllm:time_per_output_token_seconds" ELSE "vllm:inter_token_latency_seconds"

IsGauge(l) ==
  \/ l = TypeLine(GaugeBase, "gauge")
  \/ \E k \in deployment.keys : l = SampleLine(GaugeBase, "", KeyLabels(k), 0)

BucketLine(i) ==
  SampleLine(HistogramBase, "_bucket", Put(KeyLabels(Busy), "le", layout[i]), UpTo(layout[i]))
SumLine ==
  SampleLine(HistogramBase, "_sum", KeyLabels(Busy), Sum([v \in Latencies |-> v * seen[v]]))
CountLine == SampleLine(HistogramBase, "_count", KeyLabels(Busy), Sum(seen))
IsPartOfIt(l) == l \in {SumLine, CountLine} \/ \E i \in DOMAIN layout : l = BucketLine(i)

IsConfig(l) ==
  \E e \in DOMAIN deployment.capacity :
    l = SampleLine("vllm:cache_config_info", "", CapacityLabels(e), 1)
IsForeign(l) ==
  \/ l = TypeLine("http_requests_total", "counter")
  \/ \E class \in {"2xx", "5xx"} : l = SampleLine("http_requests_total", "", [status |-> class], 1)
  \/ l = SampleLine("process_start_time_seconds", "", Nothing, 1)
  \/ l = [form |-> "other"]

\* Its state is one a server may be in.
IsServer ==
  /\ deployment \in Deployments /\ IsDeployment(deployment)
  /\ IsLayout(layout) /\ seen \in [Latencies -> Nat]

LEMMA GaugesAre ==
  ASSUME IsServer
  PROVE  /\ GaugeLines \in Seq({GaugeLines[i] : i \in DOMAIN GaugeLines})
         /\ \A i \in DOMAIN GaugeLines : IsGauge(GaugeLines[i])
<1> DEFINE f == [k \in deployment.keys |-> SampleLine(GaugeBase, "", KeyLabels(k), 0)]
           head == <<TypeLine(GaugeBase, "gauge")>>
           rest == ForEach(f)
           S == {f[k] : k \in DOMAIN f} \cup {TypeLine(GaugeBase, "gauge")}
<1>1. GaugeLines = head \o rest
  BY Zenon DEF GaugeLines, GaugeBase
<1>2. IsFiniteSet(DOMAIN f) /\ \A k \in DOMAIN f : f[k] = SampleLine(GaugeBase, "", KeyLabels(k), 0) /\ k \in deployment.keys
  BY DEF IsServer, IsDeployment
<1> HIDE DEF f
<1>3. /\ rest \in Seq({f[k] : k \in DOMAIN f})
      /\ \A i \in DOMAIN rest : \E k \in DOMAIN f : rest[i] = f[k]
  BY <1>2, ForEachIs
<1> HIDE DEF rest
<1>4. head \in Seq(S) /\ rest \in Seq(S) /\ Len(head) = 1 /\ head[1] = TypeLine(GaugeBase, "gauge")
  BY <1>3
<1> HIDE DEF head, S
<1>5. IsJoined(GaugeLines, S, head, rest)
  BY <1>1, <1>4, TwoLists
<1>6. /\ GaugeLines \in Seq(S) /\ Len(GaugeLines) = 1 + Len(rest)
      /\ \A i \in 1 .. 1 + Len(rest) : GaugeLines[i] = IF i <= 1 THEN head[i] ELSE rest[i - 1]
  BY <1>4, <1>5, Zenon DEF IsJoined
<1>7. DOMAIN GaugeLines = 1 .. 1 + Len(rest) /\ DOMAIN rest = 1 .. Len(rest) /\ Len(rest) \in Nat
  BY <1>4, <1>6
<1>8. GaugeLines \in Seq({GaugeLines[i] : i \in DOMAIN GaugeLines})
  BY <1>6
<1>9. ASSUME NEW i \in DOMAIN GaugeLines PROVE IsGauge(GaugeLines[i])
  <2>1. CASE i = 1
    <3>1. GaugeLines[i] = TypeLine(GaugeBase, "gauge")
      BY <1>4, <1>6, <1>7, <2>1
    <3> QED BY <3>1 DEF IsGauge
  <2>2. CASE i # 1
    <3>1. i - 1 \in DOMAIN rest /\ GaugeLines[i] = rest[i - 1]
      BY <1>6, <1>7, <2>2
    <3>2. PICK k \in DOMAIN f : rest[i - 1] = f[k]
      BY <1>3, <3>1
    <3> QED BY <1>2, <3>1, <3>2 DEF IsGauge
  <2> QED BY <2>1, <2>2
<1> QED BY <1>8, <1>9

LEMMA PartsAre ==
  ASSUME IsServer
  PROVE  /\ HistogramLines \in Seq({HistogramLines[i] : i \in DOMAIN HistogramLines})
         /\ Len(HistogramLines) = Len(layout) + 3 /\ Len(layout) \in Nat \ {0}
         /\ HistogramLines[1] = TypeLine(HistogramBase, "histogram")
         /\ \A i \in DOMAIN layout : HistogramLines[i + 1] = BucketLine(i)
         /\ HistogramLines[Len(layout) + 2] = SumLine
         /\ HistogramLines[Len(layout) + 3] = CountLine
<1> DEFINE head == <<TypeLine(HistogramBase, "histogram")>>
           buckets == [i \in DOMAIN layout |-> BucketLine(i)]
           rest == <<SumLine, CountLine>>
           n == Len(layout)
           S == {BucketLine(i) : i \in DOMAIN layout}
                  \cup {TypeLine(HistogramBase, "histogram"), SumLine, CountLine}
<1>1. HistogramLines = head \o buckets \o rest
  BY Zenon DEF HistogramLines, HistogramBase, BucketLine, SumLine, CountLine
<1>2. n \in Nat \ {0} /\ DOMAIN layout = 1 .. n
  BY DEF IsServer, IsLayout
<1>3. /\ head \in Seq(S) /\ Len(head) = 1 /\ head[1] = TypeLine(HistogramBase, "histogram")
      /\ rest \in Seq(S) /\ Len(rest) = 2 /\ rest[1] = SumLine /\ rest[2] = CountLine
  OBVIOUS
<1>4. buckets \in Seq(S) /\ Len(buckets) = n /\ \A i \in 1 .. n : buckets[i] = BucketLine(i)
  <2>1. buckets \in [1 .. n -> S]
    BY <1>2
  <2>2. DOMAIN buckets = 1 .. n /\ \A i \in 1 .. n : buckets[i] = BucketLine(i)
    BY <1>2
  <2> HIDE DEF buckets, S, n
  <2> QED BY <1>2, <2>1, <2>2
<1> DEFINE w == head \o buckets \o rest
<1> HIDE DEF head, buckets, rest, S, n
<1>5. AreJoined(w, S, head, buckets, rest)
  BY <1>3, <1>4, ThreeLists, Zenon DEF w
<1>6. w = HistogramLines
  BY <1>1
<1> HIDE DEF w
<1>7. /\ DOMAIN head = 1 .. 1 /\ DOMAIN buckets = 1 .. n /\ DOMAIN rest = 1 .. 2 /\ DOMAIN w = 1 .. n + 3
      /\ Len(w) = n + 3
  BY <1>2, <1>3, <1>4, <1>5 DEF AreJoined
<1>8. w[1] = TypeLine(HistogramBase, "histogram")
  BY <1>3, <1>5, <1>7 DEF AreJoined
<1>9. ASSUME NEW i \in 1 .. n PROVE w[i + 1] = BucketLine(i)
  <2>1. w[Len(head) + i] = buckets[i]
    BY <1>5, <1>7, Zenon DEF AreJoined
  <2>2. Len(head) + i = i + 1
    BY <1>2, <1>3
  <2> QED BY <1>4, <2>1, <2>2
<1>10. ASSUME NEW i \in 1 .. 2 PROVE w[n + 1 + i] = rest[i]
  <2> DEFINE x == n + 1 + i
  <2>1. x \in DOMAIN w /\ x - Len(head) - Len(buckets) = i /\ x \notin DOMAIN head /\ x - Len(head) \notin DOMAIN buckets
    BY <1>2, <1>3, <1>4, <1>7
  <2> HIDE DEF x
  <2> QED BY <1>5, <2>1 DEF AreJoined, x
<1>11. w \in Seq({w[i] : i \in DOMAIN w})
  BY <1>5 DEF AreJoined
<1>12. w[n + 2] = SumLine /\ w[n + 3] = CountLine
  BY <1>2, <1>3, <1>10
<1> QED BY <1>2, <1>6, <1>7, <1>8, <1>9, <1>11, <1>12 DEF n

LEMMA OthersAre ==
  ASSUME IsServer
  PROVE  /\ OtherLines \in Seq({OtherLines[i] : i \in DOMAIN OtherLines})
         /\ \A i \in DOMAIN OtherLines : IsConfig(OtherLines[i]) \/ IsForeign(OtherLines[i])
<1> DEFINE f == [e \in DOMAIN deployment.capacity |->
                   SampleLine("vllm:cache_config_info", "", CapacityLabels(e), 1)]
           configs == ForEach(f)
           served == TypeLine("http_requests_total", "counter")
           fine == SampleLine("http_requests_total", "", [status |-> "2xx"], 1)
           failed == SampleLine("http_requests_total", "", [status |-> "5xx"], 1)
           began == SampleLine("process_start_time_seconds", "", Nothing, 1)
           blank == [form |-> "other"]
           rest == <<served, fine, failed, began, blank>>
           S == {f[e] : e \in DOMAIN f} \cup {served, fine, failed, began, blank}
<1>1. OtherLines = configs \o rest
  BY Zenon DEF OtherLines
<1>2. /\ IsFiniteSet(DOMAIN f)
      /\ \A e \in DOMAIN f : IsConfig(f[e])
  BY DEF IsServer, IsDeployment, IsConfig
<1> HIDE DEF f
<1>3. /\ configs \in Seq({f[e] : e \in DOMAIN f}) /\ IsList(configs)
      /\ \A i \in DOMAIN configs : \E e \in DOMAIN f : configs[i] = f[e]
  BY <1>2, ForEachIs
<1> HIDE DEF configs
<1>4. IsForeign(served) /\ IsForeign(fine) /\ IsForeign(failed) /\ IsForeign(began) /\ IsForeign(blank)
  BY Zenon DEF IsForeign
<1> HIDE DEF served, fine, failed, began, blank
<1>5. /\ Len(rest) = 5 /\ DOMAIN rest = 1 .. 5 /\ \A i \in 1 .. 5 : IsForeign(rest[i])
      /\ rest \in Seq({served, fine, failed, began, blank})
  BY <1>4
<1> HIDE DEF rest
<1>6. configs \in Seq(S) /\ rest \in Seq(S)
  BY <1>3, <1>5
<1> HIDE DEF S
<1>7. IsJoined(OtherLines, S, configs, rest)
  BY <1>1, <1>6, TwoLists
<1>8. /\ OtherLines \in Seq(S) /\ Len(OtherLines) = Len(configs) + 5
      /\ \A i \in 1 .. Len(configs) + 5 :
           OtherLines[i] = IF i <= Len(configs) THEN configs[i] ELSE rest[i - Len(configs)]
  BY <1>5, <1>7, Zenon DEF IsJoined
<1>9. DOMAIN OtherLines = 1 .. Len(configs) + 5 /\ DOMAIN configs = 1 .. Len(configs) /\ Len(configs) \in Nat
  BY <1>3, <1>8 DEF IsList
<1>10. OtherLines \in Seq({OtherLines[i] : i \in DOMAIN OtherLines})
  BY <1>8
<1>11. ASSUME NEW i \in DOMAIN OtherLines PROVE IsConfig(OtherLines[i]) \/ IsForeign(OtherLines[i])
  <2>1. CASE i <= Len(configs)
    <3>1. i \in DOMAIN configs /\ OtherLines[i] = configs[i]
      BY <1>8, <1>9, <2>1
    <3> QED BY <1>2, <1>3, <3>1
  <2>2. CASE ~ (i <= Len(configs))
    <3>1. i - Len(configs) \in 1 .. 5 /\ OtherLines[i] = rest[i - Len(configs)]
      BY <1>8, <1>9, <2>2
    <3> QED BY <1>5, <3>1
  <2> QED BY <2>1, <2>2
<1> QED BY <1>10, <1>11

\* The whole text: t is the place of the histogram's TYPE line.
IsWritten(w, t) ==
  LET n == Len(layout) IN
  /\ IsList(w) /\ {t, n} \subseteq Nat \ {0} /\ t + n + 2 <= Len(w)
  /\ w[t] = TypeLine(HistogramBase, "histogram")
  /\ \A i \in 1 .. n : w[t + i] = BucketLine(i)
  /\ w[t + n + 1] = SumLine /\ w[t + n + 2] = CountLine
  /\ \A i \in DOMAIN w : i < t => IsGauge(w[i])
  /\ \A i \in DOMAIN w : i > t + n + 2 => IsConfig(w[i]) \/ IsForeign(w[i])

LEMMA WrittenIs ==
  ASSUME IsServer
  PROVE  IsWritten(Written, Len(GaugeLines) + 1)
<1> DEFINE a == GaugeLines
           b == HistogramLines
           c == OtherLines
           w == a \o b \o c
           S == {a[i] : i \in DOMAIN a} \cup {b[i] : i \in DOMAIN b} \cup {c[i] : i \in DOMAIN c}
           n == Len(layout)
           t == Len(a) + 1
<1>1. Written = w
  BY DEF Written
<1>2. /\ a \in Seq({a[i] : i \in DOMAIN a}) /\ \A i \in DOMAIN a : IsGauge(a[i])
      /\ b \in Seq({b[i] : i \in DOMAIN b}) /\ Len(b) = n + 3 /\ n \in Nat \ {0}
      /\ DOMAIN layout = 1 .. n
      /\ b[1] = TypeLine(HistogramBase, "histogram")
      /\ \A i \in DOMAIN layout : b[i + 1] = BucketLine(i)
      /\ b[n + 2] = SumLine /\ b[n + 3] = CountLine
      /\ c \in Seq({c[i] : i \in DOMAIN c}) /\ \A i \in DOMAIN c : IsConfig(c[i]) \/ IsForeign(c[i])
  BY GaugesAre, PartsAre, OthersAre DEF IsServer, IsLayout
<1> HIDE DEF a, b, c, n
<1>3. a \in Seq(S) /\ b \in Seq(S) /\ c \in Seq(S)
  BY <1>2
<1> HIDE DEF S
<1>4. AreJoined(w, S, a, b, c)
  BY <1>3, ThreeLists, Zenon DEF w
<1> HIDE DEF w
<1>5. /\ Len(a) \in Nat /\ DOMAIN a = 1 .. Len(a) /\ DOMAIN b = 1 .. n + 3
      /\ Len(c) \in Nat /\ DOMAIN c = 1 .. Len(c) /\ DOMAIN w = 1 .. Len(w) /\ Len(w) = Len(a) + n + 3 + Len(c)
      /\ IsList(w)
  <2>1. /\ Len(a) \in Nat /\ DOMAIN a = 1 .. Len(a) /\ DOMAIN b = 1 .. n + 3
        /\ Len(c) \in Nat /\ DOMAIN c = 1 .. Len(c)
    BY <1>2
  <2>2. IsList(w) /\ Len(w) = Len(a) + Len(b) + Len(c)
    BY <1>4, Zenon DEF AreJoined
  <2> QED BY <1>2, <2>1, <2>2 DEF IsList
<1>6. ASSUME NEW i \in 1 .. n + 3 PROVE w[Len(a) + i] = b[i]
  BY <1>4, <1>5, Zenon DEF AreJoined
<1>7. w[t] = TypeLine(HistogramBase, "histogram")
  BY <1>2, <1>6
<1>8. ASSUME NEW i \in 1 .. n PROVE w[t + i] = BucketLine(i)
  <2>1. i + 1 \in 1 .. n + 3 /\ Len(a) + (i + 1) = t + i
    BY <1>2, <1>5
  <2>2. w[Len(a) + (i + 1)] = b[i + 1]
    BY <1>6, <2>1
  <2> QED BY <1>2, <2>1, <2>2
<1>9. w[t + n + 1] = SumLine /\ w[t + n + 2] = CountLine
  <2>1. n + 2 \in 1 .. n + 3 /\ n + 3 \in 1 .. n + 3 /\ Len(a) + (n + 2) = t + n + 1 /\ Len(a) + (n + 3) = t + n + 2
    BY <1>2, <1>5
  <2>2. w[Len(a) + (n + 2)] = b[n + 2] /\ w[Len(a) + (n + 3)] = b[n + 3]
    BY <1>6, <2>1
  <2> QED BY <1>2, <2>1, <2>2
<1>10. ASSUME NEW i \in DOMAIN w, i < t PROVE IsGauge(w[i])
  <2>1. i \in DOMAIN a
    BY <1>5, <1>10
  <2>2. w[i] = a[i]
    BY <1>4, <2>1, Zenon DEF AreJoined
  <2> QED BY <1>2, <2>1, <2>2
<1>11. ASSUME NEW i \in DOMAIN w, i > t + n + 2 PROVE IsConfig(w[i]) \/ IsForeign(w[i])
  <2>1. i \notin DOMAIN a /\ i - Len(a) \notin DOMAIN b
    BY <1>2, <1>5, <1>11
  <2>2. i - Len(a) - Len(b) \in DOMAIN c /\ w[i] = c[i - Len(a) - Len(b)]
    BY <1>4, <2>1, Zenon DEF AreJoined
  <2> QED BY <1>2, <2>2
<1>12. t + n + 2 <= Len(w) /\ {t, n} \subseteq Nat \ {0}
  BY <1>2, <1>5
<1>13. IsWritten(w, t)
  BY <1>5, <1>7, <1>8, <1>9, <1>10, <1>11, <1>12 DEF IsWritten, n
<1> QED BY <1>1, <1>13 DEF a

LEMMA MinIn ==
  ASSUME NEW S \in SUBSET Nat, S # {}
  PROVE  Min(S) \in S /\ \A m \in S : Min(S) <= m
<1>1. \E n \in S : \A m \in S : n <= m
  BY LeastNatural
<1> QED BY <1>1, Zenon DEF Min

\* What comes of the text: t is the place of the TYPE line, 0 if it did not come.
IsRest(l) == IsPartOfIt(l) \/ IsConfig(l) \/ IsForeign(l)
IsCopy(line, l, how) == line = l \/ (IsPart(l, how) /\ line = Damaged(l))
StandsAt(i, t, l) == (IsGauge(l) /\ (t = 0 \/ i < t)) \/ (i > t /\ IsRest(l))
IsTypeAt(i, t, l) == i = t /\ l = TypeLine(HistogramBase, "histogram")

IsScraped(lines, how, t) ==
  /\ IsList(lines) /\ t \in Nat
  /\ \A i \in DOMAIN lines :
       \/ lines[i] = [form |-> "other"]
       \/ IsTypeAt(i, t, lines[i])
       \/ \E l : IsCopy(lines[i], l, how) /\ StandsAt(i, t, l)

LEMMA TypeIsNoSample ==
  ASSUME NEW base, NEW kind
  PROVE  TypeLine(base, kind).form = "type"
BY DEF TypeLine

LEMMA WrittenLine ==
  ASSUME NEW w, NEW t, IsWritten(w, t), NEW i \in DOMAIN w, DOMAIN layout = 1 .. Len(layout)
  PROVE  IsTypeAt(i, t, w[i]) \/ StandsAt(i, t, w[i])
<1> DEFINE n == Len(layout)
<1>1. /\ t \in Nat /\ n \in Nat /\ i \in Nat
      /\ w[t] = TypeLine(HistogramBase, "histogram")
      /\ \A x \in 1 .. n : w[t + x] = BucketLine(x)
      /\ w[t + n + 1] = SumLine /\ w[t + n + 2] = CountLine
      /\ \A x \in DOMAIN w : x < t => IsGauge(w[x])
      /\ \A x \in DOMAIN w : x > t + n + 2 => IsConfig(w[x]) \/ IsForeign(w[x])
  BY DEF IsWritten, IsList
<1> HIDE DEF n
<1>2. CASE i < t
  BY <1>1, <1>2 DEF StandsAt
<1>3. CASE i = t
  BY <1>1, <1>3, Zenon DEF IsTypeAt
<1>4. CASE i > t + n + 2
  <2>1. i > t
    BY <1>1, <1>4
  <2> QED BY <1>1, <1>4, <2>1, Zenon DEF IsRest, StandsAt
<1>5. CASE i > t /\ i <= t + n
  <2> DEFINE x == i - t
  <2>1. x \in 1 .. n /\ t + x = i
    BY <1>1, <1>5
  <2> HIDE DEF x
  <2>2. w[i] = BucketLine(x)
    BY <1>1, <2>1
  <2>3. x \in DOMAIN layout
    BY <2>1 DEF n
  <2>4. IsPartOfIt(w[i])
    BY <2>2, <2>3, Zenon DEF IsPartOfIt
  <2> QED BY <1>5, <2>4, Zenon DEF IsRest, StandsAt
<1>6. CASE i = t + n + 1 \/ i = t + n + 2
  <2>1. w[i] \in {SumLine, CountLine} /\ i > t
    BY <1>1, <1>6
  <2>2. IsPartOfIt(w[i])
    BY <2>1, Zenon DEF IsPartOfIt
  <2> QED BY <2>1, <2>2, Zenon DEF IsRest, StandsAt
<1>7. i < t \/ i = t \/ i > t + n + 2 \/ (i > t /\ i <= t + n) \/ i = t + n + 1 \/ i = t + n + 2
  BY <1>1
<1> QED BY <1>2, <1>3, <1>4, <1>5, <1>6, <1>7

LEMMA WholeIsScraped ==
  ASSUME NEW w, NEW t, IsWritten(w, t), DOMAIN layout = 1 .. Len(layout), NEW how
  PROVE  IsScraped(w, how, t)
<1>1. IsList(w) /\ t \in Nat
  BY DEF IsWritten
<1>2. ASSUME NEW i \in DOMAIN w
      PROVE  \/ IsTypeAt(i, t, w[i])
             \/ \E l : IsCopy(w[i], l, how) /\ StandsAt(i, t, l)
  <2>1. \/ IsTypeAt(i, t, w[i])
        \/ StandsAt(i, t, w[i])
    BY WrittenLine, Zenon
  <2>2. IsCopy(w[i], w[i], how)
    BY Zenon DEF IsCopy
  <2> QED BY <2>1, <2>2
<1> QED BY <1>1, <1>2, Zenon DEF IsScraped

LEMMA DamagedIsScraped ==
  ASSUME IsServer, NEW how
  PROVE  \E t : IsScraped(Damage(Written, how), how, t)
<1> DEFINE w == Written
           t == Len(GaugeLines) + 1
           parts == {i \in DOMAIN w : IsPart(w[i], how)}
           m == Min(parts)
<1>1. IsWritten(w, t) /\ DOMAIN layout = 1 .. Len(layout)
  BY WrittenIs DEF IsServer, IsLayout
<1> HIDE DEF w, t
<1>2. IsList(w) /\ t \in Nat /\ t # 0
  BY <1>1 DEF IsWritten
<1>3. CASE Damage(Written, how) = w
  BY <1>1, <1>3, WholeIsScraped
<1>4. CASE how = "comments"
  <2> DEFINE d == [i \in DOMAIN w |-> IF w[i].form = "sample" THEN w[i] ELSE [form |-> "other"]]
  <2>1. Damage(Written, how) = d
    BY <1>4 DEF Damage, w
  <2>2. IsList(d)
    BY <1>2 DEF IsList
  <2>3. ASSUME NEW i \in DOMAIN w, w[i].form = "sample"
        PROVE  \E l : IsCopy(w[i], l, how) /\ StandsAt(i, 0, l)
    <3>1. ~ IsTypeAt(i, t, w[i])
      BY <2>3, TypeIsNoSample DEF IsTypeAt
    <3>2. IsGauge(w[i]) \/ IsRest(w[i])
      BY <1>1, <3>1, WrittenLine, Zenon DEF StandsAt
    <3>3. i > 0
      BY <1>2 DEF IsList
    <3>4. StandsAt(i, 0, w[i])
      BY <3>2, <3>3 DEF StandsAt
    <3>5. IsCopy(w[i], w[i], how)
      BY Zenon DEF IsCopy
    <3> QED BY <3>4, <3>5
  <2>4. IsScraped(d, how, 0)
    <3>1. 0 \in Nat
      OBVIOUS
    <3>2. DOMAIN d = DOMAIN w /\ \A i \in DOMAIN w : (d[i] = w[i] /\ w[i].form = "sample") \/ d[i] = [form |-> "other"]
      OBVIOUS
    <3> HIDE DEF d
    <3> QED BY <2>2, <2>3, <3>1, <3>2, Zenon DEF IsScraped
  <2> QED BY <2>1, <2>4
<1>5. CASE how = "bare"
  <2>1. Damage(Written, how) = OtherLines
    BY <1>5 DEF Damage
  <2>2. /\ OtherLines \in Seq({OtherLines[i] : i \in DOMAIN OtherLines})
        /\ \A i \in DOMAIN OtherLines : IsConfig(OtherLines[i]) \/ IsForeign(OtherLines[i])
    BY OthersAre
  <2>3. IsList(OtherLines)
    BY <2>2 DEF IsList
  <2>4. ASSUME NEW i \in DOMAIN OtherLines
        PROVE  \E l : IsCopy(OtherLines[i], l, how) /\ StandsAt(i, 0, l)
    <3>1. IsRest(OtherLines[i]) /\ i > 0
      BY <2>2, <2>3 DEF IsRest, IsList
    <3>2. StandsAt(i, 0, OtherLines[i])
      BY <3>1 DEF StandsAt
    <3>3. IsCopy(OtherLines[i], OtherLines[i], how)
      BY Zenon DEF IsCopy
    <3> QED BY <3>2, <3>3
  <2>5. IsScraped(OtherLines, how, 0)
    <3>1. 0 \in Nat
      OBVIOUS
    <3> QED BY <2>3, <2>4, <3>1, Zenon DEF IsScraped
  <2> QED BY <2>1, <2>5
<1>6. CASE how \notin {"none", "comments", "bare"} /\ parts # {}
  <2> DEFINE d == [w EXCEPT ![m] = Damaged(@)]
  <2>1. Damage(Written, how) = d
    BY <1>6, Zenon DEF Damage, w
  <2>2. m \in parts
    <3>1. parts \in SUBSET Nat
      BY <1>2 DEF IsList
    <3> HIDE DEF parts
    <3> QED BY <1>6, <3>1, MinIn
  <2>3. m \in DOMAIN w /\ IsPart(w[m], how)
    BY <2>2
  <2> HIDE DEF parts, m
  <2>4. /\ IsList(d) /\ DOMAIN d = DOMAIN w /\ d[m] = Damaged(w[m])
        /\ \A i \in DOMAIN w : i # m => d[i] = w[i]
    BY <1>2, <2>3 DEF IsList
  <2> HIDE DEF d
  <2>5. ASSUME NEW i \in DOMAIN w
        PROVE  \/ IsTypeAt(i, t, d[i])
               \/ \E l : IsCopy(d[i], l, how) /\ StandsAt(i, t, l)
    <3>1. IsCopy(d[i], w[i], how)
      BY <2>3, <2>4, Zenon DEF IsCopy
    <3>2. \/ IsTypeAt(i, t, w[i])
          \/ StandsAt(i, t, w[i])
      BY <1>1, WrittenLine, Zenon
    <3>3. IsTypeAt(i, t, w[i]) => d[i] = w[i]
      BY <2>3, <2>4, TypeIsNoSample DEF IsPart, IsTypeAt
    <3> QED BY <3>1, <3>2, <3>3
  <2>6. IsScraped(d, how, t)
    BY <1>2, <2>4, <2>5, Zenon DEF IsScraped
  <2> QED BY <2>1, <2>6
<1>7. Damage(Written, how) = w \/ how \in {"comments", "bare"} \/ (how \notin {"none", "comments", "bare"} /\ parts # {})
  BY Zenon DEF Damage, w
<1> QED BY <1>3, <1>4, <1>5, <1>6, <1>7

\* What a line is, as far as the parser's order of things goes.
IsBlank(line) == line.form = "other"
IsTypeOf(line, base, kind) == line.form = "type" /\ line.name = <<base, "">> /\ line.kind = kind
IsSampleOf(line, base) == line.form = "sample" /\ \E part : line.name = <<base, part>>

LEMMA LinesAre ==
  ASSUME NEW base, NEW part, NEW labels, NEW v, NEW kind
  PROVE  /\ IsTypeOf(TypeLine(base, kind), base, kind)
         /\ LET line == SampleLine(base, part, labels, v) IN
            IsSampleOf(line, base) /\ IsSampleOf(Damaged(line), base)
         /\ IsBlank([form |-> "other"])
BY DEF TypeLine, SampleLine, Damaged, IsTypeOf, IsSampleOf, IsBlank

LEMMA GaugeCopied ==
  ASSUME NEW line, NEW l, NEW how, IsCopy(line, l, how), IsGauge(l)
  PROVE  IsTypeOf(line, GaugeBase, "gauge") \/ IsSampleOf(line, GaugeBase)
<1>1. CASE l = TypeLine(GaugeBase, "gauge")
  <2>1. ~ IsPart(l, how)
    BY <1>1, TypeIsNoSample DEF IsPart
  <2> QED BY <1>1, <2>1, LinesAre, Zenon DEF IsCopy
<1>2. CASE \E k \in deployment.keys : l = SampleLine(GaugeBase, "", KeyLabels(k), 0)
  BY <1>2, LinesAre, Zenon DEF IsCopy
<1> QED BY <1>1, <1>2, Zenon DEF IsGauge

RestBases ==
  {HistogramBase, "vllm:cache_config_info", "http_requests_total", "process_start_time_seconds"}

LEMMA RestCopied ==
  ASSUME NEW line, NEW l, NEW how, IsCopy(line, l, how), IsRest(l)
  PROVE  \/ IsBlank(line)
         \/ IsTypeOf(line, "http_requests_total", "counter")
         \/ \E base \in RestBases : IsSampleOf(line, base)
<1>1. CASE IsPartOfIt(l)
  <2>1. IsSampleOf(l, HistogramBase) /\ IsSampleOf(Damaged(l), HistogramBase)
    BY <1>1, LinesAre, Zenon DEF IsPartOfIt, SumLine, CountLine, BucketLine
  <2>2. HistogramBase \in RestBases
    BY Zenon DEF RestBases
  <2> QED BY <2>1, <2>2, Zenon DEF IsCopy
<1>2. CASE IsConfig(l)
  <2>1. IsSampleOf(l, "vllm:cache_config_info") /\ IsSampleOf(Damaged(l), "vllm:cache_config_info")
    BY <1>2, LinesAre, Zenon DEF IsConfig
  <2>2. "vllm:cache_config_info" \in RestBases
    BY Zenon DEF RestBases
  <2> QED BY <2>1, <2>2, Zenon DEF IsCopy
<1>3. CASE l = TypeLine("http_requests_total", "counter")
  <2>1. ~ IsPart(l, how)
    BY <1>3, TypeIsNoSample DEF IsPart
  <2> QED BY <1>3, <2>1, LinesAre, Zenon DEF IsCopy
<1>4. CASE \E class \in {"2xx", "5xx"} : l = SampleLine("http_requests_total", "", [status |-> class], 1)
  <2>1. IsSampleOf(l, "http_requests_total") /\ IsSampleOf(Damaged(l), "http_requests_total")
    BY <1>4, LinesAre, Zenon
  <2>2. "http_requests_total" \in RestBases
    BY Zenon DEF RestBases
  <2> QED BY <2>1, <2>2, Zenon DEF IsCopy
<1>5. CASE l = SampleLine("process_start_time_seconds", "", Nothing, 1)
  <2>1. IsSampleOf(l, "process_start_time_seconds") /\ IsSampleOf(Damaged(l), "process_start_time_seconds")
    BY <1>5, LinesAre, Zenon
  <2>2. "process_start_time_seconds" \in RestBases
    BY Zenon DEF RestBases
  <2> QED BY <2>1, <2>2, Zenon DEF IsCopy
<1>6. CASE l = [form |-> "other"]
  <2>1. IsBlank(l) /\ ~ IsPart(l, how)
    BY <1>6 DEF IsBlank, IsPart
  <2> QED BY <2>1, Zenon DEF IsCopy
<1> QED BY <1>1, <1>2, <1>3, <1>4, <1>5, <1>6, Zenon DEF IsRest, IsForeign

\* What any line of a scraped text is.
IsAnyOf(line, i, t) ==
  \/ IsBlank(line)
  \/ i = t /\ IsTypeOf(line, HistogramBase, "histogram")
  \/ IsTypeOf(line, GaugeBase, "gauge")
  \/ IsTypeOf(line, "http_requests_total", "counter")
  \/ IsSampleOf(line, GaugeBase)
  \/ i > t /\ \E base \in RestBases : IsSampleOf(line, base)

LEMMA ScrapedLine ==
  ASSUME NEW lines, NEW how, NEW t, IsScraped(lines, how, t), NEW i \in DOMAIN lines
  PROVE  IsAnyOf(lines[i], i, t)
<1>1. CASE lines[i] = [form |-> "other"]
  BY <1>1, LinesAre, Zenon DEF IsAnyOf
<1>2. CASE IsTypeAt(i, t, lines[i])
  BY <1>2, LinesAre, Zenon DEF IsTypeAt, IsAnyOf
<1>3. CASE \E l : IsCopy(lines[i], l, how) /\ StandsAt(i, t, l)
  <2>1. PICK l : IsCopy(lines[i], l, how) /\ StandsAt(i, t, l)
    BY <1>3
  <2> QED BY <2>1, GaugeCopied, RestCopied, Zenon DEF StandsAt, IsAnyOf
<1> QED BY <1>1, <1>2, <1>3, Zenon DEF IsScraped

LEMMA BasesDiffer ==
  GaugeBase \notin RestBases /\ HistogramBase # "http_requests_total" /\ GaugeBase # HistogramBase
BY DEF GaugeBase, HistogramBase, RestBases

LEMMA PairIs ==
  ASSUME NEW name, NEW base, NEW part, name = <<base, part>>
  PROVE  IsPair(name) /\ name[1] = base /\ name[2] = part
BY DEF IsPair

LEMMA TypeOfIs ==
  ASSUME NEW line, NEW base, NEW kind, IsTypeOf(line, base, kind)
  PROVE  /\ line.form = "type" /\ line.kind = kind /\ line.name = <<base, "">>
         /\ IsPair(line.name) /\ line.name[1] = base /\ line.name[2] = ""
BY PairIs, Zenon DEF IsTypeOf

LEMMA SampleOfIs ==
  ASSUME NEW line, NEW base, IsSampleOf(line, base)
  PROVE  line.form = "sample" /\ IsPair(line.name) /\ line.name[1] = base
BY PairIs, Zenon DEF IsSampleOf

IsInOrder(line, i, t) ==
  /\ line.form \in {"type", "sample", "other"}
  /\ line.form # "other" => IsPair(line.name)
  /\ line.form = "type" =>
       /\ line.name[2] = ""
       /\ line.kind = "histogram" => i = t /\ line.name = <<HistogramBase, "">>
       /\ i # t => line.name[1] # HistogramBase
  /\ line.form = "sample" /\ line.name[1] = HistogramBase => i > t

LEMMA LinesAreInOrder ==
  ASSUME NEW line, NEW i, NEW t, IsAnyOf(line, i, t)
  PROVE  IsInOrder(line, i, t)
<1>2. CASE IsBlank(line)
  BY <1>2 DEF IsBlank, IsInOrder
<1>3. CASE i = t /\ IsTypeOf(line, HistogramBase, "histogram")
  <2>1. /\ line.form = "type" /\ line.name = <<HistogramBase, "">> /\ line.name[2] = ""
        /\ IsPair(line.name)
    BY <1>3, TypeOfIs, Zenon
  <2> QED BY <1>3, <2>1 DEF IsInOrder
<1>4. ASSUME NEW base, NEW kind, IsTypeOf(line, base, kind), base # HistogramBase, kind # "histogram"
      PROVE  IsInOrder(line, i, t)
  <2>1. /\ line.form = "type" /\ line.kind = kind /\ line.name[1] = base /\ line.name[2] = ""
        /\ IsPair(line.name)
    BY <1>4, TypeOfIs, Zenon
  <2> QED BY <1>4, <2>1 DEF IsInOrder
<1>5. CASE IsSampleOf(line, GaugeBase)
  BY <1>5, SampleOfIs, BasesDiffer DEF IsInOrder
<1>6. ASSUME i > t, NEW base, IsSampleOf(line, base)
      PROVE  IsInOrder(line, i, t)
  BY <1>6, SampleOfIs DEF IsInOrder
<1>7. CASE IsTypeOf(line, GaugeBase, "gauge")
  BY <1>4, <1>7, BasesDiffer
<1>8. CASE IsTypeOf(line, "http_requests_total", "counter")
  BY <1>4, <1>8, BasesDiffer
<1> QED BY <1>2, <1>3, <1>5, <1>6, <1>7, <1>8, Zenon DEF IsAnyOf

LEMMA ScrapedIsText ==
  ASSUME NEW lines, NEW how, NEW t, IsScraped(lines, how, t)
  PROVE  IsText(lines) /\ IsOrderly(lines)
<1>1. IsList(lines) /\ t \in Nat
  BY DEF IsScraped
<1>2. \A i \in DOMAIN lines : IsInOrder(lines[i], i, t) /\ i \in Nat
  BY <1>1, ScrapedLine, LinesAreInOrder DEF IsList
<1>3. IsText(lines)
  BY <1>1, <1>2 DEF IsText, IsInOrder
<1>4. ASSUME NEW i \in DOMAIN lines
      PROVE  /\ lines[i].form # "other" => IsPair(lines[i].name)
             /\ lines[i].form \in {"type", "help"} => lines[i].name[2] = ""
  BY <1>2 DEF IsInOrder
<1>5. ASSUME NEW j \in Histograms(lines), NEW i \in DOMAIN lines
      PROVE  /\ lines[i].form = "type" /\ i # j => lines[i].name # lines[j].name
             /\ lines[i].form = "sample" /\ i < j => lines[i].name[1] # lines[j].name[1]
  <2> DEFINE name == lines[i].name
  <2>1. j \in DOMAIN lines /\ lines[j].form = "type" /\ lines[j].kind = "histogram"
    BY DEF Histograms
  <2>2. j = t /\ lines[j].name = <<HistogramBase, "">>
    BY <1>2, <2>1 DEF IsInOrder
  <2>3. lines[j].name[1] = HistogramBase
    BY <2>2, PairIs
  <2>4. ~ (i < j /\ i > t)
    <3>1. i \in Nat /\ j = t
      BY <1>2, <2>2
    <3> QED BY <1>1, <3>1
  <2>5. lines[i].form = "type" /\ i # j => name[1] # HistogramBase
    BY <1>2, <2>2 DEF IsInOrder
  <2>6. lines[i].form = "sample" /\ i < j => name[1] # HistogramBase
    BY <1>2, <2>4 DEF IsInOrder
  <2> HIDE DEF name
  <2>7. lines[i].form = "type" /\ i # j => name # lines[j].name
    BY <2>3, <2>5
  <2> QED BY <2>3, <2>6, <2>7 DEF name
<1>6. IsOrderly(lines)
  BY <1>4, <1>5, Zenon DEF IsOrderly
<1> QED BY <1>3, <1>6

-----------------------------------------------------------------------------
(* The server, and every text that comes of it.                            *)

LEMMA SumIs ==
  ASSUME NEW f, IsFiniteSet(DOMAIN f), \A x \in DOMAIN f : f[x] \in Int
  PROVE  Sum(f) = Total(f, DOMAIN f) /\ Sum(f) \in Int
<1> DEFINE S == DOMAIN f
<1>1. S = DOMAIN f /\ IsFiniteSet(S) /\ \A x \in S : f[x] \in Int
  OBVIOUS
<1> HIDE DEF S
<1>2. MapThenSumSet(LAMBDA x : f[x], S) = Total(f, S)
  BY <1>1, SumSetIsTotal
<1>3. Sum(f) = Total(f, S)
  BY <1>1, <1>2 DEF Sum
<1>4. Total(f, S) \in Int
  BY <1>1, TotalType
<1> QED BY <1>1, <1>3, <1>4

LEMMA NoneExceeds ==
  ASSUME NEW f, NEW S, IsFiniteSet(S), f \in [S -> Nat], NEW v \in S
  PROVE  f[v] <= Sum(f)
<1>1. f[v] + Total(f, S \ {v}) = Total(f, S)
  BY TotalRemove
<1>2. Total(f, {}) = 0
  BY TotalEmpty
<1>3. Total(f, {}) <= Total(f, S \ {v})
  <2>1. IsFiniteSet(S \ {v}) /\ {} \in SUBSET (S \ {v})
    BY FS_Subset
  <2> QED BY <2>1, TotalMonotone
<1>4. Total(f, S) \in Int /\ Total(f, S \ {v}) \in Int
  BY FS_Subset, TotalType
<1>5. Sum(f) = Total(f, S)
  BY SumIs
<1> QED BY <1>1, <1>2, <1>3, <1>4, <1>5

ServerInv ==
  /\ now \in 1 .. Horizon
  /\ deployment \in Deployments /\ layout \in Range(Layouts) /\ run \in 1 .. MaxRuns
  /\ seen \in [Latencies -> 0 .. MaxSeen]

LEMMA ServerStays ==
  ASSUME ServerInv, [Next]_vars
  PROVE  ServerInv'
<1>1. CASE Elapse
  BY <1>1, PipelineAssumption DEF ServerInv, Elapse, serverVars
<1>2. ASSUME NEW v \in Latencies, Observe(v) PROVE ServerInv'
  <2>1. seen[v] <= Sum(seen) /\ Sum(seen) < MaxSeen
    <3>1. seen \in [Latencies -> Nat]
      BY DEF ServerInv
    <3> QED BY <1>2, <3>1, NoneExceeds, PipelineAssumption DEF Observe
  <2>2. Sum(seen) \in Int
    <3>1. DOMAIN seen = Latencies /\ \A x \in Latencies : seen[x] \in Int
      BY DEF ServerInv
    <3> QED BY <3>1, SumIs, PipelineAssumption
  <2>3. seen[v] + 1 \in 0 .. MaxSeen
    BY <2>1, <2>2, PipelineAssumption DEF ServerInv
  <2>4. seen' = [seen EXCEPT ![v] = seen[v] + 1]
    BY <1>2 DEF Observe
  <2>5. seen' \in [Latencies -> 0 .. MaxSeen]
    BY <2>3, <2>4 DEF ServerInv
  <2> QED BY <1>2, <2>5 DEF ServerInv, Observe
<1>3. ASSUME NEW version \in DOMAIN Layouts, Restart(version) PROVE ServerInv'
  <2>1. Layouts[version] \in Range(Layouts)
    BY DEF Range
  <2>2. NoneSeen \in [Latencies -> 0 .. MaxSeen]
    BY PipelineAssumption DEF NoneSeen
  <2> QED BY <1>3, <2>1, <2>2, PipelineAssumption DEF ServerInv, Restart
<1>4. ASSUME NEW how \in Damages, Scrape(how) PROVE ServerInv'
  BY <1>4, Zenon DEF ServerInv, Scrape, serverVars
<1>5. CASE UNCHANGED vars
  BY <1>5 DEF ServerInv, vars, serverVars
<1> QED BY <1>1, <1>2, <1>3, <1>4, <1>5 DEF Next

LEMMA ServerBegins ==
  ASSUME Init
  PROVE  ServerInv
<1>1. Layouts[1] \in Range(Layouts)
  BY PipelineAssumption DEF Range
<1>2. NoneSeen \in [Latencies -> 0 .. MaxSeen]
  BY PipelineAssumption DEF NoneSeen
<1> QED BY <1>1, <1>2, PipelineAssumption DEF Init, ServerInv

LEMMA ServerIs ==
  ASSUME ServerInv
  PROVE  IsServer
<1>1. IsDeployment(deployment) /\ IsLayout(layout)
  BY PipelineAssumption DEF ServerInv
<1>2. seen \in [Latencies -> Nat]
  BY DEF ServerInv
<1> QED BY <1>1, <1>2 DEF ServerInv, IsServer

TextInv == IsText(text) /\ IsOrderly(text)

LEMMA EmptyIsText == IsText(<<>>) /\ IsOrderly(<<>>)
BY DEF IsText, IsOrderly, IsList, Histograms

LEMMA TextStays ==
  ASSUME ServerInv, TextInv, [Next]_vars
  PROVE  TextInv'
<1>1. ASSUME text' = <<>> PROVE TextInv'
  BY <1>1, EmptyIsText DEF TextInv
<1>2. ASSUME text' = text PROVE TextInv'
  BY <1>2 DEF TextInv
<1>3. ASSUME NEW how \in Damages, Scrape(how) PROVE TextInv'
  <2>1. text' = Damage(Written, how)
    BY <1>3, Zenon DEF Scrape
  <2>2. \E t : IsScraped(Damage(Written, how), how, t)
    BY ServerIs, DamagedIsScraped
  <2>3. IsText(Damage(Written, how)) /\ IsOrderly(Damage(Written, how))
    BY <2>2, ScrapedIsText
  <2> QED BY <2>1, <2>3, Zenon DEF TextInv
<1>4. CASE Elapse
  BY <1>1, <1>4 DEF Elapse
<1>5. ASSUME NEW v \in Latencies, Observe(v) PROVE TextInv'
  BY <1>2, <1>5 DEF Observe
<1>6. ASSUME NEW version \in DOMAIN Layouts, Restart(version) PROVE TextInv'
  BY <1>2, <1>6 DEF Restart
<1>7. CASE UNCHANGED vars
  BY <1>2, <1>7 DEF vars
<1> QED BY <1>3, <1>4, <1>5, <1>6, <1>7 DEF Next

\* parse.rs: whatever the server is and however its text was damaged, every
\* sample line of it is in a family or an issue, and every part of its histogram
\* is in that.
THEOREM NothingIsDropped == Spec => []TextAccounted
<1>1. Init => ServerInv /\ TextInv
  <2>1. ASSUME Init PROVE TextInv
    BY <2>1, EmptyIsText DEF Init, TextInv
  <2> QED BY <2>1, ServerBegins
<1>2. ServerInv /\ TextInv /\ [Next]_vars => (ServerInv /\ TextInv)'
  BY ServerStays, TextStays
<1>3. ASSUME TextInv PROVE TextAccounted
  <2>1. IsText(text) /\ IsOrderly(text)
    BY <1>3 DEF TextInv
  <2> QED BY <2>1, EverySampleIsCounted, HistogramsKeepTheirSamples, Zenon DEF TextAccounted
<1> QED BY <1>1, <1>2, <1>3, PTL DEF Spec

-----------------------------------------------------------------------------
(* Where what is in a family comes from.                                   *)

IsFrom(lines, family) ==
  /\ \A s \in ToSet(family.samples) : \E i \in DOMAIN lines :
       /\ lines[i].form = "sample" /\ parse_sample_line(lines[i])
       /\ lines[i].name[1] = family.name[1] /\ s = TheSample(lines[i])
  /\ family.kind = "histogram" => \E j \in Histograms(lines) : lines[j].name = family.name

AllFrom(lines, out) == \A x \in DOMAIN out.families : IsFrom(lines, out.families[x])

LEMMA EnsuredFrom ==
  ASSUME NEW lines, NEW out \in OutType(lines), NEW name \in NamesOf(lines), AllFrom(lines, out)
  PROVE  AllFrom(lines, ensure_family(out, name))
<1> DEFINE known == ensure_family(out, name)
<1>1. known \in OutType(lines) /\ (known = out \/ Added(out, name, known))
  BY EnsuredIs
<1> HIDE DEF known
<1>2. CASE known = out
  BY <1>2 DEF known
<1>3. CASE Added(out, name, known)
  <2> DEFINE n == Len(out.families)
  <2>1. n \in Nat /\ DOMAIN out.families = 1 .. n /\ DOMAIN known.families = 1 .. n + 1
    BY <1>1, <1>3, SizesAre DEF Added
  <2>2. /\ \A i \in 1 .. n : known.families[i] = out.families[i]
        /\ known.families[n + 1] = NewFamily(name)
    BY <1>3 DEF Added
  <2> HIDE DEF n
  <2>3. IsFrom(lines, NewFamily(name))
    BY DEF IsFrom, NewFamily, ToSet
  <2>4. ASSUME NEW x \in 1 .. n + 1 PROVE IsFrom(lines, known.families[x])
    <3>1. CASE x \in 1 .. n
      BY <2>1, <2>2, <3>1 DEF AllFrom
    <3>2. CASE x = n + 1
      BY <2>2, <2>3, <3>2
    <3> QED BY <2>1, <3>1, <3>2
  <2> QED BY <2>1, <2>4 DEF AllFrom, known
<1> QED BY <1>1, <1>2, <1>3

LEMMA AttachedFrom ==
  ASSUME NEW lines, NEW out \in OutType(lines), NEW i \in DOMAIN lines, AllFrom(lines, out),
         lines[i].form = "sample", parse_sample_line(lines[i])
  PROVE  AllFrom(lines, attach_sample(out, lines[i]))
<1> DEFINE owner == Owner(out, lines[i].name)
           known == ensure_family(out, owner)
           j == IndexOf(known, owner)
           new == attach_sample(out, lines[i])
           s == TheSample(lines[i])
<1>1. /\ known \in OutType(lines) /\ new \in OutType(lines)
      /\ j \in DOMAIN known.families /\ known.families[j].name = owner
      /\ Len(new.families) = Len(known.families)
      /\ \A x \in DOMAIN known.families :
           /\ new.families[x].name = known.families[x].name
           /\ new.families[x].kind = known.families[x].kind
           /\ x # j => new.families[x].samples = known.families[x].samples
      /\ new.families[j].samples = Append(known.families[j].samples, s)
  BY AttachedIs
<1>2. owner \in NamesOf(lines) /\ owner[1] = lines[i].name[1]
  <2>1. owner \in {lines[i].name, <<lines[i].name[1], "">>} /\ owner \in NamesOf(lines)
    BY OwnerIs
  <2>2. <<lines[i].name[1], "">>[1] = lines[i].name[1]
    OBVIOUS
  <2> HIDE DEF owner
  <2> QED BY <2>1, <2>2, Zenon
<1>3. AllFrom(lines, known)
  BY <1>2, EnsuredFrom
<1> HIDE DEF known, j, new, owner
<1>4. DOMAIN new.families = DOMAIN known.families
  BY <1>1, SizesAre
<1>5. known.families[j].samples \in Seq(SampleType(lines))
  <2>1. known.families \in Seq(FamilyType(lines))
    BY <1>1 DEF OutType
  <2>2. known.families[j] \in FamilyType(lines)
    BY <1>1, <2>1
  <2> QED BY <2>2 DEF FamilyType
<1>6. ToSet(new.families[j].samples) \subseteq ToSet(known.families[j].samples) \cup {s}
  <2> DEFINE a == known.families[j].samples
             b == Append(a, s)
  <2>1. Len(b) = Len(a) + 1 /\ Len(a) \in Nat /\ b[Len(a) + 1] = s /\ \A y \in 1 .. Len(a) : b[y] = a[y]
    BY <1>5
  <2>2. DOMAIN b = 1 .. Len(a) + 1 /\ DOMAIN a = 1 .. Len(a)
    BY <1>5
  <2> HIDE DEF a, b
  <2>3. \A y \in 1 .. Len(a) + 1 : y \in 1 .. Len(a) \/ y = Len(a) + 1
    BY <2>1
  <2>4. ToSet(b) \subseteq ToSet(a) \cup {s}
    BY <2>1, <2>2, <2>3 DEF ToSet
  <2> QED BY <1>1, <2>4 DEF a, b
<1>7. ASSUME NEW x \in DOMAIN known.families PROVE IsFrom(lines, new.families[x])
  <2>1. IsFrom(lines, known.families[x])
    BY <1>3 DEF AllFrom
  <2>2. new.families[x].kind = "histogram" => \E y \in Histograms(lines) : lines[y].name = new.families[x].name
    BY <1>1, <2>1 DEF IsFrom
  <2>3. ASSUME NEW r \in ToSet(new.families[x].samples)
        PROVE  \E y \in DOMAIN lines :
                 /\ lines[y].form = "sample" /\ parse_sample_line(lines[y])
                 /\ lines[y].name[1] = new.families[x].name[1] /\ r = TheSample(lines[y])
    <3>1. CASE r \in ToSet(known.families[x].samples)
      BY <1>1, <2>1, <3>1 DEF IsFrom
    <3>2. CASE r \notin ToSet(known.families[x].samples)
      <4>1. x = j /\ r = s
        BY <1>1, <1>6, <2>3, <3>2
      <4>2. new.families[x].name[1] = lines[i].name[1]
        BY <1>1, <1>2, <4>1
      <4> QED BY <4>1, <4>2
    <3> QED BY <3>1, <3>2
  <2> QED BY <2>2, <2>3, Zenon DEF IsFrom
<1> QED BY <1>4, <1>7 DEF AllFrom, new

LEMMA CommentedFrom ==
  ASSUME NEW lines, NEW out \in OutType(lines), NEW i \in DOMAIN lines, AllFrom(lines, out),
         lines[i].form \in {"type", "help"}
  PROVE  AllFrom(lines, handle_comment(out, lines[i]))
<1> DEFINE known == ensure_family(out, lines[i].name)
           j == IndexOf(known, lines[i].name)
           new == handle_comment(out, lines[i])
<1>1. /\ known \in OutType(lines) /\ new \in OutType(lines)
      /\ j \in DOMAIN known.families /\ known.families[j].name = lines[i].name
      /\ Len(new.families) = Len(known.families)
      /\ \A x \in DOMAIN known.families :
           /\ new.families[x].name = known.families[x].name
           /\ new.families[x].samples = known.families[x].samples
           /\ x # j => new.families[x].kind = known.families[x].kind
      /\ new.families[j].kind = "histogram" =>
           \/ known.families[j].kind = "histogram"
           \/ lines[i].form # "help" /\ lines[i].kind = "histogram"
  BY CommentedIs
<1>2. lines[i].name \in NamesOf(lines)
  BY DEF NamesOf
<1>3. AllFrom(lines, known)
  BY <1>2, EnsuredFrom
<1> HIDE DEF known, j, new
<1>4. DOMAIN new.families = DOMAIN known.families
  BY <1>1, SizesAre
<1>5. ASSUME NEW x \in DOMAIN known.families PROVE IsFrom(lines, new.families[x])
  <2>1. IsFrom(lines, known.families[x])
    BY <1>3 DEF AllFrom
  <2>2. ASSUME new.families[x].kind = "histogram"
        PROVE  \E y \in Histograms(lines) : lines[y].name = new.families[x].name
    <3>1. CASE known.families[x].kind = "histogram"
      BY <1>1, <2>1, <3>1 DEF IsFrom
    <3>2. CASE known.families[x].kind # "histogram"
      <4>1. x = j /\ lines[i].form = "type" /\ lines[i].kind = "histogram"
        BY <1>1, <2>2, <3>2
      <4>2. i \in Histograms(lines) /\ lines[i].name = new.families[x].name
        BY <1>1, <4>1 DEF Histograms
      <4> QED BY <4>2
    <3> QED BY <3>1, <3>2
  <2>3. /\ new.families[x].samples = known.families[x].samples
        /\ new.families[x].name = known.families[x].name
    BY <1>1
  <2>4. \A s \in ToSet(new.families[x].samples) : \E y \in DOMAIN lines :
          /\ lines[y].form = "sample" /\ parse_sample_line(lines[y])
          /\ lines[y].name[1] = new.families[x].name[1] /\ s = TheSample(lines[y])
    BY <2>1, <2>3 DEF IsFrom
  <2> QED BY <2>2, <2>4, Zenon DEF IsFrom
<1> QED BY <1>4, <1>5 DEF AllFrom, new

LEMMA LineFrom ==
  ASSUME NEW lines, IsText(lines), NEW out \in OutType(lines), NEW i \in DOMAIN lines,
         AllFrom(lines, out)
  PROVE  AllFrom(lines, Line(out, lines[i]))
<1>1. CASE lines[i].form \in {"help", "type"}
  <2>1. Line(out, lines[i]) = handle_comment(out, lines[i])
    BY <1>1 DEF Line
  <2> QED BY <1>1, <2>1, CommentedFrom
<1>2. CASE lines[i].form = "sample" /\ parse_sample_line(lines[i])
  <2>1. Line(out, lines[i]) = attach_sample(out, lines[i])
    BY <1>2 DEF Line
  <2> QED BY <1>2, <2>1, AttachedFrom
<1>3. CASE lines[i].form = "other" \/ (lines[i].form = "sample" /\ ~ parse_sample_line(lines[i]))
  <2>1. Line(out, lines[i]).families = out.families
    BY <1>3, IssueIs DEF Line
  <2> QED BY <2>1 DEF AllFrom
<1> QED BY <1>1, <1>2, <1>3 DEF IsText

\* Every sample in a family is of a line of the family's base, and a histogram
\* was declared.
LEMMA ParsedFrom ==
  ASSUME NEW lines, IsText(lines)
  PROVE  AllFrom(lines, parse_text(lines)) /\ parse_text(lines) \in OutType(lines)
<1> DEFINE n == Len(lines)
<1>1. n \in Nat /\ DOMAIN lines = 1 .. n /\ IsList(lines)
  BY DEF IsText, IsList
<1>2. PICK c \in [0 .. n -> OutType(lines)] :
         /\ c[0] = NoText
         /\ \A i \in 1 .. n : c[i] = Line(c[i - 1], lines[i])
         /\ parse_text(lines) = c[n]
  BY <1>1, ParsedIs
<1> HIDE DEF n
<1> DEFINE T == {i \in 0 .. n : AllFrom(lines, c[i])}
<1>3. 0 \in T
  <2>1. DOMAIN NoText.families = {}
    BY SMT DEF NoText
  <2> QED BY <1>1, <1>2, <2>1 DEF AllFrom
<1>4. ASSUME NEW i \in 1 .. n, i - 1 \in T PROVE i \in T
  <2>1. c[i - 1] \in OutType(lines) /\ i \in DOMAIN lines /\ AllFrom(lines, c[i - 1])
    BY <1>1, <1>2, <1>4
  <2>2. AllFrom(lines, c[i])
    BY <1>2, <2>1, LineFrom
  <2> QED BY <1>1, <2>2
<1> HIDE DEF T
<1>5. n \in T
  BY <1>1, <1>3, <1>4, Climb
<1> QED BY <1>1, <1>2, <1>5 DEF T

-----------------------------------------------------------------------------
(* The passes over samples and families, as functions on 0 .. Len(seq): one *)
(* for all of them, told apart by their names.                             *)

StepOf(pass, o, s, x) ==
  CASE pass = "families" -> Curate(o, s)
    [] pass = "single" ->
         IF ~ Keyed(s) THEN o
         ELSE [SetSlot(o, series_key(s.labels), <<x[2]>>, s.value)
                 EXCEPT !.capabilities = @ \cup {x[3]}]
    [] pass = "labelled" ->
         IF ~ Keyed(s) \/ ~ Has(s.labels, x[4]) THEN o
         ELSE [SetSlot(o, series_key(s.labels), <<x[2], s.labels[x[4]]>>, s.value)
                 EXCEPT !.capabilities = @ \cup {x[3]}]
    [] pass = "status" -> HttpStatus(o, s)
    [] pass = "config" -> CacheConfig(o, s)
    [] pass = "parts" -> IF Keyed(s) /\ series_key(s.labels) = x THEN Component(o, s) ELSE o

IsPass(c, pass, base, seq, x, n) ==
  c = [i \in 0 .. n |-> IF i = 0 THEN base ELSE StepOf(pass, c[i - 1], seq[i], x)]

LEMMA PassExists ==
  ASSUME NEW n \in Nat, NEW pass, NEW base, NEW seq, NEW x
  PROVE  \E c : IsPass(c, pass, base, seq, x, n)
<1> DEFINE T == {k \in 0 .. n : \E c : IsPass(c, pass, base, seq, x, k)}
<1>1. 0 \in T
  <2> DEFINE c == [i \in 0 .. 0 |-> base]
  <2>1. c = [i \in 0 .. 0 |-> IF i = 0 THEN base ELSE StepOf(pass, c[i - 1], seq[i], x)]
    OBVIOUS
  <2>2. IsPass(c, pass, base, seq, x, 0)
    BY <2>1 DEF IsPass
  <2> QED BY <2>2
<1>2. ASSUME NEW k \in 1 .. n, k - 1 \in T PROVE k \in T
  <2>1. PICK c : IsPass(c, pass, base, seq, x, k - 1)
    BY <1>2
  <2> DEFINE d == [i \in 0 .. k |-> IF i = k THEN StepOf(pass, c[k - 1], seq[k], x) ELSE c[i]]
  <2>2. ASSUME NEW i \in 0 .. k
        PROVE  d[i] = IF i = 0 THEN base ELSE StepOf(pass, d[i - 1], seq[i], x)
    <3>1. CASE i = k
      <4>1. d[k] = StepOf(pass, c[k - 1], seq[k], x) /\ d[k - 1] = c[k - 1] /\ k # 0
        OBVIOUS
      <4> HIDE DEF d
      <4> QED BY <3>1, <4>1
    <3>2. CASE i # k
      <4>1. i \in 0 .. k - 1 /\ d[i] = c[i] /\ (i # 0 => d[i - 1] = c[i - 1])
        BY <3>2
      <4>2. c[i] = IF i = 0 THEN base ELSE StepOf(pass, c[i - 1], seq[i], x)
        BY <2>1, <4>1 DEF IsPass
      <4> HIDE DEF d
      <4>3. CASE i = 0
        BY <4>1, <4>2, <4>3
      <4>4. CASE i # 0
        <5>1. d[i - 1] = c[i - 1] /\ d[i] = c[i]
          BY <4>1, <4>4
        <5>2. c[i] = StepOf(pass, c[i - 1], seq[i], x)
          BY <4>2, <4>4
        <5> QED BY <4>4, <5>1, <5>2
      <4> QED BY <4>3, <4>4
    <3> QED BY <3>1, <3>2
  <2>3. IsPass(d, pass, base, seq, x, k)
    <3>1. d = [i \in 0 .. k |-> d[i]]
      OBVIOUS
    <3> HIDE DEF d
    <3> QED BY <2>2, <3>1 DEF IsPass
  <2> QED BY <2>3
<1> HIDE DEF T
<1>3. n \in T
  BY <1>1, <1>2, Climb
<1> QED BY <1>3 DEF T

\* What a pass leaves is what it had after its last step.
IsResult(r, pass, base, seq, x) ==
  \E c : IsPass(c, pass, base, seq, x, Len(seq)) /\ r = c[Len(seq)]

LEMMA SingleIs ==
  ASSUME NEW out, NEW family, NEW spec, Len(family.samples) \in Nat
  PROVE  IsResult(Single(out, family, spec), "single", out, family.samples, spec)
<1> DEFINE seq == family.samples
           P(g) == g = [i \in 0 .. Len(seq) |->
                          IF i = 0 THEN out
                          ELSE IF ~ Keyed(seq[i]) THEN g[i - 1]
                          ELSE [SetSlot(g[i - 1], series_key(seq[i].labels), <<spec[2]>>, seq[i].value)
                                  EXCEPT !.capabilities = @ \cup {spec[3]}]]
           G == CHOOSE g : P(g)
<1>1. Single(out, family, spec) = G[Len(seq)]
  BY DEF Single, Fold
<1>2. \A g : P(g) <=> IsPass(g, "single", out, seq, spec, Len(seq))
  BY DEF IsPass, StepOf
<1>3. \E g : IsPass(g, "single", out, seq, spec, Len(seq))
  BY PassExists
<1> HIDE DEF P
<1>4. IsPass(G, "single", out, seq, spec, Len(seq))
  BY <1>2, <1>3, Zenon
<1> QED BY <1>1, <1>4, Zenon DEF IsResult

LEMMA LabelledIs ==
  ASSUME NEW out, NEW family, NEW spec, Len(family.samples) \in Nat
  PROVE  IsResult(Labelled(out, family, spec), "labelled", out, family.samples, spec)
<1> DEFINE seq == family.samples
           P(g) == g = [i \in 0 .. Len(seq) |->
                          IF i = 0 THEN out
                          ELSE IF ~ Keyed(seq[i]) \/ ~ Has(seq[i].labels, spec[4]) THEN g[i - 1]
                          ELSE [SetSlot(g[i - 1], series_key(seq[i].labels),
                                        <<spec[2], seq[i].labels[spec[4]]>>, seq[i].value)
                                  EXCEPT !.capabilities = @ \cup {spec[3]}]]
           G == CHOOSE g : P(g)
<1>1. Labelled(out, family, spec) = G[Len(seq)]
  BY DEF Labelled, Fold
<1>2. \A g : P(g) <=> IsPass(g, "labelled", out, seq, spec, Len(seq))
  BY DEF IsPass, StepOf
<1>3. \E g : IsPass(g, "labelled", out, seq, spec, Len(seq))
  BY PassExists
<1> HIDE DEF P
<1>4. IsPass(G, "labelled", out, seq, spec, Len(seq))
  BY <1>2, <1>3, Zenon
<1> QED BY <1>1, <1>4, Zenon DEF IsResult

LEMMA StatusIs ==
  ASSUME NEW out, NEW seq, Len(seq) \in Nat
  PROVE  IsResult(Fold(HttpStatus, out, seq), "status", out, seq, 0)
<1> DEFINE P(g) == g = [i \in 0 .. Len(seq) |->
                          IF i = 0 THEN out ELSE HttpStatus(g[i - 1], seq[i])]
           G == CHOOSE g : P(g)
<1>1. Fold(HttpStatus, out, seq) = G[Len(seq)]
  BY DEF Fold
<1>2. \A g : P(g) <=> IsPass(g, "status", out, seq, 0, Len(seq))
  BY DEF IsPass, StepOf
<1>3. \E g : IsPass(g, "status", out, seq, 0, Len(seq))
  BY PassExists
<1> HIDE DEF P
<1>4. IsPass(G, "status", out, seq, 0, Len(seq))
  BY <1>2, <1>3, Zenon
<1> QED BY <1>1, <1>4, Zenon DEF IsResult

LEMMA ConfigIs ==
  ASSUME NEW out, NEW seq, Len(seq) \in Nat
  PROVE  IsResult(Fold(CacheConfig, out, seq), "config", out, seq, 0)
<1> DEFINE P(g) == g = [i \in 0 .. Len(seq) |->
                          IF i = 0 THEN out ELSE CacheConfig(g[i - 1], seq[i])]
           G == CHOOSE g : P(g)
<1>1. Fold(CacheConfig, out, seq) = G[Len(seq)]
  BY DEF Fold
<1>2. \A g : P(g) <=> IsPass(g, "config", out, seq, 0, Len(seq))
  BY DEF IsPass, StepOf
<1>3. \E g : IsPass(g, "config", out, seq, 0, Len(seq))
  BY PassExists
<1> HIDE DEF P
<1>4. IsPass(G, "config", out, seq, 0, Len(seq))
  BY <1>2, <1>3, Zenon
<1> QED BY <1>1, <1>4, Zenon DEF IsResult

LEMMA FamiliesAre ==
  ASSUME NEW seq, Len(seq) \in Nat
  PROVE  IsResult(Fold(Curate, NoScrape, seq), "families", NoScrape, seq, 0)
<1> DEFINE P(g) == g = [i \in 0 .. Len(seq) |->
                          IF i = 0 THEN NoScrape ELSE Curate(g[i - 1], seq[i])]
           G == CHOOSE g : P(g)
<1>1. Fold(Curate, NoScrape, seq) = G[Len(seq)]
  BY DEF Fold
<1>2. \A g : P(g) <=> IsPass(g, "families", NoScrape, seq, 0, Len(seq))
  BY DEF IsPass, StepOf
<1>3. \E g : IsPass(g, "families", NoScrape, seq, 0, Len(seq))
  BY PassExists
<1> HIDE DEF P
<1>4. IsPass(G, "families", NoScrape, seq, 0, Len(seq))
  BY <1>2, <1>3, Zenon
<1> QED BY <1>1, <1>4, Zenon DEF IsResult

LEMMA CollectedIs ==
  ASSUME NEW family, NEW key, Len(family.samples) \in Nat
  PROVE  IsResult(Collect(family, key), "parts", NoHistogram, family.samples, key)
<1> DEFINE seq == family.samples
           P(g) == g = [i \in 0 .. Len(seq) |->
                          IF i = 0 THEN NoHistogram
                          ELSE IF Keyed(seq[i]) /\ series_key(seq[i].labels) = key
                               THEN Component(g[i - 1], seq[i]) ELSE g[i - 1]]
           G == CHOOSE g : P(g)
<1>1. Collect(family, key) = G[Len(seq)]
  BY DEF Collect, Fold
<1>2. \A g : P(g) <=> IsPass(g, "parts", NoHistogram, seq, key, Len(seq))
  BY DEF IsPass, StepOf
<1>3. \E g : IsPass(g, "parts", NoHistogram, seq, key, Len(seq))
  BY PassExists
<1> HIDE DEF P
<1>4. IsPass(G, "parts", NoHistogram, seq, key, Len(seq))
  BY <1>2, <1>3, Zenon
<1> QED BY <1>1, <1>4, Zenon DEF IsResult

IsClimb(c, pass, base, seq, x) ==
  /\ c[0] = base
  /\ \A i \in 1 .. Len(seq) : c[i] = StepOf(pass, c[i - 1], seq[i], x)

LEMMA PassSteps ==
  ASSUME NEW r, NEW pass, NEW base, NEW seq, NEW x, Len(seq) \in Nat,
         IsResult(r, pass, base, seq, x)
  PROVE  \E c : IsClimb(c, pass, base, seq, x) /\ r = c[Len(seq)]
<1> DEFINE n == Len(seq)
<1>1. PICK c : IsPass(c, pass, base, seq, x, n) /\ r = c[n]
  BY DEF IsResult
<1> HIDE DEF n
<1>2. n \in Nat
  BY DEF n
<1>3. \A i \in 0 .. n : c[i] = IF i = 0 THEN base ELSE StepOf(pass, c[i - 1], seq[i], x)
  <2> DEFINE v(i) == IF i = 0 THEN base ELSE StepOf(pass, c[i - 1], seq[i], x)
  <2>1. c = [i \in 0 .. n |-> v(i)]
    BY <1>1, Zenon DEF IsPass
  <2> HIDE DEF v
  <2>2. \A i \in 0 .. n : c[i] = v(i)
    BY <2>1
  <2> QED BY <2>2 DEF v
<1>4. c[0] = base
  BY <1>2, <1>3
<1>5. ASSUME NEW i \in 1 .. n PROVE c[i] = StepOf(pass, c[i - 1], seq[i], x)
  <2>1. i \in 0 .. n /\ i # 0
    BY <1>2
  <2> QED BY <1>3, <2>1, Zenon
<1> QED BY <1>1, <1>4, <1>5 DEF IsClimb, n

-----------------------------------------------------------------------------
(* What curate makes of the families of a text: series of the deployment's  *)
(* keys, capacities of its engines, and a histogram of a family F.         *)

OutFields == {"series", "info", "status", "capabilities", "capacity"}

\* A capacity is not there yet: the join puts it in.
IsSlots(slots, key, F) ==
  /\ CapacitySlot \notin DOMAIN slots
  /\ <<"itl">> \in DOMAIN slots =>
       \E f \in F : slots[<<"itl">>] = Collect(f, key) /\ Collect(f, key).buckets # <<>>

IsCurated(out, F) ==
  /\ DOMAIN out = OutFields
  /\ DOMAIN out.series \subseteq deployment.keys
  /\ \A k \in DOMAIN out.series : IsSlots(out.series[k], k, F)
  /\ DOMAIN out.capacity \subseteq DOMAIN deployment.capacity
  /\ \A e \in DOMAIN out.capacity : out.capacity[e] = deployment.capacity[e]

LEMMA NothingIsCurated ==
  ASSUME NEW F
  PROVE  IsCurated(NoScrape, F)
BY DEF IsCurated, NoScrape, Nothing, OutFields

\* Changing what is not a series or a capacity.
LEMMA OtherwiseCurated ==
  ASSUME NEW F, NEW out, IsCurated(out, F), NEW new, DOMAIN new = OutFields,
         new.series = out.series, new.capacity = out.capacity
  PROVE  IsCurated(new, F)
BY DEF IsCurated

IsPut(g, f, x, v) ==
  /\ DOMAIN g = DOMAIN f \cup {x} /\ g[x] = v
  /\ \A y \in DOMAIN f : y # x => g[y] = f[y]

LEMMA PutIs ==
  ASSUME NEW f, NEW x, NEW v
  PROVE  IsPut(Put(f, x, v), f, x, v)
BY DEF Put, IsPut

LEMMA SlotsKeep ==
  ASSUME NEW F, NEW slots, NEW key, IsSlots(slots, key, F), NEW slot, NEW v,
         slot # CapacitySlot,
         slot = <<"itl">> => \E f \in F : v = Collect(f, key) /\ Collect(f, key).buckets # <<>>
  PROVE  IsSlots(Put(slots, slot, v), key, F)
<1> DEFINE new == Put(slots, slot, v)
<1>5. IsPut(new, slots, slot, v)
  BY PutIs
<1> HIDE DEF new
<1>1. /\ DOMAIN new = DOMAIN slots \cup {slot} /\ new[slot] = v
      /\ \A y \in DOMAIN slots : y # slot => new[y] = slots[y]
  BY <1>5 DEF IsPut
<1>2. CapacitySlot \notin DOMAIN new
  BY <1>1 DEF IsSlots
<1>3. ASSUME <<"itl">> \in DOMAIN new
      PROVE  \E f \in F : new[<<"itl">>] = Collect(f, key) /\ Collect(f, key).buckets # <<>>
  <2>1. CASE slot = <<"itl">>
    BY <1>1, <2>1, Zenon
  <2>2. CASE slot # <<"itl">>
    BY <1>1, <1>3, <2>2, Zenon DEF IsSlots
  <2> QED BY <2>1, <2>2
<1>4. IsSlots(new, key, F)
  BY <1>2, <1>3, Zenon DEF IsSlots
<1> QED BY <1>4 DEF new

LEMMA EmptySlots ==
  ASSUME NEW F, NEW key
  PROVE  IsSlots(Nothing, key, F)
BY DEF IsSlots, Nothing

\* Setting one slot of a series of the deployment.
SlotSet(out, key, slot, v, cap) ==
  [SetSlot(out, key, slot, v) EXCEPT !.capabilities = @ \cup {cap}]

LEMMA SlotCurated ==
  ASSUME NEW F, NEW out, IsCurated(out, F), NEW key \in deployment.keys, NEW slot, NEW v, NEW cap,
         slot # CapacitySlot, slot # <<"itl">>
  PROVE  IsCurated(SlotSet(out, key, slot, v, cap), F)
<1> DEFINE new == SlotSet(out, key, slot, v, cap)
           slots == IF key \in DOMAIN out.series THEN out.series[key] ELSE Nothing
           series == Put(out.series, key, Put(slots, slot, v))
           mid == [out EXCEPT !.series = series]
<1>1. IsSlots(slots, key, F)
  BY EmptySlots DEF IsCurated
<1>2. IsSlots(Put(slots, slot, v), key, F)
  BY <1>1, SlotsKeep
<1>3. mid = SetSlot(out, key, slot, v)
  BY Zenon DEF SetSlot
<1> HIDE DEF slots
<1>8. IsPut(series, out.series, key, Put(slots, slot, v))
  BY PutIs
<1> HIDE DEF series
<1>4. /\ DOMAIN series = DOMAIN out.series \cup {key} /\ series[key] = Put(slots, slot, v)
      /\ \A y \in DOMAIN out.series : y # key => series[y] = out.series[y]
  BY <1>8 DEF IsPut
<1>5. DOMAIN mid = OutFields /\ mid.series = series /\ mid.capacity = out.capacity
  BY DEF IsCurated, OutFields
<1> HIDE DEF mid
<1>6. DOMAIN new = OutFields /\ new.series = series /\ new.capacity = out.capacity
  BY <1>3, <1>5 DEF OutFields, SlotSet
<1> HIDE DEF new
<1>7. \A k \in DOMAIN series : IsSlots(series[k], k, F)
  BY <1>2, <1>4 DEF IsCurated
<1>9. IsCurated(new, F)
  BY <1>4, <1>6, <1>7 DEF IsCurated
<1> QED BY <1>9 DEF new

\* What the samples of a family are.
IsKeyed(s) == Keyed(s) => series_key(s.labels) \in deployment.keys
IsConfigOf(s) == \E e \in DOMAIN deployment.capacity : s.labels = CapacityLabels(e)

IsOurs(family, F) ==
  /\ Len(family.samples) \in Nat
  /\ \A i \in 1 .. Len(family.samples) : IsKeyed(family.samples[i])
  /\ family.name = <<"vllm:cache_config_info", "">> =>
       \A i \in 1 .. Len(family.samples) : IsConfigOf(family.samples[i])
  /\ family.kind = "histogram" => family \in F

SlotOf(spec) == <<spec[2]>>

LEMMA SpecSlots ==
  /\ \A spec \in GaugeSpecs : <<spec[2]>> # CapacitySlot /\ <<spec[2]>> # <<"itl">>
  /\ \A spec \in HistogramSpecs : <<spec[2]>> # CapacitySlot
BY DEF GaugeSpecs, HistogramSpecs, CapacitySlot

LEMMA SingleCurated ==
  ASSUME NEW F, NEW out, IsCurated(out, F), NEW family, IsOurs(family, F),
         NEW spec \in GaugeSpecs
  PROVE  IsCurated(Single(out, family, spec), F)
<1> DEFINE seq == family.samples
           n == Len(seq)
<1>1. n \in Nat /\ \A i \in 1 .. n : IsKeyed(seq[i])
  BY DEF IsOurs
<1>7. IsResult(Single(out, family, spec), "single", out, seq, spec)
  BY <1>1, SingleIs
<1>2. PICK c : IsClimb(c, "single", out, seq, spec) /\ Single(out, family, spec) = c[n]
  <2> DEFINE r == Single(out, family, spec)
  <2>1. IsResult(r, "single", out, seq, spec)
    BY <1>7
  <2> HIDE DEF r, seq
  <2>2. \E c : IsClimb(c, "single", out, seq, spec) /\ r = c[n]
    BY <1>1, <2>1, PassSteps
  <2> QED BY <2>2 DEF r
<1> HIDE DEF seq
<1>3. c[0] = out /\ \A i \in 1 .. n : c[i] = StepOf("single", c[i - 1], seq[i], spec)
  BY <1>2 DEF IsClimb
<1> DEFINE T == {i \in 0 .. n : IsCurated(c[i], F)}
<1> HIDE DEF n
<1>4. 0 \in T
  BY <1>1, <1>3
<1>5. ASSUME NEW i \in 1 .. n, i - 1 \in T PROVE i \in T
  <2> DEFINE s == seq[i]
             o == c[i - 1]
  <2>1. IsCurated(o, F) /\ IsKeyed(s) /\ i \in 0 .. n
    BY <1>1, <1>5
  <2>2. c[i] = IF ~ Keyed(s) THEN o
               ELSE [SetSlot(o, series_key(s.labels), <<spec[2]>>, s.value)
                       EXCEPT !.capabilities = @ \cup {spec[3]}]
    BY <1>3 DEF StepOf
  <2> HIDE DEF s, o
  <2>3. CASE ~ Keyed(s)
    BY <2>1, <2>2, <2>3
  <2>4. CASE Keyed(s)
    <3>1. series_key(s.labels) \in deployment.keys
      BY <2>1, <2>4 DEF IsKeyed
    <3>2. <<spec[2]>> # CapacitySlot /\ <<spec[2]>> # <<"itl">>
      BY SpecSlots
    <3>3. c[i] = SlotSet(o, series_key(s.labels), <<spec[2]>>, s.value, spec[3])
      BY <2>2, <2>4, Zenon DEF SlotSet
    <3>4. IsCurated(c[i], F)
      BY <2>1, <3>1, <3>2, <3>3, SlotCurated, Zenon
    <3> QED BY <2>1, <3>4
  <2> QED BY <2>3, <2>4
<1> HIDE DEF T
<1>6. n \in T
  BY <1>1, <1>4, <1>5, Climb
<1> QED BY <1>2, <1>6 DEF T

LEMMA LabelledCurated ==
  ASSUME NEW F, NEW out, IsCurated(out, F), NEW family, IsOurs(family, F), NEW spec
  PROVE  IsCurated(Labelled(out, family, spec), F)
<1> DEFINE seq == family.samples
           n == Len(seq)
<1>1. n \in Nat /\ \A i \in 1 .. n : IsKeyed(seq[i])
  BY DEF IsOurs
<1>7. IsResult(Labelled(out, family, spec), "labelled", out, seq, spec)
  BY <1>1, LabelledIs
<1>2. PICK c : IsClimb(c, "labelled", out, seq, spec) /\ Labelled(out, family, spec) = c[n]
  <2> DEFINE r == Labelled(out, family, spec)
  <2>1. IsResult(r, "labelled", out, seq, spec)
    BY <1>7
  <2> HIDE DEF r, seq
  <2>2. \E c : IsClimb(c, "labelled", out, seq, spec) /\ r = c[n]
    BY <1>1, <2>1, PassSteps
  <2> QED BY <2>2 DEF r
<1> HIDE DEF seq
<1>3. c[0] = out /\ \A i \in 1 .. n : c[i] = StepOf("labelled", c[i - 1], seq[i], spec)
  BY <1>2 DEF IsClimb
<1> DEFINE T == {i \in 0 .. n : IsCurated(c[i], F)}
<1> HIDE DEF n
<1>4. 0 \in T
  BY <1>1, <1>3
<1>5. ASSUME NEW i \in 1 .. n, i - 1 \in T PROVE i \in T
  <2> DEFINE s == seq[i]
             o == c[i - 1]
             slot == <<spec[2], s.labels[spec[4]]>>
  <2>1. IsCurated(o, F) /\ IsKeyed(s) /\ i \in 0 .. n
    BY <1>1, <1>5
  <2>2. c[i] = IF ~ Keyed(s) \/ ~ Has(s.labels, spec[4]) THEN o
               ELSE [SetSlot(o, series_key(s.labels), slot, s.value)
                       EXCEPT !.capabilities = @ \cup {spec[3]}]
    BY <1>3 DEF StepOf
  <2>5. slot # CapacitySlot /\ slot # <<"itl">>
    <3>1. Len(slot) = 2 /\ Len(CapacitySlot) = 1 /\ Len(<<"itl">>) = 1
      BY DEF CapacitySlot
    <3> HIDE DEF slot
    <3> QED BY <3>1
  <2> HIDE DEF s, o, slot
  <2>3. CASE ~ Keyed(s) \/ ~ Has(s.labels, spec[4])
    BY <2>1, <2>2, <2>3
  <2>4. CASE ~ (~ Keyed(s) \/ ~ Has(s.labels, spec[4]))
    <3>1. series_key(s.labels) \in deployment.keys
      BY <2>1, <2>4 DEF IsKeyed
    <3>3. c[i] = SlotSet(o, series_key(s.labels), slot, s.value, spec[3])
      BY <2>2, <2>4, Zenon DEF SlotSet
    <3>4. IsCurated(c[i], F)
      BY <2>1, <2>5, <3>1, <3>3, SlotCurated, Zenon
    <3> QED BY <2>1, <3>4
  <2> QED BY <2>3, <2>4
<1> HIDE DEF T
<1>6. n \in T
  BY <1>1, <1>4, <1>5, Climb
<1> QED BY <1>2, <1>6 DEF T

LEMMA StatusCurated ==
  ASSUME NEW F, NEW out, IsCurated(out, F), NEW seq, Len(seq) \in Nat
  PROVE  IsCurated(Fold(HttpStatus, out, seq), F)
<1> DEFINE n == Len(seq)
           r == Fold(HttpStatus, out, seq)
<1>1. IsResult(r, "status", out, seq, 0)
  BY StatusIs
<1> HIDE DEF r
<1>2. PICK c : IsClimb(c, "status", out, seq, 0) /\ r = c[n]
  BY <1>1, PassSteps
<1>3. c[0] = out /\ \A i \in 1 .. n : c[i] = StepOf("status", c[i - 1], seq[i], 0)
  BY <1>2 DEF IsClimb
<1> DEFINE T == {i \in 0 .. n : IsCurated(c[i], F)}
<1>4. n \in Nat
  OBVIOUS
<1> HIDE DEF n
<1>5. 0 \in T
  BY <1>3, <1>4
<1>6. ASSUME NEW i \in 1 .. n, i - 1 \in T PROVE i \in T
  <2> DEFINE s == seq[i]
             o == c[i - 1]
             h == HttpStatus(o, s)
  <2>1. IsCurated(o, F) /\ i \in 0 .. n /\ DOMAIN o = OutFields
    BY <1>4, <1>6 DEF IsCurated
  <2>2. c[i] = h
    BY <1>3 DEF StepOf
  <2> HIDE DEF s, o
  <2>3. DOMAIN h = OutFields /\ h.series = o.series /\ h.capacity = o.capacity
    BY <2>1 DEF HttpStatus, OutFields
  <2> HIDE DEF h
  <2>4. IsCurated(h, F)
    BY <2>1, <2>3, OtherwiseCurated, Zenon
  <2> QED BY <2>1, <2>2, <2>4
<1> HIDE DEF T
<1>7. n \in T
  BY <1>4, <1>5, <1>6, Climb
<1>8. IsCurated(r, F)
  BY <1>2, <1>7 DEF T
<1> QED BY <1>8 DEF r

\* An engine's labels say its capacity, or none that can be told.
LEMMA CapacityOfLabels ==
  ASSUME IsServer, NEW e \in DOMAIN deployment.capacity
  PROVE  LET labels == CapacityLabels(e) IN
         /\ Capacity(labels) \in {NaN, deployment.capacity[e]}
         /\ (IF Has(labels, "engine") THEN labels["engine"] ELSE NoEngine) = e
<1> DEFINE tokens == deployment.capacity[e]
           g == IF deployment.geometry
                  THEN [kv_cache_size_tokens |-> NaN, num_gpu_blocks |-> tokens \div 2, block_size |-> 2]
                  ELSE [kv_cache_size_tokens |-> tokens]
           labels == CapacityLabels(e)
<1>1. labels = IF e = NoEngine THEN g ELSE Put(g, "engine", e)
  BY Zenon DEF CapacityLabels
<1>2. tokens \in Nat /\ deployment.geometry \in BOOLEAN /\ (deployment.geometry => tokens % 2 = 0)
  BY DEF IsServer, IsDeployment
<1> HIDE DEF tokens, labels
<1>3. CASE deployment.geometry
  <2>1. g = [kv_cache_size_tokens |-> NaN, num_gpu_blocks |-> tokens \div 2, block_size |-> 2]
    BY <1>3
  <2>2. /\ DOMAIN g = {"kv_cache_size_tokens", "num_gpu_blocks", "block_size"}
        /\ g["kv_cache_size_tokens"] = NaN /\ g["num_gpu_blocks"] = tokens \div 2 /\ g["block_size"] = 2
    BY <2>1
  <2> HIDE DEF g
  <2>3. (IF Has(labels, "engine") THEN labels["engine"] ELSE NoEngine) = e
    <3>1. CASE e = NoEngine
      BY <1>1, <2>2, <3>1 DEF Has
    <3>2. CASE e # NoEngine
      <4>1. IsPut(labels, g, "engine", e)
        BY <1>1, <3>2, PutIs
      <4> QED BY <4>1 DEF Has, IsPut
    <3> QED BY <3>1, <3>2
  <2>4. /\ {"kv_cache_size_tokens", "num_gpu_blocks", "block_size"} \subseteq DOMAIN labels
        /\ labels["kv_cache_size_tokens"] = NaN /\ labels["num_gpu_blocks"] = tokens \div 2 /\ labels["block_size"] = 2
    <3>1. CASE e = NoEngine
      BY <1>1, <2>2, <3>1
    <3>2. CASE e # NoEngine
      <4>1. IsPut(labels, g, "engine", e)
        BY <1>1, <3>2, PutIs
      <4> QED BY <2>2, <4>1 DEF IsPut
    <3> QED BY <3>1, <3>2
  <2>5. Capacity(labels) = IF tokens \div 2 > 0 /\ 2 > 0 THEN (tokens \div 2) * 2 ELSE NaN
    BY <2>4 DEF Capacity, Num, Has
  <2>6. (tokens \div 2) * 2 = tokens
    BY <1>2, <1>3
  <2>7. Capacity(labels) \in {NaN, tokens}
    BY <2>5, <2>6
  <2> QED BY <2>3, <2>7 DEF labels, tokens
<1>4. CASE ~ deployment.geometry
  <2>1. g = [kv_cache_size_tokens |-> tokens]
    BY <1>4
  <2>2. DOMAIN g = {"kv_cache_size_tokens"} /\ g["kv_cache_size_tokens"] = tokens
    BY <2>1
  <2> HIDE DEF g
  <2>3. (IF Has(labels, "engine") THEN labels["engine"] ELSE NoEngine) = e
    <3>1. CASE e = NoEngine
      BY <1>1, <2>2, <3>1 DEF Has
    <3>2. CASE e # NoEngine
      <4>1. IsPut(labels, g, "engine", e)
        BY <1>1, <3>2, PutIs
      <4> QED BY <4>1 DEF Has, IsPut
    <3> QED BY <3>1, <3>2
  <2>4. "kv_cache_size_tokens" \in DOMAIN labels /\ labels["kv_cache_size_tokens"] = tokens
    <3>1. CASE e = NoEngine
      BY <1>1, <2>2, <3>1
    <3>2. CASE e # NoEngine
      <4>1. IsPut(labels, g, "engine", e)
        BY <1>1, <3>2, PutIs
      <4> QED BY <2>2, <4>1 DEF IsPut
    <3> QED BY <3>1, <3>2
  <2>5. Capacity(labels) = tokens
    BY <1>2, <2>4 DEF Capacity, Num, Has, NaN
  <2> QED BY <2>3, <2>5 DEF labels, tokens
<1> QED BY <1>3, <1>4

LEMMA ConfigCurated ==
  ASSUME IsServer, NEW F, NEW out, IsCurated(out, F), NEW seq, Len(seq) \in Nat,
         \A i \in 1 .. Len(seq) : IsConfigOf(seq[i])
  PROVE  IsCurated(Fold(CacheConfig, out, seq), F)
<1> DEFINE n == Len(seq)
           r == Fold(CacheConfig, out, seq)
<1>1. IsResult(r, "config", out, seq, 0)
  BY ConfigIs
<1> HIDE DEF r
<1>2. PICK c : IsClimb(c, "config", out, seq, 0) /\ r = c[n]
  BY <1>1, PassSteps
<1>3. c[0] = out /\ \A i \in 1 .. n : c[i] = StepOf("config", c[i - 1], seq[i], 0)
  BY <1>2 DEF IsClimb
<1> DEFINE T == {i \in 0 .. n : IsCurated(c[i], F)}
<1>4. n \in Nat
  OBVIOUS
<1>9. \A i \in 1 .. n : IsConfigOf(seq[i])
  OBVIOUS
<1> HIDE DEF n
<1>5. 0 \in T
  BY <1>3, <1>4
<1>6. ASSUME NEW i \in 1 .. n, i - 1 \in T PROVE i \in T
  <2> DEFINE s == seq[i]
             o == c[i - 1]
             new == CacheConfig(o, s)
             size == Capacity(s.labels)
             engine == IF Has(s.labels, "engine") THEN s.labels["engine"] ELSE NoEngine
             kept == CacheConfigLabels \cap DOMAIN s.labels
  <2>1. IsCurated(o, F) /\ i \in 0 .. n /\ DOMAIN o = OutFields
    BY <1>4, <1>6 DEF IsCurated
  <2>2. c[i] = new
    BY <1>3 DEF StepOf
  <2>3. PICK e \in DOMAIN deployment.capacity : s.labels = CapacityLabels(e)
    BY <1>9 DEF IsConfigOf
  <2>4. size \in {NaN, deployment.capacity[e]} /\ engine = e
    BY <2>3, CapacityOfLabels
  <2>5. new = [o EXCEPT !.info = [x \in DOMAIN @ \cup kept |-> IF x \in kept THEN s.labels[x] ELSE @[x]],
                        !.capabilities = @ \cup {"cache_config"},
                        !.capacity = IF size = NaN THEN @ ELSE Put(@, engine, size)]
    BY Zenon DEF CacheConfig
  <2> HIDE DEF s, o, new, size, engine, kept
  <2>6. /\ DOMAIN new = OutFields /\ new.series = o.series
        /\ new.capacity = IF size = NaN THEN o.capacity ELSE Put(o.capacity, engine, size)
    BY <2>1, <2>5 DEF OutFields
  <2>7. CASE size = NaN
    <3>1. IsCurated(new, F)
      BY <2>1, <2>6, <2>7, OtherwiseCurated
    <3> QED BY <2>1, <2>2, <3>1
  <2>8. CASE size # NaN
    <3>1. IsPut(new.capacity, o.capacity, e, deployment.capacity[e])
      BY <2>4, <2>6, <2>8, PutIs
    <3>2. /\ DOMAIN new.capacity \subseteq DOMAIN deployment.capacity
          /\ \A d \in DOMAIN new.capacity : new.capacity[d] = deployment.capacity[d]
      BY <2>1, <3>1 DEF IsPut, IsCurated
    <3>3. IsCurated(new, F)
      BY <2>1, <2>6, <3>2 DEF IsCurated
    <3> QED BY <2>1, <2>2, <3>3
  <2> QED BY <2>7, <2>8
<1> HIDE DEF T
<1>7. n \in T
  <2>1. \A i \in 1 .. n : i - 1 \in T => i \in T
    BY <1>6
  <2>2. \A i \in 0 .. n : i \in T
    BY <1>4, <1>5, <2>1, Climb, Zenon
  <2> QED BY <1>4, <2>2
<1>8. IsCurated(r, F)
  BY <1>2, <1>7 DEF T
<1> QED BY <1>8 DEF r

LEMMA ProcessCurated ==
  ASSUME NEW F, NEW out, IsCurated(out, F), NEW family
  PROVE  IsCurated(Process(out, family), F)
<1> DEFINE new == Process(out, family)
<1>1. DOMAIN new = OutFields /\ new.series = out.series /\ new.capacity = out.capacity
  BY DEF IsCurated, OutFields, Process
<1> HIDE DEF new
<1>2. IsCurated(new, F)
  BY <1>1, OtherwiseCurated, Zenon
<1> QED BY <1>2 DEF new

LEMMA HistogramCurated ==
  ASSUME NEW F, NEW out, IsCurated(out, F), NEW family, IsOurs(family, F), family \in F,
         NEW spec \in HistogramSpecs, DOMAIN family.samples = 1 .. Len(family.samples)
  PROVE  IsCurated(Histogram(out, family, spec), F)
<1> DEFINE keys == {series_key(s.labels) : s \in {x \in ToSet(family.samples) : Keyed(x)}}
           partial == [k \in keys |-> Collect(family, k)]
           found == {k \in keys : partial[k].buckets # <<>>}
           was(k) == IF k \in DOMAIN out.series THEN out.series[k] ELSE Nothing
           new == Histogram(out, family, spec)
           slot == <<spec[2]>>
           series == [k \in DOMAIN out.series \cup found |->
                        IF k \in found THEN Put(was(k), slot, partial[k]) ELSE out.series[k]]
           capabilities == IF found = {} THEN out.capabilities ELSE out.capabilities \cup {spec[2]}
<1>1. new = [out EXCEPT !.series = series, !.capabilities = capabilities]
  BY Zenon DEF Histogram
<1>2. keys \subseteq deployment.keys
  <2>1. \A s \in ToSet(family.samples) : IsKeyed(s)
    BY DEF IsOurs, ToSet
  <2> QED BY <2>1 DEF IsKeyed
<1>3. \A k \in found : k \in keys /\ partial[k] = Collect(family, k) /\ Collect(family, k).buckets # <<>>
  OBVIOUS
<1>4. \A k \in DOMAIN out.series : IsSlots(was(k), k, F)
  BY DEF IsCurated
<1>5. \A k : k \notin DOMAIN out.series => IsSlots(was(k), k, F)
  BY EmptySlots
<1>6. slot # CapacitySlot
  BY SpecSlots
<1> HIDE DEF found, was, partial, keys, slot
<1>7. ASSUME NEW k \in found PROVE IsSlots(Put(was(k), slot, partial[k]), k, F)
  <2>1. IsSlots(was(k), k, F)
    BY <1>4, <1>5
  <2>2. \E f \in F : partial[k] = Collect(f, k) /\ Collect(f, k).buckets # <<>>
    BY <1>3
  <2> QED BY <1>6, <2>1, <2>2, SlotsKeep
<1>8. /\ DOMAIN series = DOMAIN out.series \cup found
      /\ \A k \in DOMAIN series : IsSlots(series[k], k, F)
  BY <1>7 DEF IsCurated
<1>9. DOMAIN series \subseteq deployment.keys
  BY <1>2, <1>3, <1>8 DEF IsCurated
<1> HIDE DEF series, capabilities, new
<1>10. DOMAIN new = OutFields /\ new.series = series /\ new.capacity = out.capacity
  BY <1>1 DEF IsCurated, OutFields
<1>11. IsCurated(new, F)
  BY <1>8, <1>9, <1>10 DEF IsCurated
<1> QED BY <1>11 DEF new

\* The arms of curate's match.
SpecsOf(specs, family) == {s \in specs : family.name = <<s[1], "">>}
TheSpec(specs, family) == CHOOSE s \in SpecsOf(specs, family) : TRUE

CurateArms(out, family, r) ==
  \/ SpecsOf(GaugeSpecs, family) # {} /\ r = Single(out, family, TheSpec(GaugeSpecs, family))
  \/ r = Labelled(out, family, TheSpec(LabelledSpecs, family))
  \/ r = Process(out, family)
  \/ r = Fold(HttpStatus, out, family.samples)
  \/ /\ family.name = <<"vllm:cache_config_info", "">>
     /\ r = Fold(CacheConfig, out, family.samples)
  \/ /\ SpecsOf(HistogramSpecs, family) # {} /\ family.kind = "histogram"
     /\ r = Histogram(out, family, TheSpec(HistogramSpecs, family))
  \/ r = out

LEMMA CurateIs ==
  ASSUME NEW out, NEW family
  PROVE  CurateArms(out, family, Curate(out, family))
<1> DEFINE g == SpecsOf(GaugeSpecs, family)
           l == SpecsOf(LabelledSpecs, family)
           h == SpecsOf(HistogramSpecs, family)
           a == Single(out, family, TheSpec(GaugeSpecs, family))
           b == Labelled(out, family, TheSpec(LabelledSpecs, family))
           c == Process(out, family)
           d == Fold(HttpStatus, out, family.samples)
           e == Fold(CacheConfig, out, family.samples)
           f == Histogram(out, family, TheSpec(HistogramSpecs, family))
           r == Curate(out, family)
<1>1. r = CASE g # {} -> a
            [] l # {} -> b
            [] family.name[1] \in ProcessNames /\ family.name[2] = "" -> c
            [] family.name = <<"http_requests_total", "">> -> d
            [] family.name = <<"vllm:cache_config_info", "">> -> e
            [] h # {} /\ family.kind = "histogram" -> f
            [] OTHER -> out
  BY DEF Curate, SpecsOf, TheSpec
<1> HIDE DEF g, l, h, a, b, c, d, e, f, r
<1>2. \/ g # {} /\ r = a
      \/ r = b
      \/ r = c
      \/ r = d
      \/ family.name = <<"vllm:cache_config_info", "">> /\ r = e
      \/ h # {} /\ family.kind = "histogram" /\ r = f
      \/ r = out
  <2> DEFINE G1 == g # {}
             G2 == l # {}
             G3 == family.name[1] \in ProcessNames /\ family.name[2] = ""
             G4 == family.name = <<"http_requests_total", "">>
             G5 == family.name = <<"vllm:cache_config_info", "">>
             G6 == h # {} /\ family.kind = "histogram"
  <2>1. r = CASE G1 -> a [] G2 -> b [] G3 -> c [] G4 -> d [] G5 -> e [] G6 -> f [] OTHER -> out
    BY <1>1
  <2> HIDE DEF G1, G2, G3, G4, G5, G6
  <2>3. (G1 /\ r = a) \/ r = b \/ r = c \/ r = d \/ (G5 /\ r = e) \/ (G6 /\ r = f) \/ r = out
    BY <2>1
  <2> QED BY <2>3, Zenon DEF G1, G5, G6
<1> QED BY <1>2, Zenon DEF CurateArms, g, l, h, a, b, c, d, e, f, r

LEMMA TheSpecIn ==
  ASSUME NEW specs, NEW family, SpecsOf(specs, family) # {}
  PROVE  TheSpec(specs, family) \in specs
<1> DEFINE S == SpecsOf(specs, family)
<1>1. (CHOOSE s \in S : TRUE) \in S
  OBVIOUS
<1>2. TheSpec(specs, family) \in S
  BY <1>1, Zenon DEF TheSpec
<1> QED BY <1>2 DEF SpecsOf

LEMMA FamilyCurated ==
  ASSUME IsServer, NEW F, NEW out, IsCurated(out, F), NEW family, IsOurs(family, F),
         DOMAIN family.samples = 1 .. Len(family.samples)
  PROVE  IsCurated(Curate(out, family), F)
<1> DEFINE r == Curate(out, family)
<1>1. CurateArms(out, family, r)
  BY CurateIs
<1> HIDE DEF r
<1>2. ASSUME SpecsOf(GaugeSpecs, family) # {}, r = Single(out, family, TheSpec(GaugeSpecs, family))
      PROVE  IsCurated(r, F)
  BY <1>2, TheSpecIn, SingleCurated
<1>3. ASSUME r = Labelled(out, family, TheSpec(LabelledSpecs, family)) PROVE IsCurated(r, F)
  BY <1>3, LabelledCurated
<1>4. ASSUME r = Process(out, family) PROVE IsCurated(r, F)
  BY <1>4, ProcessCurated
<1>5. Len(family.samples) \in Nat
  BY DEF IsOurs
<1>6. ASSUME r = Fold(HttpStatus, out, family.samples) PROVE IsCurated(r, F)
  <2>1. IsCurated(Fold(HttpStatus, out, family.samples), F)
    BY <1>5, StatusCurated
  <2> QED BY <1>6, <2>1, Zenon
<1>7. ASSUME family.name = <<"vllm:cache_config_info", "">>, r = Fold(CacheConfig, out, family.samples)
      PROVE  IsCurated(r, F)
  <2>1. \A i \in 1 .. Len(family.samples) : IsConfigOf(family.samples[i])
    BY <1>7 DEF IsOurs
  <2>2. IsCurated(Fold(CacheConfig, out, family.samples), F)
    BY <1>5, <2>1, ConfigCurated
  <2> QED BY <1>7, <2>2, Zenon
<1>8. ASSUME SpecsOf(HistogramSpecs, family) # {}, family.kind = "histogram",
             r = Histogram(out, family, TheSpec(HistogramSpecs, family))
      PROVE  IsCurated(r, F)
  <2>1. family \in F
    BY <1>8 DEF IsOurs
  <2>2. TheSpec(HistogramSpecs, family) \in HistogramSpecs
    BY <1>8, TheSpecIn
  <2> QED BY <1>8, <2>1, <2>2, HistogramCurated
<1>9. IsCurated(r, F)
  BY <1>1, <1>2, <1>3, <1>4, <1>6, <1>7, <1>8, Zenon DEF CurateArms
<1> QED BY <1>9 DEF r

LEMMA FamiliesCurated ==
  ASSUME IsServer, NEW F, NEW seq, Len(seq) \in Nat,
         \A i \in 1 .. Len(seq) :
           IsOurs(seq[i], F) /\ DOMAIN seq[i].samples = 1 .. Len(seq[i].samples)
  PROVE  IsCurated(Fold(Curate, NoScrape, seq), F)
<1> DEFINE n == Len(seq)
           r == Fold(Curate, NoScrape, seq)
<1>1. IsResult(r, "families", NoScrape, seq, 0)
  BY FamiliesAre
<1> HIDE DEF r
<1>2. PICK c : IsClimb(c, "families", NoScrape, seq, 0) /\ r = c[n]
  BY <1>1, PassSteps
<1>3. c[0] = NoScrape /\ \A i \in 1 .. n : c[i] = StepOf("families", c[i - 1], seq[i], 0)
  BY <1>2 DEF IsClimb
<1> DEFINE T == {i \in 0 .. n : IsCurated(c[i], F)}
<1>4. n \in Nat
  OBVIOUS
<1>5. \A i \in 1 .. n : IsOurs(seq[i], F) /\ DOMAIN seq[i].samples = 1 .. Len(seq[i].samples)
  OBVIOUS
<1> HIDE DEF n
<1>6. 0 \in T
  BY <1>3, <1>4, NothingIsCurated
<1>7. ASSUME NEW i \in 1 .. n, i - 1 \in T PROVE i \in T
  <2>1. IsCurated(c[i - 1], F) /\ i \in 0 .. n
    BY <1>4, <1>7
  <2>2. c[i] = Curate(c[i - 1], seq[i])
    BY <1>3 DEF StepOf
  <2>3. IsCurated(c[i], F)
    BY <1>5, <2>1, <2>2, FamilyCurated
  <2> QED BY <2>1, <2>3
<1> HIDE DEF T
<1>8. n \in T
  <2>1. \A i \in 1 .. n : i - 1 \in T => i \in T
    BY <1>7
  <2>2. \A i \in 0 .. n : i \in T
    BY <1>4, <1>6, <2>1, Climb, Zenon
  <2> QED BY <1>4, <2>2
<1>9. IsCurated(r, F)
  BY <1>2, <1>8 DEF T
<1> QED BY <1>9 DEF r

\* The labels of the lines.
LEMMA KeyOfLabels ==
  ASSUME NEW k, k = [model |-> k.model, engine |-> k.engine], NEW le
  PROVE  /\ series_key(KeyLabels(k)) = k
         /\ series_key(Put(KeyLabels(k), "le", le)) = k
<1> DEFINE labels == KeyLabels(k)
           more == Put(labels, "le", le)
           m == k.model
           e == k.engine
<1>1. /\ "model_name" \in DOMAIN labels /\ labels["model_name"] = m
      /\ "le" \notin DOMAIN labels
      /\ (IF Has(labels, "engine") THEN labels["engine"] ELSE NoEngine) = e
  <2> HIDE DEF m, e
  <2>1. labels = IF e = NoEngine THEN [model_name |-> m] ELSE [model_name |-> m, engine |-> e]
    BY Zenon DEF KeyLabels, m, e
  <2> HIDE DEF labels
  <2>2. CASE e = NoEngine
    <3>1. labels = [model_name |-> m]
      BY <2>1, <2>2
    <3> QED BY <2>2, <3>1 DEF Has
  <2>3. CASE e # NoEngine
    <3>1. labels = [model_name |-> m, engine |-> e]
      BY <2>1, <2>3
    <3> QED BY <3>1 DEF Has
  <2> QED BY <2>2, <2>3
<1> HIDE DEF labels
<1>2. IsPut(more, labels, "le", le)
  BY PutIs
<1> HIDE DEF more
<1>3. /\ more["model_name"] = m
      /\ (IF Has(more, "engine") THEN more["engine"] ELSE NoEngine) = e
  BY <1>1, <1>2 DEF IsPut, Has
<1>4. series_key(labels) = [model |-> m, engine |-> e]
  BY <1>1, Zenon DEF series_key
<1>5. series_key(more) = [model |-> m, engine |-> e]
  BY <1>3, Zenon DEF series_key
<1> HIDE DEF m, e
<1>6. k = [model |-> m, engine |-> e]
  BY Zenon DEF m, e
<1> QED BY <1>4, <1>5, <1>6, Zenon DEF labels, more

LEMMA BusyIs ==
  ASSUME IsServer
  PROVE  Busy \in deployment.keys
BY DEF IsServer, IsDeployment, Busy

LEMMA ConfigIsNotKeyed ==
  ASSUME NEW e
  PROVE  "model_name" \notin DOMAIN CapacityLabels(e)
<1> DEFINE size == deployment.capacity[e]
           g == IF deployment.geometry
                  THEN [kv_cache_size_tokens |-> NaN, num_gpu_blocks |-> size \div 2, block_size |-> 2]
                  ELSE [kv_cache_size_tokens |-> size]
           labels == CapacityLabels(e)
<1>1. labels = IF e = NoEngine THEN g ELSE Put(g, "engine", e)
  BY Zenon DEF CapacityLabels
<1>2. "model_name" \notin DOMAIN g
  <2> HIDE DEF size
  <2>1. CASE deployment.geometry
    <3>1. g = [kv_cache_size_tokens |-> NaN, num_gpu_blocks |-> size \div 2, block_size |-> 2]
      BY <2>1
    <3> QED BY <3>1
  <2>2. CASE ~ deployment.geometry
    <3>1. g = [kv_cache_size_tokens |-> size]
      BY <2>2
    <3> QED BY <3>1
  <2> QED BY <2>1, <2>2
<1> HIDE DEF g, labels
<1>3. IsPut(Put(g, "engine", e), g, "engine", e)
  BY PutIs
<1>4. "model_name" \notin DOMAIN Put(g, "engine", e)
  BY <1>2, <1>3 DEF IsPut
<1>5. "model_name" \notin DOMAIN labels
  BY <1>1, <1>2, <1>4, Zenon
<1> QED BY <1>5 DEF labels

\* What a sample line says, and of what.
LineFields == {"form", "name", "labels", "closed", "tokens"}

Says(l, base, part, labels, v) ==
  /\ DOMAIN l = LineFields
  /\ l.form = "sample" /\ l.labels = labels
  /\ IsPair(l.name) /\ l.name[1] = base /\ l.name[2] = part
  /\ l.closed /\ l.tokens = <<[is |-> "number", v |-> v]>>

LEMMA SampleSays ==
  ASSUME NEW base, NEW part, NEW labels, NEW v
  PROVE  Says(SampleLine(base, part, labels, v), base, part, labels, v)
BY DEF SampleLine, Says, IsPair, LineFields

LEMMA TypeIsType ==
  ASSUME NEW base, NEW kind
  PROVE  TypeLine(base, kind).form = "type"
BY DEF TypeLine

IsLabelled(line) ==
  /\ DOMAIN line = LineFields /\ IsPair(line.name) /\ IsKeyed(line)
  /\ line.name[1] = "vllm:cache_config_info" => IsConfigOf(line)

LEMMA LabelledLine ==
  ASSUME IsServer, NEW l, l.form = "sample", IsGauge(l) \/ IsRest(l)
  PROVE  IsLabelled(l)
<1>1. ASSUME NEW k \in deployment.keys, l = SampleLine(GaugeBase, "", KeyLabels(k), 0)
      PROVE  IsLabelled(l)
  <2>1. Says(l, GaugeBase, "", KeyLabels(k), 0)
    BY <1>1, SampleSays
  <2>2. series_key(KeyLabels(k)) = k
    BY KeyOfLabels DEF IsServer, IsDeployment
  <2>3. GaugeBase # "vllm:cache_config_info"
    BY DEF GaugeBase
  <2> QED BY <2>1, <2>2, <2>3 DEF IsLabelled, IsKeyed, Says
<1>2. CASE IsPartOfIt(l)
  <2>1. \E part, labels, v : Says(l, HistogramBase, part, labels, v) /\ series_key(labels) = Busy
    <3>1. Busy = [model |-> Busy.model, engine |-> Busy.engine]
      BY BusyIs DEF IsServer, IsDeployment
    <3>2. ASSUME NEW part, NEW v, l = SampleLine(HistogramBase, part, KeyLabels(Busy), v)
          PROVE  \E labels : Says(l, HistogramBase, part, labels, v) /\ series_key(labels) = Busy
      BY <3>1, <3>2, SampleSays, KeyOfLabels
    <3>3. ASSUME NEW i \in DOMAIN layout, l = BucketLine(i)
          PROVE  \E part, labels, v : Says(l, HistogramBase, part, labels, v) /\ series_key(labels) = Busy
      <4>1. l = SampleLine(HistogramBase, "_bucket", Put(KeyLabels(Busy), "le", layout[i]), UpTo(layout[i]))
        BY <3>3, Zenon DEF BucketLine
      <4>2. series_key(Put(KeyLabels(Busy), "le", layout[i])) = Busy
        BY <3>1, KeyOfLabels
      <4> QED BY <4>1, <4>2, SampleSays
    <3>4. \/ \E i \in DOMAIN layout : l = BucketLine(i)
          \/ \E part, v : l = SampleLine(HistogramBase, part, KeyLabels(Busy), v)
      BY <1>2, Zenon DEF IsPartOfIt, SumLine, CountLine
    <3> QED BY <3>2, <3>3, <3>4, Zenon
  <2>2. HistogramBase # "vllm:cache_config_info"
    BY DEF HistogramBase
  <2> QED BY <2>1, <2>2, BusyIs DEF IsLabelled, IsKeyed, Says
<1>3. CASE IsConfig(l)
  <2>1. PICK e \in DOMAIN deployment.capacity :
          l = SampleLine("vllm:cache_config_info", "", CapacityLabels(e), 1)
    BY <1>3 DEF IsConfig
  <2>2. Says(l, "vllm:cache_config_info", "", CapacityLabels(e), 1)
    BY <2>1, SampleSays
  <2> QED BY <2>2, ConfigIsNotKeyed DEF IsLabelled, IsKeyed, IsConfigOf, Keyed, Has, Says
<1>4. CASE IsForeign(l)
  <2>1. ASSUME NEW class, l = SampleLine("http_requests_total", "", [status |-> class], 1)
        PROVE  IsLabelled(l)
    <3>1. Says(l, "http_requests_total", "", [status |-> class], 1)
      BY <2>1, SampleSays
    <3> QED BY <3>1 DEF IsLabelled, IsKeyed, Keyed, Has, Says
  <2>2. CASE l = SampleLine("process_start_time_seconds", "", Nothing, 1)
    <3>1. Says(l, "process_start_time_seconds", "", Nothing, 1)
      BY <2>2, SampleSays
    <3> QED BY <3>1 DEF IsLabelled, IsKeyed, Keyed, Has, Nothing, Says
  <2>3. l # TypeLine("http_requests_total", "counter") /\ l # [form |-> "other"]
    BY TypeIsType
  <2> QED BY <1>4, <2>1, <2>2, <2>3, Zenon DEF IsForeign
<1>5. CASE IsGauge(l)
  <2>1. l # TypeLine(GaugeBase, "gauge")
    BY TypeIsType
  <2> QED BY <1>1, <1>5, <2>1, Zenon DEF IsGauge
<1> QED BY <1>2, <1>3, <1>4, <1>5, Zenon DEF IsRest

LEMMA DamagedForm ==
  ASSUME NEW l, DOMAIN l = LineFields
  PROVE  /\ DOMAIN Damaged(l) = LineFields
         /\ Damaged(l).form = l.form /\ Damaged(l).name = l.name /\ Damaged(l).labels = l.labels
BY DEF Damaged, LineFields

LEMMA ScrapedLabelled ==
  ASSUME IsServer, NEW lines, NEW how, NEW t, IsScraped(lines, how, t),
         NEW i \in DOMAIN lines, lines[i].form = "sample"
  PROVE  IsLabelled(lines[i])
<1> DEFINE line == lines[i]
<1>1. line # [form |-> "other"] /\ ~ IsTypeAt(i, t, line)
  BY TypeIsType DEF IsTypeAt
<1>2. PICK l : IsCopy(line, l, how) /\ StandsAt(i, t, l)
  BY <1>1 DEF IsScraped
<1>3. IsGauge(l) \/ IsRest(l)
  BY <1>2 DEF StandsAt
<1>4. CASE line = l
  <2>1. l.form = "sample"
    BY <1>4
  <2>2. IsLabelled(l)
    BY <1>3, <2>1, LabelledLine
  <2> QED BY <1>4, <2>2, Zenon
<1>5. CASE IsPart(l, how) /\ line = Damaged(l)
  <2>1. l.form = "sample"
    BY <1>5 DEF IsPart
  <2>2. IsLabelled(l)
    BY <1>3, <2>1, LabelledLine
  <2>3. /\ DOMAIN line = LineFields /\ line.name = l.name /\ line.labels = l.labels
    <3>1. DOMAIN l = LineFields
      BY <2>2 DEF IsLabelled
    <3> QED BY <1>5, <3>1, DamagedForm
  <2> HIDE DEF line
  <2>4. IsLabelled(line)
    BY <2>2, <2>3, Zenon DEF IsLabelled, IsKeyed, Keyed, IsConfigOf
  <2> QED BY <2>4 DEF line
<1> QED BY <1>2, <1>4, <1>5 DEF IsCopy

\* The histograms of a parsed text.
HistogramsIn(parsed) ==
  {parsed.families[x] : x \in {y \in DOMAIN parsed.families : parsed.families[y].kind = "histogram"}}

LEMMA FamilyIsOurs ==
  ASSUME IsServer, NEW lines, NEW how, NEW t, IsScraped(lines, how, t),
         NEW parsed, parsed = parse_text(lines), NEW x \in DOMAIN parsed.families
  PROVE  LET family == parsed.families[x] IN
         /\ IsOurs(family, HistogramsIn(parsed))
         /\ DOMAIN family.samples = 1 .. Len(family.samples)
<1> DEFINE family == parsed.families[x]
<1>1. IsText(lines)
  BY ScrapedIsText
<1>2. AllFrom(lines, parsed) /\ parsed \in OutType(lines)
  BY <1>1, ParsedFrom
<1>3. IsFrom(lines, family)
  BY <1>2 DEF AllFrom
<1>4. family \in FamilyType(lines)
  BY <1>2 DEF OutType
<1>5. family.samples \in Seq(SampleType(lines))
  BY <1>4 DEF FamilyType
<1>6. Len(family.samples) \in Nat /\ DOMAIN family.samples = 1 .. Len(family.samples)
  BY <1>5
<1>7. family.kind = "histogram" => family \in HistogramsIn(parsed)
  BY DEF HistogramsIn
<1> HIDE DEF family
<1>8. ASSUME NEW n \in 1 .. Len(family.samples)
      PROVE  /\ IsKeyed(family.samples[n])
             /\ family.name = <<"vllm:cache_config_info", "">> => IsConfigOf(family.samples[n])
  <2> DEFINE s == family.samples[n]
  <2>1. s \in ToSet(family.samples)
    BY <1>6 DEF ToSet
  <2>2. PICK i \in DOMAIN lines :
          /\ lines[i].form = "sample" /\ parse_sample_line(lines[i])
          /\ lines[i].name[1] = family.name[1] /\ s = TheSample(lines[i])
    BY <1>3, <2>1, Zenon DEF IsFrom
  <2>3. IsLabelled(lines[i])
    BY <2>2, ScrapedLabelled
  <2>4. s.labels = lines[i].labels
    BY <2>2 DEF TheSample
  <2>5. family.name = <<"vllm:cache_config_info", "">> => lines[i].name[1] = "vllm:cache_config_info"
    <3>1. ASSUME family.name = <<"vllm:cache_config_info", "">>
          PROVE  lines[i].name[1] = "vllm:cache_config_info"
      <4>1. family.name[1] = "vllm:cache_config_info"
        BY <3>1, PairIs, Zenon
      <4> QED BY <2>2, <4>1, Zenon
    <3> QED BY <3>1
  <2> HIDE DEF s
  <2>6. IsKeyed(s)
    BY <2>3, <2>4, Zenon DEF IsLabelled, IsKeyed, Keyed
  <2>7. family.name = <<"vllm:cache_config_info", "">> => IsConfigOf(s)
    BY <2>3, <2>4, <2>5, Zenon DEF IsLabelled, IsConfigOf
  <2> QED BY <2>6, <2>7 DEF s
<1>9. IsOurs(family, HistogramsIn(parsed))
  BY <1>6, <1>7, <1>8, Zenon DEF IsOurs
<1> QED BY <1>6, <1>9 DEF family

LEMMA TextCurated ==
  ASSUME IsServer, NEW lines, NEW how, NEW t, IsScraped(lines, how, t)
  PROVE  LET parsed == parse_text(lines) IN
         IsCurated(Fold(Curate, NoScrape, parsed.families), HistogramsIn(parsed))
<1> DEFINE parsed == parse_text(lines)
           seq == parsed.families
<1>1. IsText(lines)
  BY ScrapedIsText
<1>2. parsed \in OutType(lines)
  BY <1>1, ParsedFrom
<1>3. Len(seq) \in Nat /\ DOMAIN seq = 1 .. Len(seq)
  BY <1>2 DEF OutType
<1>4. parsed = parse_text(lines)
  OBVIOUS
<1> HIDE DEF parsed
<1>5. \A x \in DOMAIN parsed.families :
        /\ IsOurs(seq[x], HistogramsIn(parsed))
        /\ DOMAIN seq[x].samples = 1 .. Len(seq[x].samples)
  BY <1>4, FamilyIsOurs
<1>6. IsCurated(Fold(Curate, NoScrape, seq), HistogramsIn(parsed))
  BY <1>3, <1>5, FamiliesCurated
<1> QED BY <1>6 DEF parsed

-----------------------------------------------------------------------------
(* The capacities a scrape shows.                                          *)

\* Each of the series S has the capacity of an engine that no other has.
IsShared(value, S) ==
  \E owner :
    /\ \A k \in S :
         /\ owner[k] \in DOMAIN deployment.capacity
         /\ value[k] = deployment.capacity[owner[k]]
         /\ owner[k] = k.engine \/ NoEngine \in {owner[k], k.engine}
    /\ \A k, l \in S : owner[k] = owner[l] => k = l

\* The capacities of the curated series, as a scrape leaves them.
CapacitiesOf(curated) ==
  [k \in DOMAIN curated.series |->
     IF CapacitySlot \in DOMAIN curated.series[k] THEN curated.series[k][CapacitySlot] ELSE NaN]

Known(value) == {k \in DOMAIN value : value[k] # NaN}

CapacityIs(value) == DOMAIN value \subseteq deployment.keys /\ IsShared(value, Known(value))

\* The series of a curated text but for their capacities.
IsSeries(curated, F) ==
  /\ DOMAIN curated.series \subseteq deployment.keys
  /\ \A k \in DOMAIN curated.series :
       <<"itl">> \in DOMAIN curated.series[k] =>
         \E f \in F : /\ curated.series[k][<<"itl">>] = Collect(f, k)
                      /\ Collect(f, k).buckets # <<>>

LEMMA JoinIs ==
  ASSUME IsServer, NEW F, NEW out, IsCurated(out, F),
         NEW joined, joined = Joined(DOMAIN out.series, out.capacity),
         NEW claims, claims = Claims(DOMAIN out.series, out.capacity)
  PROVE  LET full == WithCapacity(out) IN
         /\ DOMAIN full.series = DOMAIN out.series
         /\ \A k \in DOMAIN out.series :
              full.series[k] = IF k \notin joined THEN out.series[k]
                               ELSE Put(out.series[k], CapacitySlot, out.capacity[claims[k]])
<1> DEFINE full == WithCapacity(out)
           capabilities == IF joined = {} THEN out.capabilities ELSE out.capabilities \cup {"kv_capacity"}
           series == [k \in DOMAIN out.series |->
                        IF k \notin joined THEN out.series[k]
                        ELSE Put(out.series[k], CapacitySlot, out.capacity[claims[k]])]
<1>1. full = [out EXCEPT !.series = series, !.capabilities = capabilities]
  BY Zenon DEF WithCapacity, CapacitySlot
<1>2. /\ DOMAIN series = DOMAIN out.series
      /\ \A k \in DOMAIN out.series :
           series[k] = IF k \notin joined THEN out.series[k]
                       ELSE Put(out.series[k], CapacitySlot, out.capacity[claims[k]])
  OBVIOUS
<1> HIDE DEF series, capabilities, full
<1>3. full.series = series
  BY <1>1 DEF IsCurated, OutFields
<1> QED BY <1>2, <1>3 DEF full

LEMMA JoinedSlots ==
  ASSUME IsServer, NEW F, NEW out, IsCurated(out, F)
  PROVE  LET full == WithCapacity(out) IN
         IsSeries(full, F) /\ CapacityIs(CapacitiesOf(full))
<1> DEFINE keys == DOMAIN out.series
           joined == Joined(keys, out.capacity)
           claims == Claims(keys, out.capacity)
           full == WithCapacity(out)
           value == CapacitiesOf(full)
           engines == deployment.capacity
<1>1. /\ DOMAIN full.series = keys
      /\ \A k \in keys : full.series[k] = IF k \notin joined THEN out.series[k]
                                          ELSE Put(out.series[k], CapacitySlot, out.capacity[claims[k]])
  BY JoinIs
<1>2. IsFiniteSet(keys) /\ IsFiniteSet(DOMAIN out.capacity)
  BY FS_Subset DEF IsServer, IsDeployment, IsCurated
<1>3. /\ joined \subseteq keys
      /\ \A k \in joined :
           /\ claims[k] \in DOMAIN out.capacity
           /\ claims[k] = k.engine \/ NoEngine \in {claims[k], k.engine}
      /\ \A k, l \in joined : claims[k] = claims[l] => k = l
  BY <1>2, CapacityHasOneOwner
<1>4. /\ keys \subseteq deployment.keys
      /\ \A k \in keys : IsSlots(out.series[k], k, F)
      /\ DOMAIN out.capacity \subseteq DOMAIN engines
      /\ \A e \in DOMAIN out.capacity : out.capacity[e] = engines[e]
  BY DEF IsCurated
<1> HIDE DEF full, joined, claims, keys
<1>5. ASSUME NEW k \in keys
      PROVE  /\ value[k] = IF k \in joined THEN engines[claims[k]] ELSE NaN
             /\ <<"itl">> \in DOMAIN full.series[k] =>
                  \E f \in F : /\ full.series[k][<<"itl">>] = Collect(f, k)
                               /\ Collect(f, k).buckets # <<>>
  <2> DEFINE slots == out.series[k]
             new == full.series[k]
  <2>1. /\ CapacitySlot \notin DOMAIN slots
        /\ <<"itl">> \in DOMAIN slots =>
             \E f \in F : slots[<<"itl">>] = Collect(f, k) /\ Collect(f, k).buckets # <<>>
    BY <1>4 DEF IsSlots
  <2>2. value[k] = IF CapacitySlot \in DOMAIN new THEN new[CapacitySlot] ELSE NaN
    BY <1>1 DEF CapacitiesOf
  <2> HIDE DEF value
  <2>3. CASE k \notin joined
    <3>1. new = slots
      BY <1>1, <2>3
    <3> QED BY <2>1, <2>2, <2>3, <3>1, Zenon
  <2>4. CASE k \in joined
    <3>1. new = Put(slots, CapacitySlot, out.capacity[claims[k]])
      BY <1>1, <2>4
    <3> HIDE DEF new, slots
    <3>2. IsPut(new, slots, CapacitySlot, engines[claims[k]])
      BY <1>3, <1>4, <2>4, <3>1, PutIs
    <3>3. value[k] = engines[claims[k]]
      BY <2>2, <3>2 DEF IsPut
    <3>4. CapacitySlot # <<"itl">>
      BY DEF CapacitySlot
    <3>5. <<"itl">> \in DOMAIN new => <<"itl">> \in DOMAIN slots /\ new[<<"itl">>] = slots[<<"itl">>]
      BY <3>2, <3>4 DEF IsPut
    <3> QED BY <2>1, <2>4, <3>3, <3>5, Zenon DEF new
  <2> QED BY <2>3, <2>4
<1>6. IsSeries(full, F)
  BY <1>1, <1>4, <1>5 DEF IsSeries
<1>7. DOMAIN value = keys
  BY <1>1 DEF CapacitiesOf
<1>8. \A k \in joined : claims[k] \in DOMAIN engines
  BY <1>3, <1>4
<1>9. Known(value) \subseteq joined /\ \A k \in Known(value) : value[k] = engines[claims[k]]
  BY <1>5, <1>7 DEF Known
<1> HIDE DEF value
<1>10. IsShared(value, Known(value))
  <2>1. /\ \A k \in Known(value) :
             /\ claims[k] \in DOMAIN engines
             /\ value[k] = engines[claims[k]]
             /\ claims[k] = k.engine \/ NoEngine \in {claims[k], k.engine}
        /\ \A k, l \in Known(value) : claims[k] = claims[l] => k = l
    BY <1>3, <1>8, <1>9, Zenon
  <2> QED BY <2>1, Zenon DEF IsShared
<1>11. CapacityIs(value)
  BY <1>4, <1>7, <1>10 DEF CapacityIs
<1> QED BY <1>6, <1>11 DEF full, value

\* Capacities of engines, each given once, add up to no more than all of them.
LEMMA SharedIsNoMore ==
  ASSUME IsServer, NEW value, NEW S, IsFiniteSet(S), IsShared(value, S)
  PROVE  /\ Sum([k \in S |-> value[k]]) <= Sum(deployment.capacity)
         /\ \A k \in S : \E e \in DOMAIN deployment.capacity :
              deployment.capacity[e] = value[k] /\ (k.engine = e \/ NoEngine \in {k.engine, e})
<1> DEFINE engines == deployment.capacity
           E == DOMAIN engines
           g == [k \in S |-> value[k]]
<1>1. IsFiniteSet(E) /\ \A e \in E : engines[e] \in Nat
  BY DEF IsServer, IsDeployment
<1>2. PICK owner :
        /\ \A k \in S : /\ owner[k] \in E /\ value[k] = engines[owner[k]]
                        /\ owner[k] = k.engine \/ NoEngine \in {owner[k], k.engine}
        /\ \A k, l \in S : owner[k] = owner[l] => k = l
  BY DEF IsShared
<1> HIDE DEF engines, E
<1> DEFINE part == [k \in S |-> {owner[k]}]
           U == UNION {part[k] : k \in S}
<1>3. \A k \in S : part[k] \subseteq E /\ g[k] = engines[owner[k]] /\ g[k] \in Int
  BY <1>1, <1>2
<1>4. \A c, d \in S : c # d => part[c] \cap part[d] = {}
  BY <1>2
<1>5. ASSUME NEW k \in S PROVE g[k] = Total(engines, part[k])
  <2>1. part[k] = {owner[k]} /\ owner[k] \in E /\ engines[owner[k]] \in Int
    BY <1>1, <1>2
  <2>2. Total(engines, {owner[k]}) = engines[owner[k]] + Total(engines, {owner[k]} \ {owner[k]})
    <3>1. IsFiniteSet({owner[k]})
      BY FS_Singleton
    <3>2. \A x \in {owner[k]} : engines[x] \in Int
      BY <2>1
    <3> QED BY <3>1, <3>2, TotalRemove
  <2>3. {owner[k]} \ {owner[k]} = {}
    OBVIOUS
  <2> QED BY <1>3, <2>1, <2>2, <2>3, TotalEmpty
<1>6. \A e \in E : engines[e] \in Int
  BY <1>1
<1>7. U \subseteq E
  BY <1>3
<1> HIDE DEF part
<1>8. Total(g, S) = Total(engines, U)
  <2> HIDE DEF g
  <2> QED BY <1>1, <1>3, <1>4, <1>5, <1>6, TotalOfTotals
<1> HIDE DEF U
<1>9. Total(engines, U) <= Total(engines, E)
  <2>1. /\ \A x \in U : engines[x] \in Int /\ engines[x] <= engines[x]
        /\ \A x \in E \ U : engines[x] >= 0
    BY <1>1, <1>6, <1>7
  <2> QED BY <1>1, <1>6, <1>7, <2>1, TotalMonotone
<1>10. Sum(g) = Total(g, S)
  <2>1. DOMAIN g = S /\ \A k \in DOMAIN g : g[k] \in Int
    BY <1>3
  <2> HIDE DEF g
  <2> QED BY <2>1, SumIs
<1>11. Sum(engines) = Total(engines, E)
  BY <1>1, <1>6, SumIs DEF E
<1>12. Sum(g) <= Sum(engines)
  BY <1>8, <1>9, <1>10, <1>11
<1>13. \A k \in S : \E e \in E : engines[e] = value[k] /\ (k.engine = e \/ NoEngine \in {k.engine, e})
  BY <1>2
<1> QED BY <1>12, <1>13 DEF engines, E

\* What a scrape is of: the text as it came, curated.
IsOfText(curated, lines) ==
  /\ IsText(lines)
  /\ IsSeries(curated, HistogramsIn(parse_text(lines)))
  /\ CapacityIs(CapacitiesOf(curated))

LEMMA ScrapeCurates ==
  ASSUME IsServer, NEW how
  PROVE  IsOfText(curate(parse_text(Damage(Written, how))), Damage(Written, how))
<1> DEFINE lines == Damage(Written, how)
           parsed == parse_text(lines)
           out == Fold(Curate, NoScrape, parsed.families)
<1>1. PICK t : IsScraped(lines, how, t)
  BY DamagedIsScraped
<1>2. IsText(lines)
  BY <1>1, ScrapedIsText
<1> HIDE DEF lines
<1>3. IsCurated(out, HistogramsIn(parsed))
  BY <1>1, TextCurated
<1>4. curate(parsed) = WithCapacity(out)
  BY Zenon DEF curate
<1> HIDE DEF out
<1>5. IsSeries(curate(parsed), HistogramsIn(parsed)) /\ CapacityIs(CapacitiesOf(curate(parsed)))
  BY <1>3, <1>4, JoinedSlots
<1>6. IsOfText(curate(parsed), lines)
  BY <1>2, <1>5, Zenon DEF IsOfText
<1> QED BY <1>6 DEF lines

CapacityInv == CapacityIs(capacity)

LEMMA CapacityStays ==
  ASSUME ServerInv, CapacityInv, [Next]_vars
  PROVE  CapacityInv'
<1>1. ASSUME capacity' = capacity, deployment' = deployment PROVE CapacityInv'
  BY <1>1 DEF CapacityInv, CapacityIs, IsShared
<1>2. ASSUME NEW how \in Damages, Scrape(how) PROVE CapacityInv'
  <2> DEFINE curated == curate(parse_text(Damage(Written, how)))
  <2>1. text' = Damage(Written, how) /\ deployment' = deployment
    BY <1>2, Zenon DEF Scrape, serverVars
  <2>2. capacity' = CapacitiesOf(curated)
    BY <1>2, Zenon DEF Scrape, CapacitiesOf
  <2>3. CapacityIs(CapacitiesOf(curated))
    BY ServerIs, ScrapeCurates DEF IsOfText
  <2> HIDE DEF curated
  <2> QED BY <2>1, <2>2, <2>3 DEF CapacityInv, CapacityIs, IsShared
<1>3. CASE Elapse
  BY <1>1, <1>3 DEF Elapse, serverVars
<1>4. ASSUME NEW v \in Latencies, Observe(v) PROVE CapacityInv'
  BY <1>1, <1>4 DEF Observe
<1>5. ASSUME NEW version \in DOMAIN Layouts, Restart(version) PROVE CapacityInv'
  BY <1>1, <1>5 DEF Restart
<1>6. CASE UNCHANGED vars
  BY <1>1, <1>6 DEF vars, serverVars
<1> QED BY <1>2, <1>3, <1>4, <1>5, <1>6 DEF Next

LEMMA NoneIsShared ==
  ASSUME capacity = Nothing
  PROVE  CapacityInv
<1>1. DOMAIN capacity = {} /\ Known(capacity) = {}
  BY DEF Nothing, Known
<1>2. IsShared(capacity, Known(capacity))
  BY <1>1 DEF IsShared
<1> QED BY <1>1, <1>2 DEF CapacityInv, CapacityIs

LEMMA CapacityIsOnce ==
  ASSUME ServerInv, CapacityInv
  PROVE  CapacityNotDoubleCounted
<1> DEFINE S == Known(capacity)
<1>1. IsServer
  BY ServerIs
<1>2. S \subseteq deployment.keys /\ IsShared(capacity, S)
  BY DEF CapacityInv, CapacityIs, Known
<1>3. IsFiniteSet(S)
  BY <1>1, <1>2, FS_Subset DEF IsServer, IsDeployment
<1>4. S = {k \in DOMAIN capacity : capacity[k] # NaN}
  BY DEF Known
<1> HIDE DEF S
<1>5. /\ Sum([k \in S |-> capacity[k]]) <= Sum(deployment.capacity)
      /\ \A k \in S : \E e \in DOMAIN deployment.capacity :
           deployment.capacity[e] = capacity[k] /\ (k.engine = e \/ NoEngine \in {k.engine, e})
  BY <1>1, <1>2, <1>3, SharedIsNoMore
<1> QED BY <1>4, <1>5, Zenon DEF CapacityNotDoubleCounted

\* normalize.rs:407, for every deployment and every text of it: what is shown of
\* the engines' capacities is no more than they have, whichever series claim them.
THEOREM CapacityIsNeverDoubled == Spec => []CapacityNotDoubleCounted
<1>1. Init => ServerInv /\ CapacityInv
  BY ServerBegins, NoneIsShared DEF Init
<1>2. ServerInv /\ CapacityInv /\ [Next]_vars => (ServerInv /\ CapacityInv)'
  BY ServerStays, CapacityStays
<1>3. ServerInv /\ CapacityInv => CapacityNotDoubleCounted
  BY CapacityIsOnce
<1> QED BY <1>1, <1>2, <1>3, PTL DEF Spec

-----------------------------------------------------------------------------
(* The rings.                                                              *)

IsRing(s) == s \in Seq(Range(s))

LEMMA RingIsList ==
  ASSUME NEW s, IsRing(s)
  PROVE  IsList(s) /\ \A i \in DOMAIN s : s[i] \in Range(s)
BY DEF IsRing, IsList, Range

IsDropped(new, s, n) ==
  /\ IsRing(new) /\ Len(new) = n
  /\ \A i \in 1 .. n : new[i] = s[Len(s) - n + i]

LEMMA DropIs ==
  ASSUME NEW s, IsRing(s), NEW n \in 0 .. Len(s)
  PROVE  IsDropped(DropTo(s, n), s, n)
<1> DEFINE new == DropTo(s, n)
           S == Range(s)
           L == Len(s)
<1>1. s \in Seq(S) /\ L \in Nat /\ DOMAIN s = 1 .. L
  BY DEF IsRing
<1>2. new = SubSeq(s, L - n + 1, L)
  BY DEF DropTo
<1> HIDE DEF S, new, L
<1>3. L - n + 1 \in 1 .. L + 1
  BY <1>1 DEF L
<1>4. new \in [1 .. n -> S] /\ \A i \in 1 .. n : new[i] = s[L - n + i]
  <2> DEFINE a == L - n + 1
  <2>1. new = [i \in 1 .. L - a + 1 |-> s[i + a - 1]]
    BY <1>1, <1>2, <1>3 DEF L
  <2>2. L - a + 1 = n
    BY <1>1
  <2>3. \A i \in 1 .. n : i + a - 1 = L - n + i /\ L - n + i \in 1 .. L
    BY <1>1 DEF L
  <2> HIDE DEF a
  <2>4. \A i \in 1 .. n : s[L - n + i] \in S
    BY <1>1, <2>3
  <2> QED BY <2>1, <2>2, <2>3, <2>4
<1>5. Len(new) = n /\ DOMAIN new = 1 .. n /\ new \in Seq(S)
  BY <1>4
<1>6. new \in Seq(Range(new))
  BY <1>5 DEF Range
<1> QED BY <1>4, <1>5, <1>6 DEF IsDropped, IsRing, new, L

IsAppended(new, s, p) ==
  /\ IsRing(new) /\ Len(new) = Len(s) + 1
  /\ \A i \in 1 .. Len(s) : new[i] = s[i]
  /\ new[Len(s) + 1] = p

LEMMA AppendIs ==
  ASSUME NEW s, IsRing(s), NEW p
  PROVE  IsAppended(Append(s, p), s, p)
<1> DEFINE new == Append(s, p)
           S == Range(s) \cup {p}
<1>1. s \in Seq(S)
  BY DEF IsRing
<1> HIDE DEF S
<1>2. p \in S
  BY DEF S
<1>3. /\ new \in Seq(S) /\ Len(new) = Len(s) + 1
      /\ \A i \in 1 .. Len(s) : new[i] = s[i]
      /\ new[Len(s) + 1] = p
  BY <1>1, <1>2
<1> HIDE DEF new
<1>4. new \in Seq(Range(new))
  BY <1>3 DEF Range
<1> QED BY <1>3, <1>4 DEF IsAppended, IsRing, new

\* Every point is at a later time than the one before it, and none is after end.
IsTimed(s, end) ==
  /\ \A i \in 1 .. Len(s) : s[i].at \in Int /\ s[i].at <= end
  /\ \A i, j \in 1 .. Len(s) : i < j => s[i].at < s[j].at

LEMMA SuffixIsTimed ==
  ASSUME NEW new, NEW s, NEW n \in 0 .. Len(s), Len(s) \in Nat, IsDropped(new, s, n),
         NEW end, IsTimed(s, end)
  PROVE  IsTimed(new, end)
<1> DEFINE d == Len(s) - n
<1>1. /\ Len(new) = n /\ \A i \in 1 .. n : new[i] = s[d + i] /\ d + i \in 1 .. Len(s)
  BY DEF IsDropped
<1>2. \A i, j \in 1 .. n : i < j => d + i < d + j
  OBVIOUS
<1> HIDE DEF d
<1> QED BY <1>1, <1>2 DEF IsTimed

LEMMA LongerIsTimed ==
  ASSUME NEW new, NEW s, NEW p, Len(s) \in Nat, IsAppended(new, s, p), NEW end \in Int,
         IsTimed(s, end), p.at = end, \A i \in 1 .. Len(s) : s[i].at < end
  PROVE  IsTimed(new, end)
<1> DEFINE n == Len(s)
<1>1. /\ Len(new) = n + 1 /\ n \in Nat /\ new[n + 1] = p
      /\ \A i \in 1 .. n : new[i] = s[i]
  BY DEF IsAppended
<1>2. /\ \A i \in 1 .. n : s[i].at \in Int /\ s[i].at < end
      /\ \A i, j \in 1 .. n : i < j => s[i].at < s[j].at
  BY DEF IsTimed
<1> HIDE DEF n
<1>3. ASSUME NEW i \in 1 .. n + 1 PROVE new[i].at \in Int /\ new[i].at <= end
  <2>1. CASE i \in 1 .. n
    BY <1>1, <1>2, <2>1
  <2>2. CASE i = n + 1
    BY <1>1, <2>2
  <2> QED BY <1>1, <2>1, <2>2
<1>4. ASSUME NEW i \in 1 .. n + 1, NEW j \in 1 .. n + 1, i < j PROVE new[i].at < new[j].at
  <2>1. i \in 1 .. n
    BY <1>1, <1>4
  <2>2. CASE j \in 1 .. n
    BY <1>1, <1>2, <1>4, <2>1, <2>2
  <2>3. CASE j = n + 1
    BY <1>1, <1>2, <2>1, <2>3
  <2> QED BY <1>1, <2>2, <2>3
<1> QED BY <1>1, <1>3, <1>4 DEF IsTimed

\* What is kept of a window is no longer than it need be.
IsWindow(s) ==
  /\ Len(s) <= MaxPoints
  /\ Len(s) > 2 =>
       /\ Newest(s).at - s[2].at < Window
       /\ Newest(s).at - s[1].at <= Window + Margin

LEMMA RingBounds ==
  /\ Window \in Nat /\ Margin \in Nat /\ HistoryWindow \in Nat
  /\ MaxPoints \in Nat \ {0} /\ MaxBuckets \in Nat \ {0} /\ MaxHistory \in Nat \ {0}
BY RingsAssumption

LEMMA EvictedIs ==
  ASSUME NEW s, IsRing(s), Len(s) \in Nat \ {0}, NEW end, IsTimed(s, end)
  PROVE  /\ \E n \in 1 .. Len(s) : IsDropped(Evicted(s), s, n)
         /\ IsWindow(Evicted(s))
<1> DEFINE L == Len(s)
           S == {k \in 0 .. L : ~ Superfluous(s, k)}
           few == Min(S)
           n == Min({L - few, MaxPoints})
           new == Evicted(s)
<1>1. new = DropTo(s, n)
  BY Zenon DEF Evicted
<1>2. L \in Nat \ {0}
  OBVIOUS
<1> HIDE DEF new, L
<1>3. S \in SUBSET Nat /\ L - 1 \in S
  <2>1. L - 1 \in 0 .. L /\ ~ (L - (L - 1) > 2)
    BY <1>2
  <2> QED BY <1>2, <2>1 DEF Superfluous, L
<1>4. few \in S /\ \A m \in S : few <= m
  BY <1>3, MinIn
<1>5. few \in 0 .. L - 1 /\ ~ Superfluous(s, few)
  BY <1>2, <1>3, <1>4
<1> HIDE DEF few
<1>6. n = IF L - few <= MaxPoints THEN L - few ELSE MaxPoints
  BY <1>2, <1>5, MinOfTwo, RingBounds
<1> HIDE DEF n
<1>7. n \in 1 .. L /\ n <= MaxPoints /\ n <= L - few
  BY <1>2, <1>5, <1>6, RingBounds
<1>8. IsDropped(new, s, n)
  BY <1>1, <1>2, <1>7, DropIs DEF L
<1>9. ASSUME n > 2
      PROVE  Newest(new).at - new[2].at < Window /\ Newest(new).at - new[1].at <= Window + Margin
  <2>1. /\ L - few > 2
        /\ Newest(s).at - s[few + 2].at < Window
        /\ Newest(s).at - s[few + 1].at <= Window + Margin
    <3>1. L - few > 2
      BY <1>2, <1>5, <1>7, <1>9
    <3>2. s[few + 1].at \in Int /\ s[few + 2].at \in Int /\ Newest(s).at \in Int
      BY <1>2, <1>5, <3>1 DEF IsTimed, Newest, L
    <3> QED BY <1>5, <3>1, <3>2, RingBounds DEF Superfluous, L
  <2>2. new[2] = s[L - n + 2] /\ new[1] = s[L - n + 1] /\ Newest(new) = Newest(s)
    <3>1. \A i \in 1 .. n : new[i] = s[L - n + i]
      BY <1>8 DEF IsDropped, L
    <3>2. Len(new) = n
      BY <1>8 DEF IsDropped
    <3>3. L - n + n = L /\ 1 \in 1 .. n /\ 2 \in 1 .. n /\ n \in 1 .. n
      BY <1>2, <1>7, <1>9
    <3> QED BY <3>1, <3>2, <3>3 DEF Newest, L
  <2>3. ASSUME NEW i \in 1 .. 2 PROVE s[few + i].at <= s[L - n + i].at
    <3>1. few + i \in 1 .. L /\ L - n + i \in 1 .. L /\ few + i <= L - n + i
      BY <1>2, <1>5, <1>7, <1>9, <2>1
    <3>2. s[few + i].at \in Int /\ s[L - n + i].at \in Int
      BY <3>1 DEF IsTimed, L
    <3>3. CASE few + i = L - n + i
      BY <3>2, <3>3
    <3>4. CASE few + i < L - n + i
      BY <3>1, <3>2, <3>4 DEF IsTimed, L
    <3> QED BY <1>2, <1>5, <1>7, <3>1, <3>3, <3>4
  <2>4. \A i \in 1 .. 2 : s[few + i].at \in Int /\ s[L - n + i].at \in Int
    BY <1>2, <1>5, <1>7, <1>9, <2>1 DEF IsTimed, L
  <2>5. Newest(s).at \in Int
    BY <1>2 DEF IsTimed, Newest, L
  <2>6. s[few + 1].at <= s[L - n + 1].at /\ s[few + 2].at <= s[L - n + 2].at
    BY <2>3
  <2>7. s[few + 1].at \in Int /\ s[few + 2].at \in Int /\ s[L - n + 1].at \in Int /\ s[L - n + 2].at \in Int
    BY <2>4
  <2> DEFINE z == Newest(s).at
             x1 == s[few + 1].at
             x2 == s[few + 2].at
             y1 == s[L - n + 1].at
             y2 == s[L - n + 2].at
  <2>8. Newest(new).at = z /\ new[1].at = y1 /\ new[2].at = y2
    BY <2>2
  <2>9. /\ z \in Int /\ x1 \in Int /\ x2 \in Int /\ y1 \in Int /\ y2 \in Int
        /\ x1 <= y1 /\ x2 <= y2 /\ z - x2 < Window /\ z - x1 <= Window + Margin
    BY <2>1, <2>5, <2>6, <2>7, Zenon
  <2> HIDE DEF x1, x2, y1, y2, z
  <2>10. z - y2 < Window /\ z - y1 <= Window + Margin
    BY <2>9, RingBounds
  <2> QED BY <2>8, <2>10, Zenon
<1>10. IsWindow(new)
  BY <1>7, <1>8, <1>9 DEF IsWindow, IsDropped
<1> QED BY <1>7, <1>8, <1>10 DEF new, L

\* A window after a snapshot: the newest of what it was, and the snapshot.
IsPushed(new, s, p) ==
  /\ IsRing(new) /\ Len(new) \in 1 .. Len(s) + 1
  /\ \A i \in 1 .. Len(new) :
       new[i] = IF i = Len(new) THEN p ELSE s[Len(s) - Len(new) + 1 + i]
  /\ Len(new) > 1 => ~ Incomparable(Newest(s), p)

LEMMA EmptyIsRing == IsRing(<<>>) /\ Len(<<>>) = 0 /\ \A end : IsTimed(<<>>, end)
BY DEF IsRing, IsTimed

LEMMA PushedIs ==
  ASSUME NEW s, IsRing(s), NEW p, NEW end \in Int, p.at = end, IsTimed(s, end),
         \A i \in 1 .. Len(s) : s[i].at < end
  PROVE  LET new == PushPoint(s, p) IN
         IsPushed(new, s, p) /\ IsTimed(new, end) /\ IsWindow(new)
<1> DEFINE new == PushPoint(s, p)
           reset == s # <<>> /\ Incomparable(Newest(s), p)
           longer == IF reset THEN <<p>> ELSE Append(s, p)
<1>1. new = Evicted(longer)
  BY Zenon DEF PushPoint
<1>2. Len(s) \in Nat /\ (s = <<>> <=> Len(s) = 0)
  BY DEF IsRing
<1> HIDE DEF new
<1>3. CASE reset
  <2>1. IsAppended(Append(<<>>, p), <<>>, p)
    BY EmptyIsRing, AppendIs
  <2>2. Append(<<>>, p) = <<p>>
    OBVIOUS
  <2>3. IsAppended(longer, <<>>, p)
    BY <1>3, <2>1, <2>2, Zenon
  <2> HIDE DEF longer, reset
  <2>4. IsTimed(longer, end)
    BY <2>3, EmptyIsRing, LongerIsTimed
  <2>5. IsRing(longer) /\ Len(longer) = 1 /\ longer[1] = p
    BY <2>3, EmptyIsRing DEF IsAppended
  <2>6. /\ \E n \in 1 .. Len(longer) : IsDropped(new, longer, n)
        /\ IsWindow(new)
    <3>1. Len(longer) \in Nat \ {0}
      BY <2>5
    <3> QED BY <1>1, <2>4, <2>5, <3>1, EvictedIs
  <2>7. IsDropped(new, longer, 1)
    <3>1. \A n \in 1 .. Len(longer) : n = 1
      BY <2>5
    <3> QED BY <2>6, <3>1
  <2>8. IsRing(new) /\ Len(new) = 1 /\ new[1] = p
    BY <2>5, <2>7 DEF IsDropped
  <2>9. IsPushed(new, s, p)
    BY <1>2, <2>8 DEF IsPushed
  <2>10. IsTimed(new, end)
    BY <2>4, <2>5, <2>7, SuffixIsTimed
  <2> QED BY <2>6, <2>9, <2>10 DEF new
<1>4. CASE ~ reset
  <2>1. IsAppended(longer, s, p)
    BY <1>4, AppendIs
  <2>2. s # <<>> => ~ Incomparable(Newest(s), p)
    BY <1>4
  <2> HIDE DEF longer, reset
  <2>3. IsTimed(longer, end)
    BY <1>2, <2>1, LongerIsTimed
  <2>4. /\ IsRing(longer) /\ Len(longer) = Len(s) + 1 /\ Len(longer) \in Nat \ {0}
        /\ \A i \in 1 .. Len(s) : longer[i] = s[i]
        /\ longer[Len(s) + 1] = p
    BY <1>2, <2>1 DEF IsAppended
  <2>5. /\ \E n \in 1 .. Len(longer) : IsDropped(new, longer, n)
        /\ IsWindow(new)
    BY <1>1, <2>3, <2>4, EvictedIs
  <2>6. PICK n \in 1 .. Len(longer) : IsDropped(new, longer, n)
    BY <2>5
  <2>7. IsRing(new) /\ Len(new) = n /\ \A i \in 1 .. n : new[i] = longer[Len(longer) - n + i]
    BY <2>6 DEF IsDropped
  <2>8. ASSUME NEW i \in 1 .. n
        PROVE  new[i] = IF i = n THEN p ELSE s[Len(s) - n + 1 + i]
    <3>1. Len(longer) - n + i = Len(s) - n + 1 + i
      BY <1>2, <2>4
    <3>2. CASE i = n
      <4>1. Len(longer) - n + i = Len(s) + 1
        BY <1>2, <2>4, <3>2
      <4> QED BY <2>4, <2>7, <3>2, <4>1
    <3>3. CASE i # n
      <4>1. Len(s) - n + 1 + i \in 1 .. Len(s)
        BY <1>2, <2>4, <3>3
      <4> QED BY <2>4, <2>7, <3>1, <3>3, <4>1
    <3> QED BY <3>2, <3>3
  <2>9. n > 1 => s # <<>>
    BY <1>2, <2>4
  <2>10. IsPushed(new, s, p)
    BY <2>2, <2>4, <2>7, <2>8, <2>9 DEF IsPushed
  <2>11. IsTimed(new, end)
    BY <2>3, <2>4, <2>6, SuffixIsTimed
  <2> QED BY <2>5, <2>10, <2>11 DEF new
<1> QED BY <1>3, <1>4

IsHistory(s) ==
  /\ Len(s) <= MaxHistory
  /\ \A i \in 1 .. Len(s) : Newest(s).at - s[i].at <= HistoryWindow

\* A point of now is charted, and what goes is too old or too much.
LEMMA ChartedIs ==
  ASSUME NEW s, IsRing(s), NEW end \in Int, NEW v, IsTimed(s, end),
         \A i \in 1 .. Len(s) : s[i].at < end
  PROVE  LET new == PushHistory(s, end, v) IN
         /\ IsRing(new) /\ IsTimed(new, end) /\ IsHistory(new)
         /\ Len(new) > 0 /\ Newest(new).at = end
<1> DEFINE new == PushHistory(s, end, v)
           p == [at |-> end, value |-> v]
           longer == Append(s, p)
           S == {i \in DOMAIN longer : end - longer[i].at <= HistoryWindow}
           recent == Cardinality(S)
           n == Min({recent, MaxHistory})
<1>1. Len(s) \in Nat /\ (s = <<>> <=> Len(s) = 0)
  BY DEF IsRing
<1>2. s # <<>> => ~ (end < Newest(s).at)
  <2>1. ASSUME s # <<>> PROVE ~ (end < Newest(s).at)
    <3>1. Len(s) \in 1 .. Len(s)
      BY <1>1, <2>1
    <3>2. s[Len(s)].at \in Int /\ s[Len(s)].at < end
      BY <3>1 DEF IsTimed
    <3> QED BY <3>2 DEF Newest
  <2> QED BY <2>1
<1>3. new = DropTo(longer, n)
  <2>1. new = IF s # <<>> /\ end < Newest(s).at THEN s ELSE DropTo(longer, n)
    BY Zenon DEF PushHistory
  <2> QED BY <1>2, <2>1, Zenon
<1>4. IsAppended(longer, s, p) /\ p.at = end
  BY AppendIs
<1> HIDE DEF new, longer, p
<1>5. IsTimed(longer, end)
  BY <1>1, <1>4, LongerIsTimed
<1> DEFINE L == Len(longer)
<1>6. /\ IsRing(longer) /\ L \in Nat \ {0} /\ DOMAIN longer = 1 .. L /\ longer[L] = p
  BY <1>1, <1>4 DEF IsAppended, IsRing
<1> HIDE DEF L
<1>7. /\ \A i \in 1 .. L : longer[i].at \in Int /\ longer[i].at <= end
      /\ \A i, j \in 1 .. L : i < j => longer[i].at < longer[j].at
  BY <1>5 DEF IsTimed, L
<1>8. S \subseteq 1 .. L /\ L \in S
  <2>1. end - longer[L].at = 0
    BY <1>4, <1>6
  <2> QED BY <1>6, <2>1, RingBounds
<1>9. \A i, j \in 1 .. L : i \in S /\ i < j => j \in S
  <2>1. ASSUME NEW i \in 1 .. L, NEW j \in 1 .. L, i \in S, i < j PROVE j \in S
    <3>1. end - longer[i].at <= HistoryWindow /\ longer[i].at < longer[j].at
      BY <1>7, <2>1
    <3>2. longer[i].at \in Int /\ longer[j].at \in Int
      BY <1>7
    <3>3. end - longer[j].at <= HistoryWindow
      BY <3>1, <3>2, RingBounds
    <3> QED BY <1>6, <3>3
  <2> QED BY <2>1
<1>10. \A i \in S : end - longer[i].at <= HistoryWindow
  OBVIOUS
<1> HIDE DEF S
<1>11. IsFiniteSet(S) /\ recent \in Nat /\ recent <= L
  <2>1. IsFiniteSet(1 .. L) /\ Cardinality(1 .. L) = L
    BY <1>6, FS_Interval
  <2> QED BY <1>8, <2>1, FS_Subset, FS_CardinalityType
<1>12. recent # 0
  BY <1>8, <1>11, FS_EmptySet
<1> HIDE DEF recent
<1>13. n = IF recent <= MaxHistory THEN recent ELSE MaxHistory
  BY <1>11, MinOfTwo, RingBounds
<1> HIDE DEF n
<1>14. n \in 1 .. L /\ n <= recent /\ n <= MaxHistory
  BY <1>6, <1>11, <1>12, <1>13, RingBounds
<1>15. IsDropped(new, longer, n)
  BY <1>3, <1>6, <1>14, DropIs DEF L
<1>16. ASSUME NEW i \in 1 .. n PROVE L - n + i \in S
  <2> DEFINE x == L - n + i
  <2>1. x \in 1 .. L
    BY <1>6, <1>14
  <2>2. SUFFICES ASSUME x \notin S PROVE FALSE
    OBVIOUS
  <2> HIDE DEF x
  <2>3. S \subseteq x + 1 .. L
    <3>1. ASSUME NEW y \in S PROVE y \in x + 1 .. L
      <4>1. y \in 1 .. L /\ y # x /\ ~ (y < x)
        BY <1>8, <1>9, <2>1, <2>2
      <4> QED BY <2>1, <4>1
    <3> QED BY <3>1
  <2>4. IsFiniteSet(x + 1 .. L) /\ Cardinality(x + 1 .. L) = IF x + 1 > L THEN 0 ELSE L - (x + 1) + 1
    <3>1. x + 1 \in Int /\ L \in Int
      BY <1>6, <2>1
    <3> QED BY <3>1, FS_Interval
  <2>5. Cardinality(S) <= Cardinality(x + 1 .. L)
    BY <2>3, <2>4, FS_Subset
  <2>6. recent <= L - x
    BY <1>6, <2>1, <2>4, <2>5 DEF recent
  <2>7. L - x < n
    BY <1>6, <1>14 DEF x
  <2> QED BY <1>6, <1>11, <1>14, <2>1, <2>6, <2>7
<1>17. IsRing(new) /\ Len(new) = n /\ \A i \in 1 .. n : new[i] = longer[L - n + i]
  BY <1>15 DEF IsDropped, L
<1>18. Newest(new) = p
  <2>1. L - n + n = L /\ n \in 1 .. n
    BY <1>6, <1>14
  <2> QED BY <1>6, <1>17, <2>1 DEF Newest
<1>19. IsTimed(new, end)
  BY <1>5, <1>6, <1>14, <1>15, SuffixIsTimed DEF L
<1>20. IsHistory(new)
  <2>1. \A i \in 1 .. n : end - new[i].at <= HistoryWindow
    BY <1>10, <1>16, <1>17
  <2> QED BY <1>4, <1>14, <1>17, <1>18, <2>1 DEF IsHistory
<1> QED BY <1>4, <1>14, <1>17, <1>18, <1>19, <1>20 DEF new

RingInv ==
  /\ IsRing(ring) /\ IsTimed(ring, now) /\ IsWindow(ring)
  /\ IsRing(chart) /\ IsTimed(chart, now) /\ IsHistory(chart)
  /\ now \in Times(ring) => now \in Times(chart)
  /\ DOMAIN truth = Times(ring)

LEMMA TimesAre ==
  ASSUME NEW s, IsRing(s), NEW end \in Int, IsTimed(s, end), end \notin Times(s)
  PROVE  \A i \in 1 .. Len(s) : s[i].at < end
<1>1. DOMAIN s = 1 .. Len(s)
  BY DEF IsRing
<1>2. ASSUME NEW i \in 1 .. Len(s) PROVE s[i].at < end
  <2>1. s[i].at \in Int /\ s[i].at <= end
    BY DEF IsTimed
  <2>2. s[i].at # end
    BY <1>1 DEF Times
  <2> QED BY <2>1, <2>2
<1> QED BY <1>2

LEMMA LaterIsTimed ==
  ASSUME NEW s, NEW a \in Int, NEW b \in Int, a <= b, IsTimed(s, a)
  PROVE  IsTimed(s, b)
<1>1. \A i \in 1 .. Len(s) : s[i].at \in Int /\ s[i].at <= b
  <2>1. ASSUME NEW i \in 1 .. Len(s) PROVE s[i].at \in Int /\ s[i].at <= b
    <3>1. s[i].at \in Int /\ s[i].at <= a
      BY DEF IsTimed
    <3> QED BY <3>1
  <2> QED BY <2>1
<1> QED BY <1>1 DEF IsTimed

\* The time of a snapshot.
LEMMA SnapshotTime ==
  ASSUME NEW curated, NEW at
  PROVE  Snapshot(curated, at) = NoPoint \/ Snapshot(curated, at).at = at
<1> DEFINE raw == curated.series[Busy][<<"itl">>]
           buckets == ToBuckets(raw.buckets)
           p == [at |-> at, buckets |-> buckets, sum |-> raw.sum, count |-> raw.count]
<1>1. Snapshot(curated, at) = NoPoint \/ Snapshot(curated, at) = to_point(raw, at)
  BY Zenon DEF Snapshot
<1>2. to_point(raw, at) = NoPoint \/ to_point(raw, at) = p
  BY Zenon DEF to_point
<1>3. p.at = at
  OBVIOUS
<1> HIDE DEF p, raw
<1> QED BY <1>1, <1>2, <1>3, Zenon

\* What a scrape does.
ScrapeOf(how, curated, point) ==
  /\ text' = Damage(Written, how)
  /\ curated = curate(parse_text(Damage(Written, how)))
  /\ point = Snapshot(curated, now)
  /\ capacity' = CapacitiesOf(curated)
  /\ ring' = IF Busy \notin DOMAIN curated.series THEN <<>>
             ELSE IF point = NoPoint THEN ring ELSE PushPoint(ring, point)
  /\ estimate' = IF point = NoPoint THEN NoEstimate ELSE Estimate(ring')
  /\ chart' = PushHistory(chart, now, 0)
  /\ truth' = [t \in Times(ring') |->
                 IF t = now THEN [run |-> run, seen |-> seen, total |-> total, lost |-> how = "_count"] ELSE truth[t]]
  /\ now' = now /\ deployment' = deployment /\ layout' = layout
  /\ seen' = seen /\ run' = run /\ total' = total

LEMMA ScrapeIs ==
  ASSUME NEW how \in Damages, Scrape(how)
  PROVE  now \notin Times(chart) /\ \E curated, point : ScrapeOf(how, curated, point)
<1> DEFINE curated == curate(parse_text(Damage(Written, how)))
           point == Snapshot(curated, now)
<1>1. ScrapeOf(how, curated, point)
  BY Zenon DEF Scrape, ScrapeOf, serverVars, CapacitiesOf
<1>2. now \notin Times(chart)
  BY DEF Scrape
<1> QED BY <1>1, <1>2

LEMMA RingsStay ==
  ASSUME ServerInv, RingInv, [Next]_vars
  PROVE  RingInv'
<1>1. now \in Int
  BY DEF ServerInv
<1>2. ASSUME ring' = ring, chart' = chart, truth' = truth, now' = now PROVE RingInv'
  BY <1>2 DEF RingInv, Times
<1>3. CASE Elapse
  <2>1. now' = now + 1 /\ ring' = ring /\ chart' = chart /\ truth' = truth
    BY <1>3 DEF Elapse
  <2>2. IsTimed(ring, now + 1) /\ IsTimed(chart, now + 1)
    BY <1>1, LaterIsTimed DEF RingInv
  <2>3. now + 1 \notin Times(ring)
    <3>1. ASSUME NEW i \in DOMAIN ring PROVE ring[i].at # now + 1
      <4>1. i \in 1 .. Len(ring)
        BY DEF RingInv, IsRing
      <4>2. ring[i].at \in Int /\ ring[i].at <= now
        BY <4>1 DEF RingInv, IsTimed
      <4> QED BY <1>1, <4>2
    <3> QED BY <3>1 DEF Times
  <2> QED BY <2>1, <2>2, <2>3 DEF RingInv, Times
<1>4. ASSUME NEW how \in Damages, Scrape(how) PROVE RingInv'
  <2>1. now \notin Times(chart) /\ \E curated, point : ScrapeOf(how, curated, point)
    BY <1>4, ScrapeIs
  <2>2. PICK curated, point : ScrapeOf(how, curated, point)
    BY <2>1
  <2>3. now' = now /\ chart' = PushHistory(chart, now, 0)
    BY <2>2, Zenon DEF ScrapeOf
  <2>4. now \notin Times(ring)
    BY <2>1 DEF RingInv
  <2>5. /\ \A i \in 1 .. Len(ring) : ring[i].at < now
        /\ \A i \in 1 .. Len(chart) : chart[i].at < now
    BY <1>1, <2>1, <2>4, TimesAre DEF RingInv
  <2>6. /\ IsRing(chart') /\ IsTimed(chart', now) /\ IsHistory(chart')
        /\ Len(chart') > 0 /\ Newest(chart').at = now
    BY <1>1, <2>3, <2>5, ChartedIs DEF RingInv
  <2>7. now \in Times(chart')
    <3>1. Len(chart') \in DOMAIN chart'
      BY <2>6 DEF IsRing
    <3> QED BY <2>6, <3>1 DEF Times, Newest
  <2>8. IsRing(ring') /\ IsTimed(ring', now) /\ IsWindow(ring')
    <3>1. CASE ring' = ring
      BY <3>1 DEF RingInv
    <3>2. CASE ring' = <<>>
      BY <3>2, EmptyIsRing, RingBounds DEF IsWindow
    <3>3. CASE point # NoPoint /\ ring' = PushPoint(ring, point)
      <4>1. point.at = now
        BY <2>2, <3>3, SnapshotTime, Zenon DEF ScrapeOf
      <4>2. IsRing(ring) /\ IsTimed(ring, now)
        BY DEF RingInv
      <4> DEFINE r == PushPoint(ring, point)
      <4>3. IsPushed(r, ring, point) /\ IsTimed(r, now) /\ IsWindow(r)
        BY <1>1, <2>5, <4>1, <4>2, PushedIs
      <4>4. IsRing(r)
        BY <4>3 DEF IsPushed
      <4>5. ring' = r
        BY <3>3
      <4> HIDE DEF r
      <4> QED BY <4>3, <4>4, <4>5
    <3>4. ring' = <<>> \/ ring' = ring \/ (point # NoPoint /\ ring' = PushPoint(ring, point))
      BY <2>2, Zenon DEF ScrapeOf
    <3> QED BY <3>1, <3>2, <3>3, <3>4
  <2>9. DOMAIN truth' = Times(ring')
    BY <2>2 DEF ScrapeOf
  <2> QED BY <2>3, <2>6, <2>7, <2>8, <2>9 DEF RingInv, Times
<1>5. ASSUME NEW v \in Latencies, Observe(v) PROVE RingInv'
  BY <1>2, <1>5 DEF Observe
<1>6. ASSUME NEW version \in DOMAIN Layouts, Restart(version) PROVE RingInv'
  BY <1>2, <1>6 DEF Restart
<1>7. CASE UNCHANGED vars
  BY <1>2, <1>7 DEF vars
<1> QED BY <1>3, <1>4, <1>5, <1>6, <1>7 DEF Next

LEMMA RingsBegin ==
  ASSUME Init
  PROVE  RingInv
<1>1. IsWindow(<<>>) /\ IsHistory(<<>>)
  BY RingBounds DEF IsWindow, IsHistory
<1>2. Times(<<>>) = {} /\ DOMAIN Nothing = {}
  BY DEF Times, Nothing
<1> QED BY <1>1, <1>2, EmptyIsRing DEF Init, RingInv

\* histogram.rs:122 and history.rs:46: the types, and that whatever is scraped
\* when, the rings keep as much as they need and no more.
THEOREM PipelineTypeOK == Spec => []TypeOK
<1>1. Init => ServerInv /\ CapacityInv /\ RingInv
  BY ServerBegins, NoneIsShared, RingsBegin DEF Init
<1>2. ServerInv /\ CapacityInv /\ RingInv /\ [Next]_vars => (ServerInv /\ CapacityInv /\ RingInv)'
  BY ServerStays, CapacityStays, RingsStay
<1>3. ASSUME ServerInv, CapacityInv, RingInv PROVE TypeOK
  <2>1. DOMAIN capacity \subseteq deployment.keys
    BY <1>3 DEF CapacityInv, CapacityIs
  <2>2. DOMAIN chart = 1 .. Len(chart)
    BY <1>3 DEF RingInv, IsRing
  <2> QED BY <1>3, <2>1, <2>2, Zenon DEF TypeOK, ServerInv, RingInv, IsWindow, IsHistory
<1> QED BY <1>1, <1>2, <1>3, PTL DEF Spec

-----------------------------------------------------------------------------
(* What a scrape reads of the histogram.                                   *)

IsOther(line) == line.form = "sample" => line.name[1] # HistogramBase
NoHistograms(lines) == \A i \in DOMAIN lines : lines[i].form # "type" \/ lines[i].kind # "histogram"

\* A text with a histogram: its parts follow the TYPE line, at t, and one of
\* them may be damaged.
IsPlaced(lines, how, t) ==
  LET n == Len(layout) IN
  /\ IsList(lines) /\ {t, n} \subseteq Nat \ {0} /\ t + n + 2 <= Len(lines)
  /\ \A i \in 1 .. n :
       \/ lines[t + i] = BucketLine(i)
       \/ i = 1 /\ lines[t + i] = Damaged(BucketLine(i))
  /\ lines[t + n + 1] \in {SumLine, Damaged(SumLine)}
  /\ lines[t + n + 2] = IF how = "_count" THEN Damaged(CountLine) ELSE CountLine
  /\ \A i \in DOMAIN lines : i \notin t + 1 .. t + n + 2 => IsOther(lines[i])

LEMMA BucketSays ==
  ASSUME NEW i
  PROVE  Says(BucketLine(i), HistogramBase, "_bucket", Put(KeyLabels(Busy), "le", layout[i]), UpTo(layout[i]))
BY SampleSays, Zenon DEF BucketLine

LEMMA SumSays ==
  Says(SumLine, HistogramBase, "_sum", KeyLabels(Busy), Sum([v \in Latencies |-> v * seen[v]]))
BY SampleSays, Zenon DEF SumLine

LEMMA CountSays ==
  Says(CountLine, HistogramBase, "_count", KeyLabels(Busy), Sum(seen))
BY SampleSays, Zenon DEF CountLine

LEMMA PartsSay ==
  /\ \A i : IsPart(BucketLine(i), "_bucket") /\ BucketLine(i).name[2] = "_bucket"
  /\ SumLine.name[2] = "_sum" /\ CountLine.name[2] = "_count"
  /\ IsPart(CountLine, "_count")
BY BucketSays, SumSays, CountSays DEF Says, IsPart

LEMMA OtherLine ==
  ASSUME NEW l, IsGauge(l) \/ IsConfig(l) \/ IsForeign(l)
  PROVE  IsOther(l) /\ (l.form = "type" => l.kind # "histogram")
<1>1. CASE IsGauge(l)
  <2>1. CASE l = TypeLine(GaugeBase, "gauge")
    BY <2>1 DEF TypeLine, IsOther
  <2>2. ASSUME NEW k \in deployment.keys, l = SampleLine(GaugeBase, "", KeyLabels(k), 0)
        PROVE  IsSampleOf(l, GaugeBase)
    BY <2>2, LinesAre, Zenon
  <2>3. ASSUME IsSampleOf(l, GaugeBase) PROVE IsOther(l) /\ l.form = "sample"
    BY <2>3, SampleOfIs, BasesDiffer DEF IsOther
  <2> QED BY <1>1, <2>1, <2>2, <2>3 DEF IsGauge
<1>2. CASE IsConfig(l)
  <2>1. IsSampleOf(l, "vllm:cache_config_info")
    BY <1>2, LinesAre, Zenon DEF IsConfig
  <2>2. HistogramBase # "vllm:cache_config_info"
    BY DEF HistogramBase
  <2> QED BY <2>1, <2>2, SampleOfIs DEF IsOther
<1>3. CASE IsForeign(l)
  <2>1. CASE l = TypeLine("http_requests_total", "counter")
    BY <2>1 DEF TypeLine, IsOther
  <2>2. CASE l = [form |-> "other"]
    BY <2>2 DEF IsOther
  <2>3. CASE \E class \in {"2xx", "5xx"} : l = SampleLine("http_requests_total", "", [status |-> class], 1)
    <3>1. IsSampleOf(l, "http_requests_total")
      BY <2>3, LinesAre, Zenon
    <3> QED BY <3>1, SampleOfIs, BasesDiffer DEF IsOther
  <2>4. CASE l = SampleLine("process_start_time_seconds", "", Nothing, 1)
    <3>1. IsSampleOf(l, "process_start_time_seconds")
      BY <2>4, LinesAre, Zenon
    <3>2. HistogramBase # "process_start_time_seconds"
      BY DEF HistogramBase
    <3> QED BY <3>1, <3>2, SampleOfIs DEF IsOther
  <2> QED BY <1>3, <2>1, <2>2, <2>3, <2>4, Zenon DEF IsForeign
<1> QED BY <1>1, <1>2, <1>3

LEMMA TypeIsOther ==
  ASSUME NEW base, NEW kind
  PROVE  IsOther(TypeLine(base, kind))
BY TypeIsType DEF IsOther

LEMMA WrittenIsPlaced ==
  ASSUME NEW w, NEW t, IsWritten(w, t), NEW how, how # "_count"
  PROVE  IsPlaced(w, how, t)
<1> DEFINE n == Len(layout)
<1>1. /\ IsList(w) /\ {t, n} \subseteq Nat \ {0} /\ t + n + 2 <= Len(w)
      /\ w[t] = TypeLine(HistogramBase, "histogram")
      /\ \A i \in 1 .. n : w[t + i] = BucketLine(i)
      /\ w[t + n + 1] = SumLine /\ w[t + n + 2] = CountLine
      /\ \A i \in DOMAIN w : i < t => IsGauge(w[i])
      /\ \A i \in DOMAIN w : i > t + n + 2 => IsConfig(w[i]) \/ IsForeign(w[i])
  BY Zenon DEF IsWritten
<1> HIDE DEF n
<1>2. ASSUME NEW i \in DOMAIN w, i \notin t + 1 .. t + n + 2 PROVE IsOther(w[i])
  <2>1. i \in Nat /\ t \in Nat /\ n \in Nat
    BY <1>1 DEF IsList
  <2>2. i < t \/ i = t \/ i > t + n + 2
    BY <1>2, <2>1
  <2> QED BY <1>1, <2>2, OtherLine, TypeIsOther
<1> QED BY <1>1, <1>2, Zenon DEF IsPlaced, n

LEMMA GaugeOrConfigPart ==
  ASSUME NEW l, IsGauge(l), l.form = "sample"
  PROVE  l.name[2] = ""
<1>1. l # TypeLine(GaugeBase, "gauge")
  BY TypeIsType
<1>2. PICK k \in deployment.keys : l = SampleLine(GaugeBase, "", KeyLabels(k), 0)
  BY <1>1 DEF IsGauge
<1>3. Says(l, GaugeBase, "", KeyLabels(k), 0)
  BY <1>2, SampleSays
<1> QED BY <1>3 DEF Says

LEMMA PartIs ==
  ASSUME NEW l, NEW how, IsPart(l, how)
  PROVE  l.form = "sample" /\ l.name[2] = how
BY DEF IsPart

LEMMA HowIsPart ==
  ASSUME NEW w, NEW t, IsWritten(w, t), NEW how, NEW m \in DOMAIN w, IsPart(w[m], how)
  PROVE  /\ m \in t + 1 .. t + Len(layout) => how = "_bucket"
         /\ m = t + Len(layout) + 1 => how = "_sum"
         /\ m = t + Len(layout) + 2 => how = "_count"
         /\ m # t
         /\ m < t => how = ""
<1> DEFINE n == Len(layout)
<1>1. /\ IsList(w) /\ {t, n} \subseteq Nat \ {0} /\ t + n + 2 <= Len(w)
      /\ w[t] = TypeLine(HistogramBase, "histogram")
      /\ \A i \in 1 .. n : w[t + i] = BucketLine(i)
      /\ w[t + n + 1] = SumLine /\ w[t + n + 2] = CountLine
      /\ \A i \in DOMAIN w : i < t => IsGauge(w[i])
  BY Zenon DEF IsWritten
<1> HIDE DEF n
<1>2. w[m].form = "sample" /\ w[m].name[2] = how
  BY PartIs
<1>3. ASSUME m \in t + 1 .. t + n PROVE how = "_bucket"
  <2>1. m - t \in 1 .. n /\ t + (m - t) = m
    <3>1. t \in Nat /\ n \in Nat
      BY <1>1
    <3> QED BY <3>1, <1>3
  <2>2. w[m] = BucketLine(m - t)
    BY <1>1, <2>1
  <2> QED BY <1>2, <2>2, PartsSay
<1>4. m # t
  BY <1>1, <1>2, TypeIsType
<1>5. m < t => how = ""
  BY <1>1, <1>2, GaugeOrConfigPart
<1> QED BY <1>1, <1>2, <1>3, <1>4, <1>5, PartsSay DEF n

LEMMA OneIsDamaged ==
  ASSUME IsServer, NEW w, NEW t, IsWritten(w, t), NEW how,
         NEW m \in DOMAIN w, IsPart(w[m], how), \A i \in DOMAIN w : IsPart(w[i], how) => m <= i,
         NEW d, IsList(d), DOMAIN d = DOMAIN w, d[m] = Damaged(w[m]),
         \A i \in DOMAIN w : i # m => d[i] = w[i]
  PROVE  IsPlaced(d, how, t)
<1> DEFINE n == Len(layout)
<1>1. /\ IsList(w) /\ {t, n} \subseteq Nat \ {0} /\ t + n + 2 <= Len(w)
      /\ w[t] = TypeLine(HistogramBase, "histogram")
      /\ \A i \in 1 .. n : w[t + i] = BucketLine(i)
      /\ w[t + n + 1] = SumLine /\ w[t + n + 2] = CountLine
      /\ \A i \in DOMAIN w : i < t => IsGauge(w[i])
      /\ \A i \in DOMAIN w : i > t + n + 2 => IsConfig(w[i]) \/ IsForeign(w[i])
  BY Zenon DEF IsWritten
<1>2. /\ m \in t + 1 .. t + n => how = "_bucket"
      /\ m = t + n + 1 => how = "_sum"
      /\ m = t + n + 2 => how = "_count"
      /\ m # t
      /\ m < t => how = ""
  BY HowIsPart
<1> HIDE DEF n
<1>3. /\ t \in Nat \ {0} /\ n \in Nat \ {0} /\ m \in Nat /\ t + n + 2 <= Len(w) /\ DOMAIN w = 1 .. Len(w)
      /\ Len(w) \in Nat
  BY <1>1 DEF IsList
<1>4. Len(d) = Len(w)
  <2>1. Len(d) \in Nat /\ DOMAIN d = 1 .. Len(d)
    BY Zenon DEF IsList
  <2>2. Len(w) \in DOMAIN d /\ (Len(d) # 0 => Len(d) \in DOMAIN w)
    BY <1>3, <2>1
  <2> QED BY <1>3, <2>1, <2>2
<1>5. ASSUME NEW i \in 1 .. n
      PROVE  d[t + i] = BucketLine(i) \/ (i = 1 /\ d[t + i] = Damaged(BucketLine(i)))
  <2>1. t + i \in DOMAIN w /\ w[t + i] = BucketLine(i)
    BY <1>1, <1>3
  <2>2. CASE m # t + i
    <3>1. d[t + i] = w[t + i]
      BY <2>1, <2>2
    <3> QED BY <2>1, <3>1
  <2>3. CASE m = t + i
    <3>1. how = "_bucket"
      BY <1>2, <1>3, <2>3
    <3>2. t + 1 \in DOMAIN w /\ w[t + 1] = BucketLine(1)
      BY <1>1, <1>3
    <3>3. m <= t + 1
      BY <3>1, <3>2, PartsSay
    <3>4. i = 1
      BY <1>3, <2>3, <3>3
    <3> QED BY <2>1, <2>3, <3>4
  <2> QED BY <2>2, <2>3
<1>6. d[t + n + 1] \in {SumLine, Damaged(SumLine)}
  <2>1. t + n + 1 \in DOMAIN w
    BY <1>3
  <2> QED BY <1>1, <2>1
<1>7. d[t + n + 2] = IF how = "_count" THEN Damaged(CountLine) ELSE CountLine
  <2>1. t + n + 2 \in DOMAIN w
    BY <1>3
  <2>2. CASE how = "_count"
    <3>1. m <= t + n + 2
      BY <1>1, <2>1, <2>2, PartsSay
    <3>2. ~ (m < t) /\ m # t /\ m \notin t + 1 .. t + n /\ m # t + n + 1
      BY <1>2, <2>2
    <3>3. m = t + n + 2
      BY <1>3, <3>1, <3>2
    <3> QED BY <1>1, <2>2, <3>3
  <2>3. CASE how # "_count"
    <3>1. m # t + n + 2
      BY <1>2, <2>3
    <3> QED BY <1>1, <2>1, <2>3, <3>1
  <2> QED BY <2>2, <2>3
<1>8. ASSUME NEW i \in DOMAIN d, i \notin t + 1 .. t + n + 2 PROVE IsOther(d[i])
  <2>1. i \in Nat /\ i \in DOMAIN w
    BY <1>3
  <2>2. i < t \/ i = t \/ i > t + n + 2
    BY <1>3, <1>8, <2>1
  <2>3. IsOther(w[i])
    BY <1>1, <2>1, <2>2, OtherLine, TypeIsOther
  <2>4. CASE i # m
    <3>1. d[i] = w[i]
      BY <2>1, <2>4
    <3> QED BY <2>3, <3>1
  <2>5. CASE i = m
    <3>1. w[i].form = "sample"
      BY <2>5, PartIs
    <3>2. IsGauge(w[i]) \/ IsRest(w[i])
      BY <1>1, <1>2, <2>1, <2>2, <2>5 DEF IsRest
    <3>3. DOMAIN w[i] = LineFields
      BY <3>1, <3>2, LabelledLine DEF IsLabelled
    <3>4. d[i].form = w[i].form /\ d[i].name = w[i].name
      BY <2>5, <3>3, DamagedForm
    <3> QED BY <2>3, <3>4, Zenon DEF IsOther
  <2> QED BY <2>4, <2>5
<1>9. {t, n} \subseteq Nat \ {0} /\ t + n + 2 <= Len(d)
  BY <1>3, <1>4
<1> QED BY <1>5, <1>6, <1>7, <1>8, <1>9, Zenon DEF IsPlaced, n

LEMMA DamagedIsPlaced ==
  ASSUME IsServer, NEW how
  PROVE  LET d == Damage(Written, how) IN NoHistograms(d) \/ \E t : IsPlaced(d, how, t)
<1> DEFINE w == Written
           t == Len(GaugeLines) + 1
           parts == {i \in DOMAIN w : IsPart(w[i], how)}
           m == Min(parts)
           d == Damage(Written, how)
<1>1. IsWritten(w, t)
  BY WrittenIs
<1>2. IsList(w) /\ t \in Nat /\ t # 0
  BY <1>1 DEF IsWritten
<1>3. CASE how = "comments"
  <2>1. d = [i \in DOMAIN w |-> IF w[i].form = "sample" THEN w[i] ELSE [form |-> "other"]]
    BY <1>3 DEF Damage
  <2> HIDE DEF d, w
  <2>2. NoHistograms(d)
    BY <2>1 DEF NoHistograms
  <2> QED BY <2>2 DEF d
<1>4. CASE how = "bare"
  <2>1. d = OtherLines
    BY <1>4 DEF Damage
  <2>2. \A i \in DOMAIN OtherLines : IsConfig(OtherLines[i]) \/ IsForeign(OtherLines[i])
    BY OthersAre
  <2> HIDE DEF d
  <2>3. NoHistograms(d)
    BY <2>1, <2>2, OtherLine DEF NoHistograms
  <2> QED BY <2>3 DEF d
<1>5. CASE how \notin {"none", "comments", "bare"} /\ parts # {}
  <2>1. d = [w EXCEPT ![m] = Damaged(@)]
    BY <1>5, Zenon DEF Damage
  <2> HIDE DEF d, w, t
  <2>2. parts \in SUBSET Nat
    BY <1>2 DEF IsList
  <2>3. m \in parts /\ \A i \in parts : m <= i
    BY <1>5, <2>2, MinIn
  <2>4. m \in DOMAIN w /\ IsPart(w[m], how) /\ \A i \in DOMAIN w : IsPart(w[i], how) => m <= i
    BY <2>3
  <2> HIDE DEF parts, m
  <2>5. /\ IsList(d) /\ DOMAIN d = DOMAIN w /\ d[m] = Damaged(w[m])
        /\ \A i \in DOMAIN w : i # m => d[i] = w[i]
    BY <1>2, <2>1, <2>4 DEF IsList
  <2>6. IsPlaced(d, how, t)
    BY <1>1, <2>4, <2>5, OneIsDamaged
  <2> QED BY <2>6 DEF d
<1>6. CASE d = w /\ (how = "none" \/ parts = {})
  <2>1. ASSUME how = "_count" PROVE parts # {}
    <3>1. t + Len(layout) + 2 \in DOMAIN w /\ w[t + Len(layout) + 2] = CountLine
      BY <1>1 DEF IsWritten, IsList
    <3> QED BY <2>1, <3>1, PartsSay
  <2>2. how # "_count"
    BY <1>6, <2>1
  <2>3. IsPlaced(w, how, t)
    BY <1>1, <2>2, WrittenIsPlaced
  <2> QED BY <1>6, <2>3
<1>7. \/ how \in {"comments", "bare"} \/ (how \notin {"none", "comments", "bare"} /\ parts # {})
      \/ (d = w /\ (how = "none" \/ parts = {}))
  BY Zenon DEF Damage
<1> QED BY <1>3, <1>4, <1>5, <1>6, <1>7

\* A line that says something is read; damaged it is not.
IsNamed(base) == base # ""

LEMMA SaidIsRead ==
  ASSUME NEW l, NEW base, NEW part, NEW labels, NEW v, Says(l, base, part, labels, v), IsNamed(base)
  PROVE  parse_sample_line(l) /\ ~ parse_sample_line(Damaged(l))
<1> DEFINE d == Damaged(l)
           good == <<[is |-> "number", v |-> v]>>
           bad == <<[is |-> "word", v |-> 0]>>
<1>1. /\ DOMAIN l = LineFields /\ l.name[1] = base /\ l.closed /\ l.tokens = good
  BY Zenon DEF Says
<1>2. Len(good) = 1 /\ good[1].is = "number" /\ Len(bad) = 1 /\ bad[1].is = "word"
  OBVIOUS
<1>3. d.tokens = bad
  BY <1>1 DEF Damaged, LineFields
<1> HIDE DEF d, good, bad
<1>4. parse_sample_line(l)
  <2>1. Len(l.tokens) = 1 /\ l.tokens[1].is = "number"
    BY <1>1, <1>2
  <2>2. Numeric(l.tokens[1])
    BY <2>1, Zenon DEF Numeric
  <2>3. Len(l.tokens) \in {1, 2} /\ Len(l.tokens) # 2
    BY <2>1
  <2> QED BY <1>1, <2>2, <2>3, Zenon DEF parse_sample_line, IsNamed
<1>5. ~ parse_sample_line(d)
  <2>1. ~ Numeric(d.tokens[1])
    BY <1>2, <1>3 DEF Numeric
  <2> QED BY <2>1, Zenon DEF parse_sample_line
<1> QED BY <1>4, <1>5 DEF d

\* A sample of the server's histogram.
IsOfHistogram(s, how) ==
  \/ \E i \in 1 .. Len(layout) : s = TheSample(BucketLine(i))
  \/ s = TheSample(SumLine)
  \/ how # "_count" /\ s = TheSample(CountLine)

\* All of a family are, of its buckets only the first may be missing, and its
\* count if that was the line damaged.
IsHistogram(f, how) ==
  /\ Len(f.samples) \in Nat /\ DOMAIN f.samples = 1 .. Len(f.samples)
  /\ \A s \in ToSet(f.samples) : IsOfHistogram(s, how)
  /\ Len(layout) > 1 => TheSample(BucketLine(Len(layout))) \in ToSet(f.samples)
  /\ how # "_count" => TheSample(CountLine) \in ToSet(f.samples)

LEMMA PartsAreRead ==
  /\ \A i : parse_sample_line(BucketLine(i)) /\ ~ parse_sample_line(Damaged(BucketLine(i)))
  /\ parse_sample_line(SumLine) /\ ~ parse_sample_line(Damaged(SumLine))
  /\ parse_sample_line(CountLine) /\ ~ parse_sample_line(Damaged(CountLine))
<1>1. IsNamed(HistogramBase)
  BY Zenon DEF HistogramBase, IsNamed
<1> QED BY <1>1, BucketSays, SumSays, CountSays, SaidIsRead

LEMMA ReadIsOfHistogram ==
  ASSUME NEW lines, NEW how, NEW t, IsPlaced(lines, how, t), NEW i \in DOMAIN lines,
         lines[i].form = "sample", parse_sample_line(lines[i]), lines[i].name[1] = HistogramBase
  PROVE  IsOfHistogram(TheSample(lines[i]), how)
<1> DEFINE n == Len(layout)
           l == lines[i]
<1>1. /\ {t, n} \subseteq Nat \ {0} /\ i \in t + 1 .. t + n + 2
      /\ \A x \in 1 .. n : lines[t + x] = BucketLine(x) \/ (x = 1 /\ lines[t + x] = Damaged(BucketLine(x)))
      /\ lines[t + n + 1] \in {SumLine, Damaged(SumLine)}
      /\ lines[t + n + 2] = IF how = "_count" THEN Damaged(CountLine) ELSE CountLine
  BY Zenon DEF IsPlaced, IsOther
<1>2. parse_sample_line(l)
  OBVIOUS
<1> HIDE DEF n
<1>3. CASE i \in t + 1 .. t + n
  <2>1. i - t \in 1 .. n /\ t + (i - t) = i
    <3>1. t \in Nat /\ n \in Nat
      BY <1>1
    <3> QED BY <1>3, <3>1
  <2>2. l = BucketLine(i - t) \/ l = Damaged(BucketLine(i - t))
    BY <1>1, <2>1
  <2> HIDE DEF l
  <2>3. l = BucketLine(i - t)
    BY <1>2, <2>2, PartsAreRead
  <2> QED BY <2>1, <2>3, Zenon DEF IsOfHistogram, l, n
<1>4. CASE i = t + n + 1
  <2>1. l \in {SumLine, Damaged(SumLine)}
    BY <1>1, <1>4
  <2> HIDE DEF l
  <2>2. l = SumLine
    BY <1>2, <2>1, PartsAreRead
  <2> QED BY <2>2, Zenon DEF IsOfHistogram, l
<1>5. CASE i = t + n + 2
  <2>1. l = IF how = "_count" THEN Damaged(CountLine) ELSE CountLine
    BY <1>1, <1>5
  <2> HIDE DEF l
  <2>2. l = CountLine /\ how # "_count"
    BY <1>2, <2>1, PartsAreRead
  <2> QED BY <2>2, Zenon DEF IsOfHistogram, l
<1>6. i \in t + 1 .. t + n \/ i = t + n + 1 \/ i = t + n + 2
  <2>1. t \in Nat /\ n \in Nat
    BY <1>1
  <2> QED BY <1>1, <2>1
<1> QED BY <1>3, <1>4, <1>5, <1>6

LEMMA HistogramIs ==
  ASSUME IsServer, NEW how, NEW lines, lines = Damage(Written, how),
         NEW parsed, parsed = parse_text(lines), NEW f \in HistogramsIn(parsed)
  PROVE  IsHistogram(f, how)
<1> DEFINE n == Len(layout)
<1>1. PICK u : IsScraped(lines, how, u)
  BY DamagedIsScraped
<1>2. IsText(lines) /\ IsOrderly(lines)
  BY <1>1, ScrapedIsText
<1>3. AllFrom(lines, parsed) /\ parsed \in OutType(lines)
  BY <1>2, ParsedFrom
<1>4. PICK x \in DOMAIN parsed.families : f = parsed.families[x] /\ f.kind = "histogram"
  BY Zenon DEF HistogramsIn
<1>5. IsFrom(lines, f)
  BY <1>3, <1>4 DEF AllFrom
<1>6. PICK j \in Histograms(lines) : lines[j].name = f.name
  BY <1>4, <1>5 DEF IsFrom
<1>7. j \in DOMAIN lines /\ lines[j].form = "type" /\ lines[j].kind = "histogram"
  BY <1>6 DEF Histograms
<1>8. \A i \in DOMAIN lines : IsInOrder(lines[i], i, u)
  BY <1>1, ScrapedLine, LinesAreInOrder
<1>9. j = u /\ f.name = <<HistogramBase, "">>
  BY <1>6, <1>7, <1>8 DEF IsInOrder
<1>10. f.name[1] = HistogramBase
  BY <1>9, PairIs, Zenon
<1>11. PICK t : IsPlaced(lines, how, t)
  <2>1. ~ NoHistograms(lines)
    BY <1>7 DEF NoHistograms
  <2> QED BY <2>1, DamagedIsPlaced
<1>12. f \in FamilyType(lines)
  BY <1>3, <1>4 DEF OutType
<1>13. Len(f.samples) \in Nat /\ DOMAIN f.samples = 1 .. Len(f.samples)
  BY <1>12 DEF FamilyType
<1>14. ASSUME NEW s \in ToSet(f.samples) PROVE IsOfHistogram(s, how)
  <2>1. PICK i \in DOMAIN lines :
          /\ lines[i].form = "sample" /\ parse_sample_line(lines[i])
          /\ lines[i].name[1] = f.name[1] /\ s = TheSample(lines[i])
    BY <1>5, Zenon DEF IsFrom
  <2> QED BY <1>10, <1>11, <2>1, ReadIsOfHistogram
<1>15. Fits(lines, Len(lines), parsed)
  BY <1>2, ParsedFits
<1>16. ASSUME NEW i \in DOMAIN lines, lines[i].form = "sample", parse_sample_line(lines[i]),
              lines[i].name[1] = HistogramBase
       PROVE  TheSample(lines[i]) \in ToSet(f.samples)
  <2>1. i > u
    BY <1>8, <1>16 DEF IsInOrder
  <2>2. i \in 1 .. Len(lines) /\ i \in Nat /\ u \in Nat
    BY <1>1 DEF IsScraped, IsList
  <2>3. j < i
    BY <1>9, <2>1, <2>2
  <2>4. lines[j].name[1] = HistogramBase
    BY <1>6, <1>10
  <2> QED BY <1>4, <1>6, <1>15, <1>16, <2>2, <2>3, <2>4 DEF Fits, HistogramsGather
<1>17. /\ {t, n} \subseteq Nat \ {0} /\ t + n + 2 <= Len(lines) /\ DOMAIN lines = 1 .. Len(lines)
       /\ \A i \in 1 .. n : lines[t + i] = BucketLine(i) \/ (i = 1 /\ lines[t + i] = Damaged(BucketLine(i)))
       /\ lines[t + n + 2] = IF how = "_count" THEN Damaged(CountLine) ELSE CountLine
       /\ Len(lines) \in Nat
  BY <1>11, Zenon DEF IsPlaced, IsList
<1> HIDE DEF n
<1>18. n \in Nat /\ t \in Nat /\ n # 0 /\ t # 0
  BY <1>17
<1>19. ASSUME n > 1 PROVE TheSample(BucketLine(n)) \in ToSet(f.samples)
  <2>1. t + n \in DOMAIN lines /\ n \in 1 .. n /\ n # 1
    BY <1>17, <1>18, <1>19
  <2>2. lines[t + n] = BucketLine(n)
    BY <1>17, <2>1
  <2>3. BucketLine(n).form = "sample" /\ BucketLine(n).name[1] = HistogramBase
    BY BucketSays DEF Says
  <2> QED BY <1>16, <2>1, <2>2, <2>3, PartsAreRead
<1>20. ASSUME how # "_count" PROVE TheSample(CountLine) \in ToSet(f.samples)
  <2>1. t + n + 2 \in DOMAIN lines /\ lines[t + n + 2] = CountLine
    BY <1>17, <1>18, <1>20
  <2>2. CountLine.form = "sample" /\ CountLine.name[1] = HistogramBase
    BY CountSays DEF Says
  <2> QED BY <1>16, <2>1, <2>2, PartsAreRead
<1> QED BY <1>13, <1>14, <1>19, <1>20, Zenon DEF IsHistogram, n

\* What a sample of the histogram says.
SaysSample(s, part, labels, v) ==
  s.name[2] = part /\ s.labels = labels /\ s.value = v

LEMMA SaidSample ==
  ASSUME NEW l, NEW base, NEW part, NEW labels, NEW v, Says(l, base, part, labels, v)
  PROVE  SaysSample(TheSample(l), part, labels, v)
<1> DEFINE good == <<[is |-> "number", v |-> v]>>
<1>1. l.name[2] = part /\ l.labels = labels /\ l.tokens = good
  BY Zenon DEF Says
<1>2. good[1].v = v
  OBVIOUS
<1> HIDE DEF good
<1> QED BY <1>1, <1>2 DEF TheSample, SaysSample

LEMMA BucketSample ==
  ASSUME NEW i
  PROVE  SaysSample(TheSample(BucketLine(i)), "_bucket", Put(KeyLabels(Busy), "le", layout[i]), UpTo(layout[i]))
BY BucketSays, SaidSample

LEMMA SumSample ==
  SaysSample(TheSample(SumLine), "_sum", KeyLabels(Busy), Sum([v \in Latencies |-> v * seen[v]]))
BY SumSays, SaidSample

LEMMA CountSample ==
  SaysSample(TheSample(CountLine), "_count", KeyLabels(Busy), Sum(seen))
BY CountSays, SaidSample

LEMMA SamplesDiffer ==
  /\ \A i : TheSample(BucketLine(i)) \notin {TheSample(SumLine), TheSample(CountLine)}
  /\ TheSample(SumLine) # TheSample(CountLine)
BY BucketSample, SumSample, CountSample DEF SaysSample

BusyLabels(labels) == "model_name" \in DOMAIN labels /\ series_key(labels) = Busy

LEMMA LabelsAreBusy ==
  ASSUME IsServer
  PROVE  /\ BusyLabels(KeyLabels(Busy))
         /\ \A le : LET labels == Put(KeyLabels(Busy), "le", le) IN
              BusyLabels(labels) /\ Has(labels, "le") /\ labels["le"] = le
<1>1. Busy = [model |-> Busy.model, engine |-> Busy.engine]
  BY BusyIs DEF IsServer, IsDeployment
<1>2. "model_name" \in DOMAIN KeyLabels(Busy)
  BY DEF KeyLabels
<1>3. BusyLabels(KeyLabels(Busy))
  BY <1>1, <1>2, KeyOfLabels DEF BusyLabels
<1>4. ASSUME NEW le
      PROVE  LET labels == Put(KeyLabels(Busy), "le", le) IN
             BusyLabels(labels) /\ Has(labels, "le") /\ labels["le"] = le
  <2> DEFINE labels == Put(KeyLabels(Busy), "le", le)
  <2>1. series_key(labels) = Busy
    BY <1>1, KeyOfLabels
  <2>2. IsPut(labels, KeyLabels(Busy), "le", le)
    BY PutIs
  <2> HIDE DEF labels
  <2>3. BusyLabels(labels) /\ Has(labels, "le") /\ labels["le"] = le
    BY <1>2, <2>1, <2>2 DEF IsPut, BusyLabels, Has
  <2> QED BY <2>3 DEF labels
<1> QED BY <1>3, <1>4

LEMMA HistogramKeyed ==
  ASSUME IsServer, NEW how, NEW s, IsOfHistogram(s, how)
  PROVE  Keyed(s) /\ series_key(s.labels) = Busy
<1>1. s.labels = KeyLabels(Busy) \/ \E i : s.labels = Put(KeyLabels(Busy), "le", layout[i])
  BY BucketSample, SumSample, CountSample, Zenon DEF IsOfHistogram, SaysSample
<1>2. BusyLabels(s.labels)
  BY <1>1, LabelsAreBusy, Zenon
<1> QED BY <1>2, Zenon DEF BusyLabels, Keyed, Has

\* The pair a bucket's line is read as.
BucketPair(i) == <<layout[i], UpTo(layout[i])>>

PartFields == {"buckets", "sum", "count"}

\* What a sample does to what was collected before it.
IsGathered(new, h, s, how) ==
  /\ DOMAIN new = PartFields
  /\ \/ /\ \E i \in 1 .. Len(layout) : s = TheSample(BucketLine(i)) /\ new.buckets = Append(h.buckets, BucketPair(i))
        /\ new.count = h.count
     \/ s = TheSample(SumLine) /\ new.buckets = h.buckets /\ new.count = h.count
     \/ how # "_count" /\ s = TheSample(CountLine) /\ new.buckets = h.buckets /\ new.count = Sum(seen)

LEMMA ComponentIs ==
  ASSUME IsServer, NEW how, NEW s, IsOfHistogram(s, how), NEW h, DOMAIN h = PartFields
  PROVE  IsGathered(Component(h, s), h, s, how)
<1> DEFINE new == Component(h, s)
<1>1. ASSUME NEW i \in 1 .. Len(layout), s = TheSample(BucketLine(i)) PROVE IsGathered(new, h, s, how)
  <2> DEFINE labels == Put(KeyLabels(Busy), "le", layout[i])
  <2>1. SaysSample(s, "_bucket", labels, UpTo(layout[i]))
    BY <1>1, BucketSample
  <2>2. Has(labels, "le") /\ labels["le"] = layout[i]
    BY LabelsAreBusy
  <2> HIDE DEF labels
  <2>3. s.name[2] = "_bucket" /\ Has(s.labels, "le") /\ <<s.labels["le"], s.value>> = BucketPair(i)
    BY <2>1, <2>2, Zenon DEF SaysSample, BucketPair
  <2>4. new = [h EXCEPT !.buckets = Append(h.buckets, BucketPair(i))]
    BY <2>3, Zenon DEF Component
  <2> HIDE DEF new
  <2> DEFINE longer == Append(h.buckets, BucketPair(i))
  <2>5. new = [h EXCEPT !.buckets = longer]
    BY <2>4
  <2> HIDE DEF longer
  <2>6. DOMAIN new = PartFields /\ new.buckets = longer /\ new.count = h.count
    BY <2>5 DEF PartFields
  <2> QED BY <1>1, <2>6, Zenon DEF IsGathered, longer
<1>2. CASE s = TheSample(SumLine)
  <2>1. s.name[2] = "_sum"
    BY <1>2, SumSample, Zenon DEF SaysSample
  <2>2. new = [h EXCEPT !.sum = s.value]
    BY <2>1, "_sum" # "_bucket", Zenon DEF Component
  <2> HIDE DEF new
  <2>3. DOMAIN new = PartFields /\ new.buckets = h.buckets /\ new.count = h.count
    BY <2>2 DEF PartFields
  <2>4. IsGathered(new, h, s, how)
    BY <1>2, <2>3, Zenon DEF IsGathered
  <2> QED BY <2>4 DEF new
<1>3. CASE how # "_count" /\ s = TheSample(CountLine)
  <2>1. s.name[2] = "_count" /\ s.value = Sum(seen)
    BY <1>3, CountSample, Zenon DEF SaysSample
  <2>2. new = [h EXCEPT !.count = s.value]
    BY <2>1, "_count" # "_bucket", "_count" # "_sum", Zenon DEF Component
  <2> HIDE DEF new
  <2>3. DOMAIN new = PartFields /\ new.buckets = h.buckets /\ new.count = s.value
    BY <2>2 DEF PartFields
  <2>4. new.count = Sum(seen)
    BY <2>1, <2>3
  <2>5. IsGathered(new, h, s, how)
    BY <1>3, <2>3, <2>4, Zenon DEF IsGathered
  <2> QED BY <2>5 DEF new
<1> QED BY <1>1, <1>2, <1>3, Zenon DEF IsOfHistogram

Pairs == {BucketPair(i) : i \in 1 .. Len(layout)}

\* After the first k samples.
HasInf(buckets) == \E x \in DOMAIN buckets : buckets[x][1] = layout[Len(layout)]

IsCollected(h, samples, k, how) ==
  /\ DOMAIN h = PartFields
  /\ h.buckets \in Seq(Pairs)
  /\ h.count \in {0, Sum(seen)} /\ (how = "_count" => h.count = 0)
  /\ \A x \in 1 .. k :
       /\ samples[x] = TheSample(CountLine) => h.count = Sum(seen)
       /\ samples[x] = TheSample(BucketLine(Len(layout))) => HasInf(h.buckets)

LEMMA AppendPair ==
  ASSUME NEW S, NEW s \in Seq(S), NEW p \in S
  PROVE  LET new == Append(s, p) IN
         /\ new \in Seq(S) /\ Len(new) = Len(s) + 1 /\ new[Len(s) + 1] = p
         /\ \A x \in DOMAIN s : new[x] = s[x]
OBVIOUS

LEMMA NextCollected ==
  ASSUME NEW how, NEW samples, NEW k \in Nat \ {0}, NEW h, IsCollected(h, samples, k - 1, how),
         NEW new, IsGathered(new, h, samples[k], how), IsServer
  PROVE  IsCollected(new, samples, k, how)
<1> DEFINE s == samples[k]
           n == Len(layout)
           last == TheSample(BucketLine(n))
           count == TheSample(CountLine)
<1>1. /\ DOMAIN h = PartFields
      /\ h.buckets \in Seq(Pairs)
      /\ h.count \in {0, Sum(seen)} /\ (how = "_count" => h.count = 0)
  BY DEF IsCollected
<1>2. ASSUME NEW x \in 1 .. k - 1
      PROVE  /\ samples[x] = count => h.count = Sum(seen)
             /\ samples[x] = last => HasInf(h.buckets)
  BY Zenon DEF IsCollected
<1>3. SUFFICES
        /\ new.buckets \in Seq(Pairs)
        /\ new.count \in {0, Sum(seen)} /\ (how = "_count" => new.count = 0)
        /\ h.count = Sum(seen) \/ s = count => new.count = Sum(seen)
        /\ HasInf(h.buckets) \/ s = last => HasInf(new.buckets)
  <2>1. DOMAIN new = PartFields
    BY DEF IsGathered
  <2>2. \A x \in 1 .. k : x \in 1 .. k - 1 \/ x = k
    OBVIOUS
  <2> QED BY <1>2, <1>3, <2>1, <2>2 DEF IsCollected
<1>4. CASE new.buckets = h.buckets /\ new.count = h.count /\ s = TheSample(SumLine)
  <2>1. s # last /\ s # count
    BY <1>4, SamplesDiffer
  <2> QED BY <1>1, <1>4, <2>1
<1>5. CASE how # "_count" /\ s = count /\ new.buckets = h.buckets /\ new.count = Sum(seen)
  <2>1. s # last
    BY <1>5, SamplesDiffer
  <2> QED BY <1>1, <1>5, <2>1
<1>6. ASSUME NEW i \in 1 .. n, s = TheSample(BucketLine(i)), new.buckets = Append(h.buckets, BucketPair(i)),
             new.count = h.count
      PROVE  /\ new.buckets \in Seq(Pairs)
             /\ new.count \in {0, Sum(seen)} /\ (how = "_count" => new.count = 0)
             /\ h.count = Sum(seen) \/ s = count => new.count = Sum(seen)
             /\ HasInf(h.buckets) \/ s = last => HasInf(new.buckets)
  <2>1. s # count
    BY <1>6, SamplesDiffer
  <2>2. BucketPair(i) \in Pairs
    BY DEF Pairs
  <2> DEFINE was == h.buckets
             longer == new.buckets
  <2>3. /\ longer \in Seq(Pairs) /\ Len(longer) = Len(was) + 1 /\ longer[Len(was) + 1] = BucketPair(i)
        /\ \A x \in DOMAIN was : longer[x] = was[x]
    BY <1>1, <1>6, <2>2, AppendPair
  <2>4. was \in Seq(Pairs)
    BY <1>1
  <2> HIDE DEF was, longer, last
  <2>5. DOMAIN was \subseteq DOMAIN longer /\ Len(was) + 1 \in DOMAIN longer
    BY <2>3, <2>4
  <2>6. HasInf(was) => HasInf(longer)
    BY <2>3, <2>5 DEF HasInf
  <2>7. s = last => HasInf(longer)
    <3>1. ASSUME s = last PROVE BucketPair(i)[1] = layout[n]
      <4>1. SaysSample(s, "_bucket", Put(KeyLabels(Busy), "le", layout[i]), UpTo(layout[i]))
        BY <1>6, BucketSample
      <4>2. SaysSample(s, "_bucket", Put(KeyLabels(Busy), "le", layout[n]), UpTo(layout[n]))
        BY <3>1, BucketSample DEF last
      <4>3. Put(KeyLabels(Busy), "le", layout[i]) = Put(KeyLabels(Busy), "le", layout[n])
        BY <4>1, <4>2, Zenon DEF SaysSample
      <4>4. layout[i] = layout[n]
        BY <4>3, LabelsAreBusy, Zenon
      <4>5. BucketPair(i)[1] = layout[i]
        BY DEF BucketPair
      <4> QED BY <4>4, <4>5
    <3> QED BY <2>3, <2>5, <3>1 DEF HasInf, n
  <2> QED BY <1>1, <1>6, <2>1, <2>3, <2>6, <2>7 DEF was, longer
<1> QED BY <1>4, <1>5, <1>6 DEF IsGathered

\* What is collected of the histogram: pairs of its buckets, the last of them
\* if any, and its count, zero if the line did not come.
IsWhole(h, how) ==
  /\ h.buckets \in Seq(Pairs)
  /\ h.buckets # <<>> => HasInf(h.buckets)
  /\ h.count = IF how = "_count" THEN 0 ELSE Sum(seen)

LEMMA CollectedWhole ==
  ASSUME IsServer, NEW how, NEW f, IsHistogram(f, how)
  PROVE  IsWhole(Collect(f, Busy), how)
<1> DEFINE samples == f.samples
           m == Len(samples)
           n == Len(layout)
           h == Collect(f, Busy)
<1>1. m \in Nat /\ DOMAIN samples = 1 .. m
  BY DEF IsHistogram
<1>2. IsResult(h, "parts", NoHistogram, samples, Busy)
  BY <1>1, CollectedIs
<1>3. PICK c : IsClimb(c, "parts", NoHistogram, samples, Busy) /\ h = c[m]
  BY <1>1, <1>2, PassSteps
<1> HIDE DEF h, samples
<1> DEFINE T == {i \in 0 .. m : IsCollected(c[i], samples, i, how)}
<1>4. 0 \in T
  <2>1. c[0] = NoHistogram
    BY <1>3 DEF IsClimb
  <2>2. IsCollected(NoHistogram, samples, 0, how)
    BY DEF IsCollected, NoHistogram, PartFields
  <2> QED BY <1>1, <2>1, <2>2
<1>5. ASSUME NEW i \in 1 .. m, i - 1 \in T PROVE i \in T
  <2>1. IsCollected(c[i - 1], samples, i - 1, how)
    BY <1>5
  <2> HIDE DEF T
  <2>2. IsOfHistogram(samples[i], how)
    BY <1>1 DEF IsHistogram, ToSet, samples
  <2>3. Keyed(samples[i]) /\ series_key(samples[i].labels) = Busy
    BY <2>2, HistogramKeyed
  <2>4. c[i] = StepOf("parts", c[i - 1], samples[i], Busy)
    BY <1>3 DEF IsClimb, m
  <2>5. c[i] = Component(c[i - 1], samples[i])
    BY <2>3, <2>4 DEF StepOf
  <2>6. IsGathered(c[i], c[i - 1], samples[i], how)
    <3>1. DOMAIN c[i - 1] = PartFields
      BY <2>1 DEF IsCollected
    <3> QED BY <2>2, <2>5, <3>1, ComponentIs
  <2>7. i \in Nat \ {0} /\ i \in 0 .. m
    BY <1>1
  <2>8. IsCollected(c[i], samples, i, how)
    BY <2>1, <2>6, <2>7, NextCollected
  <2> QED BY <2>7, <2>8 DEF T
<1> HIDE DEF T, m
<1>6. m \in T
  BY <1>1, <1>4, <1>5, Climb
<1>7. IsCollected(h, samples, m, how)
  BY <1>3, <1>6 DEF T
<1>8. n > 1 => HasInf(h.buckets)
  <2>1. ASSUME n > 1 PROVE HasInf(h.buckets)
    <3>1. TheSample(BucketLine(n)) \in ToSet(samples)
      BY <2>1 DEF IsHistogram, samples
    <3>2. PICK x \in 1 .. m : samples[x] = TheSample(BucketLine(n))
      BY <1>1, <3>1 DEF ToSet
    <3> QED BY <1>7, <3>2 DEF IsCollected
  <2> QED BY <2>1
<1>9. h.count = IF how = "_count" THEN 0 ELSE Sum(seen)
  <2>1. CASE how = "_count"
    BY <1>7, <2>1 DEF IsCollected
  <2>2. CASE how # "_count"
    <3>1. TheSample(CountLine) \in ToSet(samples)
      BY <2>2 DEF IsHistogram, samples
    <3>2. PICK x \in 1 .. m : samples[x] = TheSample(CountLine)
      BY <1>1, <3>1 DEF ToSet
    <3> QED BY <1>7, <2>2, <3>2 DEF IsCollected
  <2> QED BY <2>1, <2>2
<1>10. h.buckets \in Seq(Pairs)
  BY <1>7 DEF IsCollected
<1>11. h.buckets # <<>> => HasInf(h.buckets)
  <2>1. ASSUME h.buckets # <<>>, ~ (n > 1) PROVE HasInf(h.buckets)
    <3>1. n \in Nat /\ n # 0
      BY DEF IsServer, IsLayout
    <3> HIDE DEF n
    <3>2. n = 1
      BY <2>1, <3>1
    <3>3. 1 \in DOMAIN h.buckets /\ h.buckets[1] \in Pairs
      BY <1>10, <2>1
    <3>4. h.buckets[1] = BucketPair(1)
      BY <3>2, <3>3 DEF Pairs, n
    <3>5. h.buckets[1][1] = layout[1]
      BY <3>4 DEF BucketPair
    <3> QED BY <3>2, <3>3, <3>5 DEF HasInf, n
  <2> QED BY <1>8, <2>1
<1> QED BY <1>9, <1>10, <1>11, Zenon DEF IsWhole, h

-----------------------------------------------------------------------------
(* A snapshot is of what the server saw.                                   *)

\* Of the observations s, those of no more than le.
Observed(s, le) == Sum([v \in {x \in Latencies : x <= le} |-> s[v]])

\* A point that tells s; its count is lost if the line was damaged.
IsPointOf(p, s, lost) ==
  /\ DOMAIN p.buckets \subseteq 0 .. Inf /\ Inf \in DOMAIN p.buckets
  /\ \A le \in DOMAIN p.buckets : p.buckets[le] = Observed(s, le)
  /\ p.count = IF lost THEN 0 ELSE Sum(s)

LEMMA BucketsAre ==
  ASSUME IsServer, NEW pairs \in Seq(Pairs), HasInf(pairs)
  PROVE  LET buckets == ToBuckets(pairs) IN
         /\ DOMAIN buckets \subseteq 0 .. Inf /\ Inf \in DOMAIN buckets
         /\ \A le \in DOMAIN buckets : buckets[le] = Observed(seen, le)
<1> DEFINE buckets == ToBuckets(pairs)
           D == {p[1] : p \in ToSet(pairs)}
           places(le) == {i \in DOMAIN pairs : pairs[i][1] = le}
<1>1. /\ DOMAIN buckets = D
      /\ \A le \in D : buckets[le] = pairs[Min(places(le))][2]
  BY DEF ToBuckets
<1> HIDE DEF buckets
<1>2. \A i \in DOMAIN pairs : \E x \in 1 .. Len(layout) : pairs[i][1] = layout[x] /\ pairs[i][2] = UpTo(layout[x])
  <2>1. ASSUME NEW i \in DOMAIN pairs
        PROVE  \E x \in 1 .. Len(layout) : pairs[i][1] = layout[x] /\ pairs[i][2] = UpTo(layout[x])
    <3>1. PICK x \in 1 .. Len(layout) : pairs[i] = BucketPair(x)
      BY DEF Pairs
    <3>2. BucketPair(x)[1] = layout[x] /\ BucketPair(x)[2] = UpTo(layout[x])
      BY DEF BucketPair
    <3> QED BY <3>1, <3>2
  <2> QED BY <2>1
<1>3. /\ \A x \in 1 .. Len(layout) : layout[x] \in 0 .. Inf
      /\ layout[Len(layout)] = Inf
  <2>1. layout \in Seq(0 .. Inf) /\ layout[Len(layout)] = Inf
    BY Zenon DEF IsServer, IsLayout
  <2> DEFINE bounds == 0 .. Inf
  <2> HIDE DEF bounds
  <2>2. layout \in Seq(bounds)
    BY <2>1 DEF bounds
  <2>3. \A x \in 1 .. Len(layout) : layout[x] \in bounds
    BY <2>2
  <2> QED BY <2>1, <2>3 DEF bounds
<1>4. \A i \in DOMAIN pairs : pairs[i][1] \in 0 .. Inf /\ pairs[i][2] = UpTo(pairs[i][1])
  BY <1>2, <1>3, Zenon
<1>5. \A le : le \in D <=> \E i \in DOMAIN pairs : pairs[i][1] = le
  BY DEF ToSet
<1> HIDE DEF D
<1>6. D \subseteq 0 .. Inf
  BY <1>4, <1>5
<1>7. Inf \in D
  BY <1>3, <1>5 DEF HasInf
<1>8. ASSUME NEW le \in D PROVE buckets[le] = Observed(seen, le)
  <2> DEFINE S == places(le)
  <2>1. S \in SUBSET Nat /\ S # {}
    BY <1>5
  <2>2. \A i \in S : i \in DOMAIN pairs /\ pairs[i][1] = le
    OBVIOUS
  <2> HIDE DEF S
  <2>3. Min(S) \in S
    BY <2>1, MinIn
  <2>4. pairs[Min(S)][2] = UpTo(le)
    BY <1>4, <2>2, <2>3
  <2>5. buckets[le] = UpTo(le)
    BY <1>1, <2>4 DEF S
  <2> QED BY <2>5, Zenon DEF UpTo, Observed
<1> QED BY <1>1, <1>6, <1>7, <1>8 DEF buckets

LEMMA SnapshotIs ==
  ASSUME IsServer, NEW how, NEW curated, curated = curate(parse_text(Damage(Written, how))),
         NEW p, p = Snapshot(curated, now), p # NoPoint
  PROVE  IsPointOf(p, seen, how = "_count")
<1> DEFINE lines == Damage(Written, how)
           parsed == parse_text(lines)
           raw == curated.series[Busy][<<"itl">>]
<1>1. IsOfText(curated, lines)
  BY ScrapeCurates
<1>2. IsSeries(curated, HistogramsIn(parsed))
  BY <1>1, Zenon DEF IsOfText
<1>3. Busy \in DOMAIN curated.series /\ <<"itl">> \in DOMAIN curated.series[Busy] /\ p = to_point(raw, now)
  BY Zenon DEF Snapshot
<1>4. PICK f \in HistogramsIn(parsed) : raw = Collect(f, Busy) /\ Collect(f, Busy).buckets # <<>>
  BY <1>2, <1>3, Zenon DEF IsSeries
<1>5. IsHistogram(f, how)
  BY HistogramIs
<1> HIDE DEF raw, parsed, lines
<1>6. IsWhole(raw, how) /\ raw.buckets # <<>>
  BY <1>4, <1>5, CollectedWhole, Zenon
<1> DEFINE buckets == ToBuckets(raw.buckets)
           q == [at |-> now, buckets |-> buckets, sum |-> raw.sum, count |-> raw.count]
<1>7. p = q
  BY <1>3, Zenon DEF to_point
<1>8. /\ DOMAIN buckets \subseteq 0 .. Inf /\ Inf \in DOMAIN buckets
      /\ \A le \in DOMAIN buckets : buckets[le] = Observed(seen, le)
  BY <1>6, BucketsAre DEF IsWhole
<1> HIDE DEF buckets
<1>9. p.buckets = buckets /\ p.count = raw.count
  BY <1>7
<1>10. raw.count = IF how = "_count" THEN 0 ELSE Sum(seen)
  BY <1>6 DEF IsWhole
<1> QED BY <1>8, <1>9, <1>10, Zenon DEF IsPointOf

-----------------------------------------------------------------------------
(* Counts of observations.                                                 *)

IsCounts(s) == s \in [Latencies -> Nat]
UpToSet(le) == {x \in Latencies : x <= le}

LEMMA LatenciesAre ==
  IsFiniteSet(Latencies) /\ Inf \in Nat /\ \A x \in Latencies : x \in Nat /\ x < Inf
<1>1. IsFiniteSet(Latencies) /\ Latencies \subseteq 0 .. Inf - 1
  BY PipelineAssumption
<1>2. Inf \in Nat /\ \A x \in 0 .. Inf - 1 : x \in Nat /\ x < Inf
  BY DEF Inf
<1> QED BY <1>1, <1>2

LEMMA SumOfCounts ==
  ASSUME NEW s, IsCounts(s)
  PROVE  Sum(s) = Total(s, Latencies) /\ Sum(s) \in Nat
<1>1. DOMAIN s = Latencies /\ \A x \in Latencies : s[x] \in Int /\ s[x] >= 0
  BY DEF IsCounts
<1>2. Sum(s) = Total(s, Latencies) /\ Sum(s) \in Int
  BY <1>1, LatenciesAre, SumIs
<1>3. Total(s, {}) <= Total(s, Latencies)
  <2>1. {} \in SUBSET Latencies /\ \A x \in {} : s[x] \in Int /\ s[x] <= s[x]
    OBVIOUS
  <2> QED BY <1>1, <2>1, LatenciesAre, TotalMonotone
<1> QED BY <1>2, <1>3, TotalEmpty

LEMMA ObservedIs ==
  ASSUME NEW s, IsCounts(s), NEW le
  PROVE  Observed(s, le) = Total(s, UpToSet(le)) /\ Observed(s, le) \in Nat
<1> DEFINE S == UpToSet(le)
           g == [v \in S |-> s[v]]
<1>1. S \in SUBSET Latencies
  BY DEF UpToSet
<1>2. Observed(s, le) = Sum(g)
  BY Zenon DEF Observed, UpToSet
<1> HIDE DEF S
<1>3. IsFiniteSet(S)
  BY <1>1, LatenciesAre, FS_Subset
<1>4. \A x \in S : s[x] \in Int /\ s[x] >= 0
  BY <1>1 DEF IsCounts
<1>5. DOMAIN g = S /\ \A x \in S : g[x] = s[x]
  OBVIOUS
<1> HIDE DEF g
<1>6. Sum(g) = Total(g, S) /\ Sum(g) \in Int
  BY <1>3, <1>4, <1>5, SumIs
<1>7. Total(g, S) = Total(s, S)
  BY <1>3, <1>4, <1>5, TotalEqual
<1>8. Total(s, {}) <= Total(s, S)
  <2>1. {} \in SUBSET S /\ \A x \in {} : s[x] \in Int /\ s[x] <= s[x]
    OBVIOUS
  <2> QED BY <1>3, <1>4, <2>1, TotalMonotone
<1> QED BY <1>2, <1>6, <1>7, <1>8, TotalEmpty DEF S

LEMMA ObservedAll ==
  ASSUME NEW s, IsCounts(s)
  PROVE  Observed(s, Inf) = Sum(s)
<1>1. UpToSet(Inf) = Latencies
  <2>1. \A x \in Latencies : x <= Inf
    BY LatenciesAre
  <2> QED BY <2>1, Zenon DEF UpToSet
<1> QED BY <1>1, ObservedIs, SumOfCounts

LEMMA ObservedGrows ==
  ASSUME NEW s, IsCounts(s), NEW le \in Int, NEW me \in Int, le <= me
  PROVE  Observed(s, le) <= Observed(s, me)
<1>1. UpToSet(le) \in SUBSET UpToSet(me) /\ UpToSet(me) \in SUBSET Latencies
  <2>1. \A x \in Latencies : x <= le => x <= me
    BY LatenciesAre
  <2> QED BY <2>1, Zenon DEF UpToSet
<1>2. IsFiniteSet(UpToSet(me))
  BY <1>1, LatenciesAre, FS_Subset
<1>3. /\ \A x \in UpToSet(me) : s[x] \in Int /\ s[x] >= 0
      /\ \A x \in UpToSet(le) : s[x] \in Int /\ s[x] <= s[x]
  BY <1>1 DEF IsCounts
<1>4. Total(s, UpToSet(le)) <= Total(s, UpToSet(me))
  BY <1>1, <1>2, <1>3, TotalMonotone
<1> QED BY <1>4, ObservedIs

\* What came after the counts a, up to the counts b.
LEMMA ObservedSince ==
  ASSUME NEW a, IsCounts(a), NEW b, IsCounts(b), \A v \in Latencies : a[v] <= b[v],
         NEW c, c = [v \in Latencies |-> b[v] - a[v]]
  PROVE  /\ IsCounts(c)
         /\ \A le : Observed(c, le) = Observed(b, le) - Observed(a, le)
         /\ Sum(c) = Sum(b) - Sum(a)
<1>1. \A v \in Latencies : a[v] \in Nat /\ b[v] \in Nat /\ c[v] = b[v] - a[v] /\ c[v] \in Nat
  BY DEF IsCounts
<1>2. IsCounts(c)
  BY <1>1 DEF IsCounts
<1>3. ASSUME NEW S \in SUBSET Latencies PROVE Total(c, S) = Total(b, S) - Total(a, S)
  <2>1. IsFiniteSet(S)
    BY LatenciesAre, FS_Subset
  <2>2. \A x \in S : b[x] \in Int /\ a[x] \in Int /\ c[x] = b[x] - a[x]
    BY <1>1
  <2> QED BY <2>1, <2>2, TotalDifference
<1>4. \A le : UpToSet(le) \in SUBSET Latencies
  BY DEF UpToSet
<1> QED BY <1>2, <1>3, <1>4, ObservedIs, SumOfCounts

\* One more observation.
LEMMA OneMoreSeen ==
  ASSUME NEW s, IsCounts(s), NEW v \in Latencies, NEW new, new = [s EXCEPT ![v] = s[v] + 1]
  PROVE  IsCounts(new) /\ Sum(new) = Sum(s) + 1 /\ \A x \in Latencies : s[x] <= new[x]
<1>1. /\ \A x \in Latencies : s[x] \in Nat /\ new[x] = IF x = v THEN s[x] + 1 ELSE s[x]
      /\ DOMAIN new = Latencies /\ IsCounts(new)
  BY DEF IsCounts
<1>2. Total(new, Latencies) = Total(s, Latencies) + 1
  <2> DEFINE R == Latencies \ {v}
  <2>1. R \in SUBSET Latencies /\ IsFiniteSet(R)
    BY LatenciesAre, FS_Subset
  <2>2. /\ \A x \in Latencies : s[x] \in Int /\ new[x] \in Int
        /\ \A x \in R : s[x] \in Int /\ new[x] = s[x]
        /\ new[v] = s[v] + 1
    BY <1>1
  <2>3. Total(new, R) = Total(s, R) /\ Total(s, R) \in Int
    <3> HIDE DEF R
    <3> QED BY <2>1, <2>2, TotalEqual, TotalType
  <2>4. \A f : (\A x \in Latencies : f[x] \in Int) => Total(f, Latencies) = f[v] + Total(f, R)
    BY LatenciesAre, TotalRemove, Zenon
  <2>5. Total(s, Latencies) = s[v] + Total(s, R) /\ Total(new, Latencies) = new[v] + Total(new, R)
    BY <2>2, <2>4, Zenon
  <2> HIDE DEF R
  <2> QED BY <2>2, <2>3, <2>5
<1>3. \A x \in Latencies : s[x] <= new[x]
  BY <1>1
<1> QED BY <1>1, <1>2, <1>3, SumOfCounts

LEMMA NoneAreSeen == IsCounts(NoneSeen) /\ Sum(NoneSeen) = 0
<1>1. IsCounts(NoneSeen) /\ \A x \in Latencies : NoneSeen[x] = 0
  BY DEF IsCounts, NoneSeen
<1> DEFINE s == NoneSeen
<1>2. IsCounts(s) /\ \A x \in Latencies : s[x] = 0 * s[x] /\ s[x] \in Int
  BY <1>1
<1> HIDE DEF s
<1>3. Total(s, Latencies) = 0 * Total(s, Latencies)
  <2>1. \A x \in Latencies : s[x] \in Int
    BY <1>2
  <2>2. \A x \in Latencies : s[x] = 0 * s[x]
    BY <1>2
  <2>3. 0 \in Int
    OBVIOUS
  <2> QED BY <2>1, <2>2, <2>3, LatenciesAre, TotalScale, Zenon
<1>4. Sum(s) = 0
  BY <1>2, <1>3, SumOfCounts
<1> QED BY <1>1, <1>4 DEF s

-----------------------------------------------------------------------------
(* The quantile of a window's buckets.                                     *)

LEMMA RankIs ==
  ASSUME NEW c, IsCounts(c), Sum(c) > 0, NEW q \in 1 .. 100
  PROVE  /\ Rank(c, q) \in Latencies
         /\ \A le \in Int : 100 * Observed(c, le) >= q * Sum(c) <=> Rank(c, q) <= le
<1> DEFINE all == Sum(c)
           S == {v \in Latencies : 100 * Observed(c, v) >= q * all}
           r == Rank(c, q)
<1>1. r = Min(S)
  BY Zenon DEF Rank, Observed
<1>2. all \in Nat /\ all > 0 /\ all = Total(c, Latencies)
  BY SumOfCounts
<1>3. \A le : Observed(c, le) = Total(c, UpToSet(le)) /\ Observed(c, le) \in Nat
  BY ObservedIs
<1> HIDE DEF all, r
<1>4. 0 < q * all /\ q * all <= 100 * all /\ q * all \in Int
  <2>1. ASSUME NEW x \in Nat, x > 0 PROVE 0 < q * x /\ q * x <= 100 * x /\ q * x \in Int
    <3>1. q \in Int /\ 1 <= q /\ q <= 100
      OBVIOUS
    <3>2. \A m \in Nat : m * x \in Nat
      OBVIOUS
    <3>3. q - 1 \in Nat /\ 100 - q \in Nat
      BY <3>1
    <3>4. (q - 1) * x \in Nat /\ (100 - q) * x \in Nat
      BY <3>2, <3>3
    <3>5. (q - 1) * x = q * x - x /\ (100 - q) * x = 100 * x - q * x
      BY <3>1
    <3> QED BY <2>1, <3>1, <3>2, <3>4, <3>5
  <2> QED BY <1>2, <2>1
<1> DEFINE least == q * all
<1>5. least \in Int /\ 0 < least /\ least <= 100 * all
  BY <1>4
<1>6. S = {v \in Latencies : 100 * Observed(c, v) >= least}
  OBVIOUS
<1> HIDE DEF least
\* A bound that enough are within has the greatest latency within it in S.
<1>7. ASSUME NEW U \in SUBSET Latencies, 100 * Total(c, U) >= least,
             \A x \in U, y \in Latencies : y <= x => y \in U
      PROVE  \E m \in U : m \in S
  <2>1. U # {}
    <3>1. ASSUME U = {} PROVE FALSE
      <4>1. Total(c, U) = 0
        BY <3>1, TotalEmpty
      <4> QED BY <1>5, <1>7, <4>1
    <3> QED BY <3>1
  <2>2. IsFiniteSet(U) /\ U \in SUBSET Int
    BY LatenciesAre, FS_Subset
  <2>3. PICK m \in U : \A y \in U : y <= m
    BY <2>1, <2>2, Greatest
  <2>4. UpToSet(m) = U
    BY <1>7, <2>3, Zenon DEF UpToSet
  <2>5. 100 * Observed(c, m) >= least
    BY <1>3, <1>7, <2>4
  <2> QED BY <1>6, <2>5
<1>8. S # {}
  <2>1. 100 * Total(c, Latencies) >= least
    BY <1>2, <1>5
  <2>2. \E m \in Latencies : m \in S
    BY <1>7, <2>1
  <2> QED BY <2>2
<1>9. S \in SUBSET Nat
  BY LatenciesAre
<1>10. r \in S /\ \A v \in S : r <= v
  BY <1>1, <1>8, <1>9, MinIn
<1>11. r \in Latencies /\ r \in Int /\ 100 * Observed(c, r) >= least
  BY <1>6, <1>9, <1>10
<1> HIDE DEF S
<1>12. ASSUME NEW le \in Int, r <= le PROVE 100 * Observed(c, le) >= least
  <2>1. Observed(c, r) <= Observed(c, le)
    BY <1>11, <1>12, ObservedGrows
  <2> QED BY <1>3, <1>5, <1>11, <2>1
<1>13. ASSUME NEW le \in Int, 100 * Observed(c, le) >= least PROVE r <= le
  <2> DEFINE U == UpToSet(le)
  <2>1. U \in SUBSET Latencies /\ \A x \in U : x <= le
    BY DEF UpToSet
  <2>2. \A x \in U, y \in Latencies : y <= x => y \in U
    <3>1. ASSUME NEW x \in U, NEW y \in Latencies, y <= x PROVE y <= le
      <4>1. x \in Int /\ y \in Int /\ x <= le
        BY <2>1, LatenciesAre
      <4> QED BY <3>1, <4>1
    <3> QED BY <3>1 DEF UpToSet
  <2>3. 100 * Total(c, U) >= least
    BY <1>3, <1>13
  <2> HIDE DEF U
  <2>4. PICK m \in U : m \in S
    BY <1>7, <2>1, <2>2, <2>3
  <2>5. m \in Int /\ m <= le /\ r <= m
    BY <1>9, <1>10, <2>1, <2>4
  <2> QED BY <1>11, <2>5
<1> QED BY <1>11, <1>12, <1>13 DEF least, all, r

LEMMA Interpolated ==
  ASSUME NEW l \in Int, NEW u \in Int, l <= u, NEW y \in Int, NEW z \in Int, 0 <= y, y <= z
  PROVE  l * z <= l * z + (u - l) * y /\ l * z + (u - l) * y <= u * z
<1> DEFINE w == u - l
<1>1. w \in Nat /\ u = l + w
  OBVIOUS
<1> HIDE DEF w
<1>2. w * y \in Nat /\ w * (z - y) \in Nat
  <2>1. \A a, b \in Nat : a * b \in Nat
    OBVIOUS
  <2>2. y \in Nat /\ z - y \in Nat
    OBVIOUS
  <2> QED BY <1>1, <2>1, <2>2
<1>3. w * (z - y) = w * z - w * y
  BY <1>1
<1>4. u * z = l * z + w * z
  BY <1>1
<1>5. l * z \in Int /\ w * z \in Int
  BY <1>1
<1>6. l * z <= l * z + w * y /\ l * z + w * y <= u * z
  BY <1>2, <1>3, <1>4, <1>5
<1> QED BY <1>6 DEF w

\* Buckets of the counts c.
IsCumulative(d, c) ==
  /\ DOMAIN d \subseteq 0 .. Inf /\ Inf \in DOMAIN d
  /\ \A le \in DOMAIN d : d[le] = Observed(c, le)

LEMMA BoundsAre ==
  ASSUME NEW S, S \subseteq 0 .. Inf
  PROVE  /\ IsFiniteSet(S) /\ S \in SUBSET Int /\ S \in SUBSET Nat
         /\ S # {} => /\ Max(S) \in S /\ (\A m \in S : m <= Max(S))
                      /\ Min(S) \in S /\ (\A m \in S : Min(S) <= m)
<1>1. IsFiniteSet(0 .. Inf)
  BY LatenciesAre, FS_Interval
<1>2. IsFiniteSet(S)
  BY <1>1, FS_Subset
<1>3. S \in SUBSET Int /\ S \in SUBSET Nat
  OBVIOUS
<1>4. S # {} => Max(S) \in S /\ \A m \in S : m <= Max(S)
  BY <1>2, <1>3, MaxIs
<1>5. S # {} => Min(S) \in S /\ \A m \in S : Min(S) <= m
  BY <1>3, MinIn
<1> QED BY <1>2, <1>3, <1>4, <1>5

LEMMA TotalOfBuckets ==
  ASSUME NEW c, IsCounts(c), NEW d, IsCumulative(d, c)
  PROVE  Max(DOMAIN d) = Inf /\ d[Max(DOMAIN d)] = Sum(c)
<1>1. DOMAIN d \subseteq 0 .. Inf /\ Inf \in DOMAIN d /\ d[Inf] = Observed(c, Inf)
  BY DEF IsCumulative
<1>2. Max(DOMAIN d) \in DOMAIN d /\ Inf <= Max(DOMAIN d)
  BY <1>1, BoundsAre
<1>3. Max(DOMAIN d) = Inf
  BY <1>1, <1>2, LatenciesAre
<1> QED BY <1>1, <1>3, ObservedAll

\* The first bucket that reaches the target is the first that holds the rank.
TargetOf(d, q) == Min({b \in DOMAIN d : 100 * d[b] >= q * d[Max(DOMAIN d)]})

LEMMA TargetIs ==
  ASSUME NEW c, IsCounts(c), Sum(c) > 0, NEW q \in 1 .. 100, NEW d, IsCumulative(d, c),
         NEW le, le = TargetOf(d, q)
  PROVE  /\ le \in DOMAIN d /\ Rank(c, q) <= le
         /\ \A b \in DOMAIN d : Rank(c, q) <= b <=> le <= b
<1> DEFINE r == Rank(c, q)
           S == {b \in DOMAIN d : 100 * d[b] >= q * d[Max(DOMAIN d)]}
<1>1. DOMAIN d \subseteq 0 .. Inf /\ Inf \in DOMAIN d /\ \A b \in DOMAIN d : d[b] = Observed(c, b)
  BY DEF IsCumulative
<1>2. d[Max(DOMAIN d)] = Sum(c)
  BY TotalOfBuckets
<1>3. r \in Nat /\ r < Inf /\ \A b \in Int : 100 * Observed(c, b) >= q * Sum(c) <=> r <= b
  BY RankIs, LatenciesAre
<1> HIDE DEF r
<1>4. S = {b \in DOMAIN d : r <= b}
  BY <1>1, <1>2, <1>3
<1> HIDE DEF S
<1>5. S \subseteq 0 .. Inf /\ Inf \in S
  BY <1>1, <1>3, <1>4, LatenciesAre
<1>6. le \in S /\ \A b \in S : le <= b
  <2>1. le = Min(S)
    BY Zenon DEF S, TargetOf
  <2>2. S # {}
    BY <1>5
  <2>3. Min(S) \in S /\ \A b \in S : Min(S) <= b
    BY <1>5, <2>2, BoundsAre
  <2> QED BY <2>1, <2>3
<1>7. \A b \in DOMAIN d : le <= b => r <= b
  BY <1>1, <1>3, <1>4, <1>6
<1> QED BY <1>4, <1>6, <1>7 DEF r

\* The bounds of the bucket.
LEMMA BracketIs ==
  ASSUME NEW D, D \subseteq 0 .. Inf, NEW r \in Nat, NEW le \in D, r <= le,
         \A b \in D : r <= b <=> le <= b
  PROVE  LET finite == D \ {Inf}
             above == {b \in finite : b >= r}
             below == {b \in finite : b < r} \cup {0}
             lesser == {b \in D : b < le}
         IN /\ le = Inf => /\ above = {}
                           /\ finite # {} => Max(below) = Max(finite) /\ Max(finite) \in Nat
            /\ le # Inf => /\ Min(above) = le /\ above # {}
                           /\ Max(below) = IF lesser # {} THEN Max(lesser) ELSE 0
                           /\ Max(below) \in Nat /\ Max(below) <= le
<1> DEFINE finite == D \ {Inf}
           above == {b \in finite : b >= r}
           below == {b \in finite : b < r} \cup {0}
           lesser == {b \in D : b < le}
<1>1. Inf \in Nat /\ \A b \in D : b \in Nat /\ b <= Inf
  <2>1. Inf \in Nat
    BY LatenciesAre
  <2>2. \A b \in 0 .. Inf : b \in Nat /\ b <= Inf
    BY <2>1
  <2> QED BY <2>1, <2>2
<1>2. \A b \in D : (b < le <=> b # Inf /\ b < r) /\ (b # Inf <=> b < Inf)
  <2>1. le \in Nat /\ le <= Inf
    BY <1>1
  <2>2. ASSUME NEW b \in D PROVE (b < le <=> b # Inf /\ b < r) /\ (b # Inf <=> b < Inf)
    <3>1. b \in Nat /\ b <= Inf /\ (r <= b <=> le <= b)
      BY <1>1
    <3> QED BY <1>1, <2>1, <3>1
  <2> QED BY <2>2
<1>3. /\ \A b : b \in finite <=> b \in D /\ b # Inf
      /\ \A b : b \in above <=> b \in D /\ b # Inf /\ b >= r
      /\ \A b : b \in lesser <=> b \in D /\ b < le
      /\ below = lesser \cup {0}
  <2>1. \A b : b \in {x \in finite : x < r} <=> b \in lesser
    BY <1>2
  <2>2. {x \in finite : x < r} = lesser
    BY <2>1, Zenon
  <2>3. below = lesser \cup {0}
    BY <2>2, Zenon
  <2>4. \A b : b \in finite <=> b \in D /\ b # Inf
    BY Zenon
  <2>5. \A b : b \in above <=> b \in D /\ b # Inf /\ b >= r
    BY Zenon
  <2>6. \A b : b \in lesser <=> b \in D /\ b < le
    BY Zenon
  <2> HIDE DEF finite, above, below, lesser
  <2> QED BY <2>3, <2>4, <2>5, <2>6, Zenon
<1> HIDE DEF finite, above, below, lesser
<1>4. /\ finite \subseteq 0 .. Inf /\ above \subseteq 0 .. Inf /\ lesser \subseteq 0 .. Inf
      /\ below \subseteq 0 .. Inf /\ below # {}
  <2>1. 0 \in 0 .. Inf
    BY <1>1
  <2> QED BY <1>3, <2>1, Zenon
<1>5. le # Inf => le \in above
  BY <1>1, <1>3
<1>6. le = Inf => finite = lesser
  <2>1. ASSUME le = Inf PROVE finite = lesser
    <3>1. \A b : b \in finite <=> b \in lesser
      BY <1>2, <1>3, <2>1, Zenon
    <3> QED BY <3>1, Zenon
  <2> QED BY <2>1
<1>7. \A b \in above : b \in Nat /\ le <= b /\ b < Inf
  <2>1. \A b \in D : b >= r => le <= b
    BY <1>1
  <2> QED BY <1>1, <1>2, <1>3, <2>1, Zenon
<1>8. le = Inf => above = {}
  <2>1. ASSUME le = Inf, NEW b \in above PROVE FALSE
    BY <1>1, <1>7, <2>1
  <2> QED BY <2>1
<1>9. \A S : S \subseteq 0 .. Inf /\ S # {} => Max(S) \in Nat /\ Min(S) \in Nat
  <2>1. \A b \in 0 .. Inf : b \in Nat
    OBVIOUS
  <2> QED BY <2>1, BoundsAre, Zenon
<1>10. ASSUME lesser # {} PROVE Max(below) = Max(lesser)
  <2>1. /\ Max(below) \in below /\ (\A b \in below : b <= Max(below))
        /\ Max(lesser) \in lesser /\ (\A b \in lesser : b <= Max(lesser))
    BY <1>4, <1>10, BoundsAre
  <2>2. Max(lesser) \in Nat /\ Max(below) \in Nat
    BY <1>4, <1>10, <1>9
  <2>3. Max(lesser) <= Max(below) /\ Max(below) <= Max(lesser)
    BY <1>3, <2>1, <2>2
  <2> QED BY <2>2, <2>3
<1>11. ASSUME lesser = {} PROVE Max(below) = 0
  <2>1. Max(below) \in below
    BY <1>4, BoundsAre
  <2> QED BY <1>3, <1>11, <2>1
<1>12. le # Inf => Min(above) = le
  <2>1. ASSUME le # Inf PROVE Min(above) = le
    <3>1. Min(above) \in above /\ Min(above) <= le
      BY <1>4, <1>5, <2>1, BoundsAre
    <3>2. le <= Min(above) /\ Min(above) \in Nat
      BY <1>7, <3>1
    <3> QED BY <1>1, <3>1, <3>2
  <2> QED BY <2>1
<1>13. Max(below) \in Nat
  BY <1>4, <1>9
<1>14. Max(below) <= le
  <2>1. CASE lesser = {}
    BY <1>1, <1>11, <2>1
  <2>2. CASE lesser # {}
    <3>1. Max(lesser) \in lesser
      BY <1>4, <2>2, BoundsAre
    <3>2. Max(lesser) < le
      BY <1>3, <3>1
    <3> QED BY <1>1, <1>10, <1>13, <2>2, <3>2
  <2> QED BY <2>1, <2>2
<1>15. le = Inf /\ finite # {} => Max(below) = Max(finite) /\ Max(finite) \in Nat
  BY <1>6, <1>10, <1>13
<1>16. Max(below) = IF lesser # {} THEN Max(lesser) ELSE 0
  BY <1>10, <1>11
<1>17. /\ le = Inf => /\ above = {}
                      /\ finite # {} => Max(below) = Max(finite) /\ Max(finite) \in Nat
       /\ le # Inf => /\ Min(above) = le /\ above # {}
                      /\ Max(below) = IF lesser # {} THEN Max(lesser) ELSE 0
                      /\ Max(below) \in Nat /\ Max(below) <= le
  BY <1>5, <1>8, <1>12, <1>13, <1>14, <1>15, <1>16
<1> QED BY <1>17 DEF finite, above, below, lesser

LEMMA InterpolateIs ==
  ASSUME NEW c, IsCounts(c), Sum(c) > 0, NEW q \in 1 .. 100, NEW d, IsCumulative(d, c),
         NEW le \in DOMAIN d, NEW lower \in Nat, lower <= le,
         lower = IF Below(d, le) # {} THEN Max(Below(d, le)) ELSE 0,
         \A b \in DOMAIN d : Rank(c, q) <= b <=> le <= b
  PROVE  LET fraction == Interpolate(d, le, q, Sum(c)) IN
         lower * fraction[2] <= fraction[1] /\ fraction[1] <= le * fraction[2]
<1> DEFINE all == Sum(c)
           lesser == Below(d, le)
           before == IF lesser = {} THEN 0 ELSE d[Max(lesser)]
           low == IF lesser # {} THEN Max(lesser) ELSE IF le > 0 THEN 0 ELSE le
           inside == d[le] - before
           x == q * all - 100 * before
           fraction == Interpolate(d, le, q, all)
<1>1. fraction = <<low * 100 * inside + (le - low) * x, 100 * inside>>
  BY Zenon DEF Interpolate
<1>2. /\ DOMAIN d \subseteq 0 .. Inf /\ \A b \in DOMAIN d : d[b] = Observed(c, b)
      /\ \A b : Observed(c, b) \in Nat
  BY ObservedIs DEF IsCumulative
<1>3. le \in Nat /\ \A b \in DOMAIN d : b \in Nat /\ d[b] \in Nat
  BY <1>2
<1>4. all \in Nat /\ all > 0
  BY SumOfCounts
<1>5. \A b \in Int : 100 * Observed(c, b) >= q * all <=> Rank(c, q) <= b
  BY RankIs
<1>6. lesser # {} => Max(lesser) \in DOMAIN d /\ Max(lesser) < le
  <2>1. lesser \subseteq DOMAIN d /\ \A b \in lesser : b < le
    BY DEF Below
  <2> HIDE DEF lesser
  <2>2. lesser \subseteq 0 .. Inf
    BY <1>2, <2>1
  <2>3. lesser # {} => Max(lesser) \in lesser
    BY <2>2, BoundsAre
  <2> QED BY <2>1, <2>3
<1>7. low = lower
  BY <1>3
<1> HIDE DEF all, lesser, fraction
<1>8. 0 < q * all /\ q * all \in Int
  <2>1. \A m, n \in Nat : m > 0 /\ n > 0 => m * n > 0 /\ m * n \in Int
    <3>1. ASSUME NEW m \in Nat, NEW n \in Nat, m > 0, n > 0 PROVE m * n > 0 /\ m * n \in Int
      <4>1. m - 1 \in Nat
        BY <3>1
      <4>2. (m - 1) * n \in Nat
        BY <4>1
      <4>3. (m - 1) * n = m * n - n
        OBVIOUS
      <4> QED BY <3>1, <4>2, <4>3
    <3> QED BY <3>1
  <2> QED BY <1>4, <2>1
<1>9. before \in Nat /\ 100 * before < q * all
  <2>1. CASE lesser = {}
    BY <1>8, <2>1
  <2>2. CASE lesser # {}
    <3> DEFINE b == Max(lesser)
    <3>1. b \in DOMAIN d /\ b < le /\ before = d[b]
      BY <1>6, <2>2
    <3> HIDE DEF b, before
    <3>2. b \in Nat /\ d[b] \in Nat /\ d[b] = Observed(c, b)
      BY <1>2, <1>3, <3>1
    <3>3. ~ (le <= b)
      BY <1>3, <3>1, <3>2
    <3>4. ~ (Rank(c, q) <= b)
      BY <3>1, <3>3
    <3>5. ~ (100 * d[b] >= q * all)
      BY <1>5, <3>2, <3>4
    <3> QED BY <1>8, <3>1, <3>2, <3>5
  <2> QED BY <2>1, <2>2
<1>10. 100 * d[le] >= q * all
  <2>1. Rank(c, q) <= le
    BY <1>3
  <2> QED BY <1>2, <1>3, <1>5, <2>1
<1> DEFINE z == 100 * inside
           target == q * all
<1>11. d[le] \in Nat /\ target \in Int /\ before \in Nat
  BY <1>3, <1>8, <1>9
<1>12. 100 * before < target /\ target <= 100 * d[le]
  BY <1>8, <1>9, <1>10, <1>11
<1>13. x = target - 100 * before
  OBVIOUS
<1> HIDE DEF before, low, target, x
<1>14. /\ x \in Int /\ z \in Int /\ 0 <= x /\ x <= z /\ inside \in Int
  BY <1>11, <1>12, <1>13
<1>15. fraction = <<lower * 100 * inside + (le - lower) * x, 100 * inside>>
  BY <1>1, <1>7 DEF x, target
<1> HIDE DEF inside
<1>16. lower * 100 * inside = lower * z
  BY <1>14
<1>17. fraction[1] = lower * z + (le - lower) * x /\ fraction[2] = z
  BY <1>15, <1>16
<1> HIDE DEF z
<1>18. lower * z <= lower * z + (le - lower) * x /\ lower * z + (le - lower) * x <= le * z
  BY <1>3, <1>14, Interpolated
<1>19. lower * fraction[2] <= fraction[1] /\ fraction[1] <= le * fraction[2]
  BY <1>17, <1>18
<1> QED BY <1>19 DEF fraction, all

LEMMA QuantileIs ==
  ASSUME NEW c, IsCounts(c), Sum(c) > 0, NEW q \in 1 .. 100, NEW d, IsCumulative(d, c),
         NEW fraction, fraction = Quantile(d, q), fraction # NoFraction
  PROVE  InBucket(fraction, Rank(c, q), DOMAIN d)
<1> DEFINE D == DOMAIN d
           r == Rank(c, q)
           le == TargetOf(d, q)
           finite == D \ {Inf}
           above == {b \in finite : b >= r}
           below == {b \in finite : b < r} \cup {0}
           lesser == {b \in D : b < le}
           lower == Max(below)
           upper == IF above = {} THEN lower ELSE Min(above)
<1>1. D \subseteq 0 .. Inf
  BY DEF IsCumulative
<1>2. r \in Nat
  BY RankIs, LatenciesAre
<1>3. le \in D /\ r <= le /\ \A b \in D : r <= b <=> le <= b
  BY TargetIs
<1>4. SUFFICES lower * fraction[2] <= fraction[1] /\ fraction[1] <= upper * fraction[2]
  BY Zenon DEF InBucket
<1> HIDE DEF r, le
<1>5. /\ le = Inf => /\ above = {}
                     /\ finite # {} => lower = Max(finite) /\ Max(finite) \in Nat
      /\ le # Inf => /\ Min(above) = le /\ above # {}
                     /\ lower = IF lesser # {} THEN Max(lesser) ELSE 0
                     /\ lower \in Nat /\ lower <= le
  <2> HIDE DEF D
  <2> QED BY <1>1, <1>2, <1>3, BracketIs, Zenon
<1>6. d[Max(D)] = Sum(c)
  BY TotalOfBuckets
<1>7. lesser = Below(d, le) /\ finite = Finite(d)
  BY Zenon DEF Below, Finite
<1>8. fraction = IF le = Inf THEN IF Finite(d) = {} THEN NoFraction ELSE <<Max(Finite(d)), 1>>
                 ELSE Interpolate(d, le, q, Sum(c))
  BY <1>6, Zenon DEF Quantile, TargetOf, le
<1> HIDE DEF lesser, finite, above, lower, D
<1>9. CASE le = Inf
  <2>1. finite # {} /\ fraction = <<Max(finite), 1>>
    BY <1>7, <1>8, <1>9
  <2>2. lower = Max(finite) /\ lower \in Nat /\ upper = lower
    BY <1>5, <1>9, <2>1
  <2>3. fraction[1] = lower /\ fraction[2] = 1
    BY <2>1, <2>2
  <2> HIDE DEF upper
  <2> QED BY <2>2, <2>3
<1>10. CASE le # Inf
  <2>1. upper = le /\ fraction = Interpolate(d, le, q, Sum(c))
    BY <1>5, <1>8, <1>10
  <2>2. /\ lower \in Nat /\ lower <= le
        /\ lower = IF Below(d, le) # {} THEN Max(Below(d, le)) ELSE 0
    BY <1>5, <1>7, <1>10
  <2>3. le \in DOMAIN d /\ \A b \in DOMAIN d : Rank(c, q) <= b <=> le <= b
    BY <1>3 DEF D, r
  <2> HIDE DEF upper
  <2> QED BY <2>1, <2>2, <2>3, InterpolateIs
<1> QED BY <1>9, <1>10

-----------------------------------------------------------------------------
(* What the server was at a snapshot, and what it is.                      *)

Stage == [run |-> run, seen |-> seen, total |-> total]

IsMoment(x) == x.run \in Nat /\ x.total \in Nat /\ IsCounts(x.seen)

\* What one process observed only grows; a later one observed all it has since.
IsBefore(x, y) ==
  /\ x.run <= y.run /\ x.total <= y.total
  /\ x.run = y.run => /\ \A v \in Latencies : x.seen[v] <= y.seen[v]
                      /\ Sum(y.seen) - Sum(x.seen) = y.total - x.total
  /\ x.run # y.run => Sum(y.seen) <= y.total - x.total

LEMMA SameIsBefore ==
  ASSUME NEW x, IsMoment(x), NEW y, y.run = x.run, y.seen = x.seen, y.total = x.total
  PROVE  IsBefore(x, y)
<1>1. Sum(x.seen) \in Nat /\ \A v \in Latencies : x.seen[v] \in Nat
  BY SumOfCounts DEF IsMoment, IsCounts
<1> QED BY <1>1 DEF IsMoment, IsBefore

LEMMA ObservingMoves ==
  ASSUME NEW y, IsMoment(y), NEW v \in Latencies, NEW z, z.run = y.run, z.total = y.total + 1,
         z.seen = [y.seen EXCEPT ![v] = y.seen[v] + 1]
  PROVE  IsMoment(z) /\ \A x : IsMoment(x) /\ IsBefore(x, y) => IsBefore(x, z)
<1>1. IsCounts(z.seen) /\ Sum(z.seen) = Sum(y.seen) + 1 /\ \A w \in Latencies : y.seen[w] <= z.seen[w]
  BY OneMoreSeen DEF IsMoment
<1>2. y.run \in Nat /\ y.total \in Nat /\ Sum(y.seen) \in Nat /\ \A w \in Latencies : y.seen[w] \in Nat
  BY SumOfCounts DEF IsMoment, IsCounts
<1>3. \A w \in Latencies : z.seen[w] \in Nat
  BY <1>1 DEF IsCounts
<1>4. IsMoment(z)
  BY <1>1, <1>2 DEF IsMoment
<1>5. ASSUME NEW x, IsMoment(x), IsBefore(x, y) PROVE IsBefore(x, z)
  <2>1. x.run \in Nat /\ x.total \in Nat /\ Sum(x.seen) \in Nat /\ \A w \in Latencies : x.seen[w] \in Nat
    BY <1>5, SumOfCounts DEF IsMoment, IsCounts
  <2>2. x.run <= z.run /\ x.total <= z.total
    BY <1>2, <1>5, <2>1 DEF IsBefore
  <2>3. CASE x.run = y.run
    <3>1. Sum(y.seen) - Sum(x.seen) = y.total - x.total /\ \A w \in Latencies : x.seen[w] <= y.seen[w]
      BY <1>5, <2>3 DEF IsBefore
    <3>2. \A w \in Latencies : x.seen[w] <= z.seen[w]
      BY <1>1, <1>2, <1>3, <2>1, <3>1
    <3>3. Sum(z.seen) - Sum(x.seen) = z.total - x.total
      BY <1>1, <1>2, <2>1, <3>1
    <3> QED BY <2>2, <2>3, <3>2, <3>3 DEF IsBefore
  <2>4. CASE x.run # y.run
    <3>1. Sum(y.seen) <= y.total - x.total
      BY <1>5, <2>4 DEF IsBefore
    <3>2. Sum(z.seen) <= z.total - x.total
      BY <1>1, <1>2, <2>1, <3>1
    <3> QED BY <2>2, <2>4, <3>2 DEF IsBefore
  <2> QED BY <2>3, <2>4
<1> QED BY <1>4, <1>5

LEMMA RestartingMoves ==
  ASSUME NEW y, IsMoment(y), NEW z, z.run = y.run + 1, z.total = y.total, z.seen = NoneSeen
  PROVE  IsMoment(z) /\ \A x : IsMoment(x) /\ IsBefore(x, y) => IsBefore(x, z)
<1>1. y.run \in Nat /\ y.total \in Nat
  BY DEF IsMoment
<1>2. IsCounts(z.seen) /\ Sum(z.seen) = 0
  BY NoneAreSeen
<1>3. IsMoment(z)
  BY <1>1, <1>2 DEF IsMoment
<1>4. ASSUME NEW x, IsMoment(x), IsBefore(x, y) PROVE IsBefore(x, z)
  <2>1. x.run \in Nat /\ x.total \in Nat /\ x.run <= y.run /\ x.total <= y.total
    BY <1>4 DEF IsMoment, IsBefore
  <2>2. x.run <= z.run /\ x.run # z.run /\ x.total <= z.total /\ 0 <= z.total - x.total
    BY <1>1, <2>1
  <2> QED BY <1>2, <2>2 DEF IsBefore
<1> QED BY <1>3, <1>4

\* The truth of a ring: each point tells what was observed by then, in order,
\* and is comparable with the one before.
IsTold(r, th, y) ==
  /\ \A i \in 1 .. Len(r) :
       /\ IsMoment(th[r[i].at]) /\ IsPointOf(r[i], th[r[i].at].seen, th[r[i].at].lost)
       /\ IsBefore(th[r[i].at], y)
  /\ \A i, j \in 1 .. Len(r) : i < j => IsBefore(th[r[i].at], th[r[j].at])
  /\ \A i \in 2 .. Len(r) : ~ Incomparable(r[i - 1], r[i])

LEMMA ToldLater ==
  ASSUME NEW r, NEW th, NEW y, IsTold(r, th, y), NEW z,
         \A x : IsMoment(x) /\ IsBefore(x, y) => IsBefore(x, z)
  PROVE  IsTold(r, th, z)
BY DEF IsTold

LEMMA ToldAgain ==
  ASSUME NEW r, NEW th, NEW y, IsTold(r, th, y), NEW new, \A i \in 1 .. Len(r) : new[r[i].at] = th[r[i].at]
  PROVE  IsTold(r, new, y)
BY DEF IsTold

LEMMA ToldPushed ==
  ASSUME NEW r, Len(r) \in Nat, NEW th, NEW y, IsTold(r, th, y), IsMoment(y),
         NEW p, NEW new, IsPushed(new, r, p), NEW told,
         \A i \in 1 .. Len(r) : told[r[i].at] = th[r[i].at],
         told[p.at].run = y.run, told[p.at].seen = y.seen, told[p.at].total = y.total,
         IsPointOf(p, y.seen, told[p.at].lost)
  PROVE  IsTold(new, told, y)
<1> DEFINE L == Len(r)
           n == Len(new)
           d == L - n + 1
<1>1. /\ n \in 1 .. L + 1
      /\ \A i \in 1 .. n : new[i] = IF i = n THEN p ELSE r[d + i]
      /\ n > 1 => ~ Incomparable(Newest(r), p)
  BY DEF IsPushed
<1>2. L \in Nat
  OBVIOUS
<1> HIDE DEF L, n
<1>3. \A i \in 1 .. n : i # n => d + i \in 1 .. L
  BY <1>1, <1>2
<1> DEFINE q == told[p.at]
<1>4. IsMoment(q) /\ IsPointOf(p, q.seen, q.lost) /\ IsBefore(q, y)
  <2>1. IsMoment(q)
    BY DEF IsMoment
  <2> QED BY <2>1, SameIsBefore
<1>5. \A x : IsMoment(x) /\ IsBefore(x, y) => IsBefore(x, q)
  <2>1. ASSUME NEW x, IsMoment(x), IsBefore(x, y) PROVE IsBefore(x, q)
    BY <2>1, Zenon DEF IsBefore
  <2> QED BY <2>1
<1>6. \A i \in 1 .. L :
        /\ IsMoment(told[r[i].at]) /\ IsPointOf(r[i], told[r[i].at].seen, told[r[i].at].lost)
        /\ IsBefore(told[r[i].at], y)
  BY DEF IsTold, L
<1>7. \A i, j \in 1 .. L : i < j => IsBefore(told[r[i].at], told[r[j].at])
  BY DEF IsTold, L
<1>8. ASSUME NEW i \in 1 .. n
      PROVE  /\ IsMoment(told[new[i].at]) /\ IsPointOf(new[i], told[new[i].at].seen, told[new[i].at].lost)
             /\ IsBefore(told[new[i].at], y)
  <2>1. CASE i = n
    <3>1. new[i] = p
      BY <1>1, <2>1
    <3> QED BY <1>4, <3>1
  <2>2. CASE i # n
    <3>1. new[i] = r[d + i] /\ d + i \in 1 .. L
      BY <1>1, <1>3, <2>2
    <3> HIDE DEF d
    <3> QED BY <1>6, <3>1
  <2> QED BY <2>1, <2>2
<1>9. ASSUME NEW i \in 1 .. n, NEW j \in 1 .. n, i < j
      PROVE  IsBefore(told[new[i].at], told[new[j].at])
  <2>1. i # n
    BY <1>1, <1>2, <1>9
  <2>2. new[i] = r[d + i] /\ d + i \in 1 .. L
    BY <1>1, <1>3, <2>1
  <2>3. CASE j = n
    <3>1. new[j] = p
      BY <1>1, <2>3
    <3> HIDE DEF d, q
    <3>2. IsBefore(told[r[d + i].at], q)
      BY <1>5, <1>6, <2>2
    <3> QED BY <2>2, <3>1, <3>2 DEF q
  <2>4. CASE j # n
    <3>1. new[j] = r[d + j] /\ d + j \in 1 .. L
      BY <1>1, <1>3, <2>4
    <3>2. d + i < d + j
      BY <1>1, <1>2, <1>9
    <3> HIDE DEF d
    <3> QED BY <1>7, <2>2, <3>1, <3>2
  <2> QED BY <2>3, <2>4
<1>10. ASSUME NEW i \in 2 .. n PROVE ~ Incomparable(new[i - 1], new[i])
  <2>1. /\ i - 1 \in 1 .. n /\ i \in 1 .. n /\ i - 1 # n /\ n > 1
        /\ d + (i - 1) = (d + i) - 1
    BY <1>1, <1>2
  <2>2. new[i - 1] = r[d + (i - 1)] /\ d + (i - 1) \in 1 .. L
    BY <1>1, <1>3, <2>1
  <2>3. CASE i = n
    <3>1. new[i] = p /\ d + (i - 1) = L
      BY <1>1, <1>2, <2>1, <2>3
    <3> QED BY <1>1, <2>1, <2>2, <3>1 DEF Newest, L
  <2>4. CASE i # n
    <3>1. new[i] = r[d + i] /\ d + i \in 1 .. L
      BY <1>1, <1>3, <2>1, <2>4
    <3>2. d + i \in 2 .. L
      BY <1>1, <1>2, <2>2, <3>1
    <3>3. \A m \in 2 .. L : ~ Incomparable(r[m - 1], r[m])
      BY DEF IsTold, L
    <3> HIDE DEF d
    <3> QED BY <2>1, <2>2, <3>1, <3>2, <3>3
  <2> QED BY <2>3, <2>4
<1> QED BY <1>8, <1>9, <1>10 DEF IsTold, n

TruthInv == IsMoment(Stage) /\ IsTold(ring, truth, Stage)

LEMMA NothingIsTold ==
  ASSUME NEW th, NEW y
  PROVE  IsTold(<<>>, th, y)
<1>1. Len(<<>>) = 0 /\ 1 .. 0 = {} /\ 2 .. 0 = {}
  OBVIOUS
<1> QED BY <1>1 DEF IsTold

LEMMA TruthBegins ==
  ASSUME Init
  PROVE  TruthInv
<1>1. Stage.run = 1 /\ Stage.seen = NoneSeen /\ Stage.total = 0
  BY DEF Init, Stage
<1>2. IsMoment(Stage)
  BY <1>1, NoneAreSeen DEF IsMoment
<1>3. ring = <<>>
  BY DEF Init
<1> QED BY <1>2, <1>3, NothingIsTold DEF TruthInv

\* A scrape tells the truth of its moment.
LEMMA TruthScraped ==
  ASSUME ServerInv, RingInv, TruthInv, NEW how \in Damages, Scrape(how)
  PROVE  IsTold(ring', truth', Stage)
<1>1. now \notin Times(chart) /\ \E curated, point : ScrapeOf(how, curated, point)
  BY ScrapeIs
<1>2. PICK curated, point : ScrapeOf(how, curated, point)
  BY <1>1
<1>3. IsRing(ring) /\ IsTimed(ring, now) /\ now \notin Times(ring) /\ now \in Int
  BY <1>1 DEF RingInv, ServerInv
<1>4. \A i \in 1 .. Len(ring) : ring[i].at < now
  BY <1>3, TimesAre
<1>5. \A i \in 1 .. Len(ring) : ring[i].at # now
  <2>1. ASSUME NEW i \in 1 .. Len(ring) PROVE ring[i].at # now
    <3>1. i \in DOMAIN ring
      BY <1>3 DEF IsRing
    <3> QED BY <1>3, <3>1 DEF Times
  <2> QED BY <2>1
<1>6. IsTold(ring, truth, Stage) /\ IsMoment(Stage)
  BY DEF TruthInv
<1> DEFINE q == [run |-> run, seen |-> seen, total |-> total, lost |-> how = "_count"]
<1>7. truth' = [t \in Times(ring') |-> IF t = now THEN q ELSE truth[t]]
  BY <1>2, Zenon DEF ScrapeOf
<1>8. q.run = Stage.run /\ q.seen = Stage.seen /\ q.total = Stage.total /\ q.lost = (how = "_count")
  BY DEF Stage
<1> HIDE DEF q
<1>9. ring' = <<>> \/ ring' = ring \/ (point # NoPoint /\ ring' = PushPoint(ring, point))
  BY <1>2, Zenon DEF ScrapeOf
<1>10. CASE ring' = <<>>
  BY <1>10, NothingIsTold
<1>11. CASE ring' = ring
  <2>1. \A i \in 1 .. Len(ring) : truth'[ring[i].at] = truth[ring[i].at]
    <3>1. ASSUME NEW i \in 1 .. Len(ring) PROVE truth'[ring[i].at] = truth[ring[i].at]
      <4>1. ring[i].at \in Times(ring')
        BY <1>3, <1>11 DEF Times, IsRing
      <4> QED BY <1>5, <1>7, <4>1
    <3> QED BY <3>1
  <2>2. IsTold(ring, truth', Stage)
    BY <1>6, <2>1, ToldAgain
  <2> QED BY <1>11, <2>2
<1>12. CASE point # NoPoint /\ ring' = PushPoint(ring, point)
  <2>1. point.at = now
    BY <1>2, <1>12, SnapshotTime, Zenon DEF ScrapeOf
  <2>2. IsPointOf(point, seen, how = "_count")
    BY <1>2, <1>12, SnapshotIs, ServerIs, Zenon DEF ScrapeOf
  <2> DEFINE r == PushPoint(ring, point)
  <2>3. IsPushed(r, ring, point)
    BY <1>3, <1>4, <2>1, PushedIs
  <2>4. ring' = r
    BY <1>12
  <2> HIDE DEF r
  <2> DEFINE told == [t \in Times(ring) \cup {now} |-> IF t = now THEN q ELSE truth[t]]
  <2>5. told[point.at] = q
    BY <2>1
  <2>6. \A i \in 1 .. Len(ring) : told[ring[i].at] = truth[ring[i].at]
    <3>1. ASSUME NEW i \in 1 .. Len(ring) PROVE told[ring[i].at] = truth[ring[i].at]
      <4>1. ring[i].at \in Times(ring)
        BY <1>3 DEF Times, IsRing
      <4> QED BY <1>5, <4>1
    <3> QED BY <3>1
  <2>7. \A t \in Times(ring) \cup {now} : t \in Times(r) => truth'[t] = told[t]
    BY <1>7, <2>4
  <2> HIDE DEF told
  <2>8. IsPointOf(point, Stage.seen, told[point.at].lost)
    BY <1>8, <2>2, <2>5, Zenon DEF Stage
  <2>9. Len(ring) \in Nat
    BY <1>3 DEF IsRing
  <2>10. told[point.at].run = Stage.run /\ told[point.at].seen = Stage.seen /\ told[point.at].total = Stage.total
    BY <1>8, <2>5
  <2>11. IsTold(r, told, Stage)
    BY <1>6, <2>3, <2>6, <2>8, <2>9, <2>10, ToldPushed
  <2>12. \A i \in 1 .. Len(r) : truth'[r[i].at] = told[r[i].at]
    <3>1. ASSUME NEW i \in 1 .. Len(r) PROVE truth'[r[i].at] = told[r[i].at]
      <4>1. r[i].at \in Times(r)
        BY <2>3 DEF IsPushed, Times, IsRing
      <4>2. r[i] = IF i = Len(r) THEN point ELSE ring[Len(ring) - Len(r) + 1 + i]
        BY <2>3 DEF IsPushed
      <4>3. Len(r) \in 1 .. Len(ring) + 1
        BY <2>3 DEF IsPushed
      <4>4. r[i].at \in Times(ring) \cup {now}
        <5>1. CASE i = Len(r)
          BY <2>1, <4>2, <5>1
        <5>2. CASE i # Len(r)
          <6> DEFINE k == Len(ring) - Len(r) + 1 + i
          <6>1. k \in 1 .. Len(ring)
            BY <2>9, <4>3, <5>2
          <6>2. r[i] = ring[k]
            BY <4>2, <5>2
          <6> HIDE DEF k
          <6> QED BY <1>3, <6>1, <6>2 DEF Times, IsRing
        <5> QED BY <5>1, <5>2
      <4> QED BY <2>7, <4>1, <4>4
    <3> QED BY <3>1
  <2>13. IsTold(r, truth', Stage)
    BY <2>11, <2>12, ToldAgain
  <2> QED BY <2>4, <2>13
<1> QED BY <1>9, <1>10, <1>11, <1>12

LEMMA TruthStays ==
  ASSUME ServerInv, RingInv, TruthInv, [Next]_vars
  PROVE  TruthInv'
<1>1. IsMoment(Stage) /\ IsTold(ring, truth, Stage)
  BY DEF TruthInv
<1>2. ASSUME Stage' = Stage, ring' = ring, truth' = truth PROVE TruthInv'
  BY <1>1, <1>2, Zenon DEF TruthInv
<1>3. ASSUME NEW z, Stage' = z, ring' = ring, truth' = truth, IsMoment(z),
             \A x : IsMoment(x) /\ IsBefore(x, Stage) => IsBefore(x, z)
      PROVE  TruthInv'
  <2>1. IsTold(ring, truth, z)
    BY <1>1, <1>3, ToldLater
  <2> QED BY <1>3, <2>1, Zenon DEF TruthInv
<1>4. CASE Elapse
  BY <1>2, <1>4 DEF Elapse, serverVars, Stage
<1>5. CASE UNCHANGED vars
  BY <1>2, <1>5 DEF vars, serverVars, Stage
<1>6. ASSUME NEW v \in Latencies, Observe(v) PROVE TruthInv'
  <2> DEFINE z == [run |-> run, seen |-> [seen EXCEPT ![v] = seen[v] + 1], total |-> total + 1]
  <2>1. Stage' = z /\ ring' = ring /\ truth' = truth
    BY <1>6 DEF Observe, Stage
  <2>2. z.run = Stage.run /\ z.total = Stage.total + 1 /\ z.seen = [Stage.seen EXCEPT ![v] = Stage.seen[v] + 1]
    BY DEF Stage
  <2> HIDE DEF z
  <2>3. IsMoment(z) /\ \A x : IsMoment(x) /\ IsBefore(x, Stage) => IsBefore(x, z)
    BY <1>1, <2>2, ObservingMoves
  <2> QED BY <1>3, <2>1, <2>3
<1>7. ASSUME NEW version \in DOMAIN Layouts, Restart(version) PROVE TruthInv'
  <2> DEFINE z == [run |-> run + 1, seen |-> NoneSeen, total |-> total]
  <2>1. Stage' = z /\ ring' = ring /\ truth' = truth
    BY <1>7 DEF Restart, Stage
  <2>2. z.run = Stage.run + 1 /\ z.total = Stage.total /\ z.seen = NoneSeen
    BY DEF Stage
  <2> HIDE DEF z
  <2>3. IsMoment(z) /\ \A x : IsMoment(x) /\ IsBefore(x, Stage) => IsBefore(x, z)
    BY <1>1, <2>2, RestartingMoves
  <2> QED BY <1>3, <2>1, <2>3
<1>8. ASSUME NEW how \in Damages, Scrape(how) PROVE TruthInv'
  <2>1. IsTold(ring', truth', Stage)
    BY <1>8, TruthScraped
  <2>2. Stage' = Stage
    <3>1. seen' = seen /\ run' = run /\ total' = total
      BY <1>8, Zenon DEF Scrape, serverVars
    <3> QED BY <3>1 DEF Stage
  <2> QED BY <1>1, <2>1, <2>2, Zenon DEF TruthInv
<1> QED BY <1>4, <1>5, <1>6, <1>7, <1>8 DEF Next

EstimateInv ==
  \/ estimate = NoEstimate /\ (Len(ring) < 2 \/ Newest(ring).at # Newest(chart).at)
  \/ estimate = Estimate(ring)

LEMMA EstimateStays ==
  ASSUME ServerInv, RingInv, EstimateInv, [Next]_vars
  PROVE  EstimateInv'
<1>1. ASSUME estimate' = estimate, ring' = ring, chart' = chart PROVE EstimateInv'
  BY <1>1, Zenon DEF EstimateInv
<1>2. CASE Elapse
  BY <1>1, <1>2 DEF Elapse
<1>3. CASE UNCHANGED vars
  BY <1>1, <1>3 DEF vars
<1>4. ASSUME NEW v \in Latencies, Observe(v) PROVE EstimateInv'
  BY <1>1, <1>4 DEF Observe
<1>5. ASSUME NEW version \in DOMAIN Layouts, Restart(version) PROVE EstimateInv'
  BY <1>1, <1>5 DEF Restart
<1>6. ASSUME NEW how \in Damages, Scrape(how) PROVE EstimateInv'
  <2>1. now \notin Times(chart) /\ \E curated, point : ScrapeOf(how, curated, point)
    BY <1>6, ScrapeIs
  <2>2. PICK curated, point : ScrapeOf(how, curated, point)
    BY <2>1
  <2>3. IsRing(ring) /\ IsTimed(ring, now) /\ now \notin Times(ring) /\ now \in Int /\ IsRing(chart) /\ IsTimed(chart, now)
    BY <2>1 DEF RingInv, ServerInv
  <2>4. /\ \A i \in 1 .. Len(ring) : ring[i].at < now
        /\ \A i \in 1 .. Len(chart) : chart[i].at < now
    BY <2>1, <2>3, TimesAre
  <2>5. chart' = PushHistory(chart, now, 0)
    BY <2>2, Zenon DEF ScrapeOf
  <2>6. Newest(chart').at = now
    BY <2>3, <2>4, <2>5, ChartedIs
  <2>7. CASE point = NoPoint
    <3>1. estimate' = NoEstimate /\ (ring' = <<>> \/ ring' = ring)
      BY <2>2, <2>7, Zenon DEF ScrapeOf
    <3>2. Len(ring) < 2 \/ Newest(ring).at # now
      <4>1. SUFFICES ASSUME ~ (Len(ring) < 2) PROVE Newest(ring).at # now
        OBVIOUS
      <4>2. Len(ring) \in 1 .. Len(ring)
        BY <2>3, <4>1 DEF IsRing
      <4>3. ring[Len(ring)].at < now /\ ring[Len(ring)].at \in Int
        BY <2>3, <2>4, <4>2 DEF IsTimed
      <4> QED BY <2>3, <4>3 DEF Newest
    <3>3. Len(<<>>) < 2
      OBVIOUS
    <3> QED BY <2>6, <3>1, <3>2, <3>3, Zenon DEF EstimateInv
  <2>8. CASE point # NoPoint
    BY <2>2, <2>8, Zenon DEF ScrapeOf, EstimateInv
  <2> QED BY <2>7, <2>8
<1> QED BY <1>2, <1>3, <1>4, <1>5, <1>6 DEF Next

LEMMA EstimateBegins ==
  ASSUME Init
  PROVE  EstimateInv
<1>1. Len(<<>>) < 2
  OBVIOUS
<1> QED BY <1>1, Zenon DEF Init, EstimateInv

\* In a ring all points have the bounds of the first, later points later times,
\* and between points of two processes there are neighbours of two.
LEMMA AlongRing ==
  ASSUME NEW r, IsRing(r), NEW th, NEW y, IsTold(r, th, y), Len(r) > 0,
         \A i \in 1 .. Len(r) : r[i].at \in Int
  PROVE  \A i \in 1 .. Len(r) :
           /\ DOMAIN r[i].buckets = DOMAIN r[1].buckets
           /\ i > 1 => r[1].at < r[i].at
           /\ th[r[i].at].run = th[r[1].at].run
              \/ \E j \in 2 .. Len(r) : th[r[j - 1].at].run # th[r[j].at].run
<1> DEFINE n == Len(r) - 1
           Bounds(i) == DOMAIN r[i].buckets
           Run(i) == th[r[i].at].run
           at(i) == r[i].at
           split == \E j \in 2 .. Len(r) : Run(j - 1) # Run(j)
           good(i) == Bounds(i) = Bounds(1) /\ (i > 1 => at(1) < at(i)) /\ (Run(i) = Run(1) \/ split)
           T == {k \in 0 .. n : good(k + 1)}
<1>1. Len(r) \in Nat /\ n \in Nat
  BY DEF IsRing
<1>2. \A i \in 2 .. Len(r) : Bounds(i) = Bounds(i - 1) /\ at(i - 1) < at(i)
  <2>1. ASSUME NEW i \in 2 .. Len(r) PROVE Bounds(i) = Bounds(i - 1) /\ at(i - 1) < at(i)
    <3>1. i \in 1 .. Len(r) /\ i - 1 \in 1 .. Len(r)
      BY <1>1
    <3>2. r[i].at \in Int /\ r[i - 1].at \in Int
      BY <3>1
    <3>3. Bounds(i) = Bounds(i - 1) /\ ~ (at(i) <= at(i - 1))
      BY Zenon DEF IsTold, Incomparable
    <3> QED BY <3>2, <3>3
  <2> QED BY <2>1
<1>3. \A i \in 1 .. Len(r) : at(i) \in Int
  OBVIOUS
<1>4. \A i \in 2 .. Len(r) : Run(i) = Run(i - 1) \/ split
  OBVIOUS
<1> HIDE DEF Bounds, Run, at, split
<1>5. 0 \in T
  BY <1>1
<1>6. ASSUME NEW k \in 1 .. n, k - 1 \in T PROVE k \in T
  <2>1. good(k)
    BY <1>6
  <2>2. k + 1 \in 2 .. Len(r) /\ (k + 1) - 1 = k /\ k \in 1 .. Len(r) /\ k + 1 \in 1 .. Len(r) /\ 1 \in 1 .. Len(r)
    BY <1>1
  <2>3. Bounds(k + 1) = Bounds(k) /\ at(k) < at(k + 1)
    BY <1>2, <2>2
  <2>4. Run(k + 1) = Run(k) \/ split
    BY <1>4, <2>2
  <2>5. at(1) \in Int /\ at(k) \in Int /\ at(k + 1) \in Int
    BY <1>3, <2>2
  <2>6. at(1) < at(k + 1)
    <3>1. CASE k = 1
      BY <2>3, <3>1
    <3>2. CASE k > 1
      BY <2>1, <2>3, <2>5, <3>2
    <3> QED BY <2>2, <3>1, <3>2
  <2>7. good(k + 1)
    BY <2>1, <2>3, <2>4, <2>6
  <2> QED BY <2>7
<1> HIDE DEF n
<1>7. \A k \in 0 .. n : k \in T
  BY <1>1, <1>5, <1>6, Climb
<1>8. ASSUME NEW i \in 1 .. Len(r) PROVE good(i)
  <2>1. i - 1 \in 0 .. n /\ (i - 1) + 1 = i
    BY <1>1 DEF n
  <2>2. good((i - 1) + 1)
    BY <1>7, <2>1
  <2> QED BY <2>1, <2>2
<1> QED BY <1>8 DEF Bounds, Run, at, split

\* The differences of a window, from x to y.
IsDifference(d, x, y) ==
  /\ DOMAIN d \subseteq 0 .. Inf /\ Inf \in DOMAIN d
  /\ \A le \in DOMAIN d : d[le] = Observed(y.seen, le) - Observed(x.seen, le)

LEMMA DeltasAre ==
  ASSUME RingInv, TruthInv, ServerInv, ~ (Len(ring) < 2),
         NEW d, d = Deltas(ring), NEW x, x = truth[ring[1].at], NEW y, y = truth[Newest(ring).at]
  PROVE  /\ IsMoment(x) /\ IsMoment(y) /\ IsBefore(x, y)
         /\ IsDifference(d, x, y) /\ DOMAIN d = DOMAIN ring[1].buckets
         /\ ring[1].at \in Int /\ Newest(ring).at \in Int /\ ring[1].at < Newest(ring).at
         /\ x.run = y.run \/ \E j \in 2 .. Len(ring) : truth[ring[j - 1].at].run # truth[ring[j].at].run
<1> DEFINE n == Len(ring)
<1>1. n \in Nat /\ n > 1 /\ 1 \in 1 .. n /\ n \in 1 .. n /\ IsRing(ring)
  BY DEF RingInv, IsRing
<1>2. IsTold(ring, truth, Stage)
  BY DEF TruthInv
<1>3. \A i \in 1 .. n : ring[i].at \in Int
  BY DEF RingInv, IsTimed
<1>4. /\ DOMAIN ring[n].buckets = DOMAIN ring[1].buckets
      /\ ring[1].at < ring[n].at
      /\ truth[ring[n].at].run = truth[ring[1].at].run
         \/ \E j \in 2 .. n : truth[ring[j - 1].at].run # truth[ring[j].at].run
  BY <1>1, <1>2, <1>3, AlongRing
<1>5. /\ IsMoment(x) /\ IsPointOf(ring[1], x.seen, x.lost)
      /\ IsMoment(y) /\ IsPointOf(ring[n], y.seen, y.lost)
      /\ IsBefore(x, y)
  BY <1>1, <1>2 DEF IsTold, Newest
<1>6. DOMAIN d = DOMAIN ring[1].buckets /\ \A le \in DOMAIN d : d[le] = ring[n].buckets[le] - ring[1].buckets[le]
  BY DEF Deltas, Newest
<1>7. IsDifference(d, x, y)
  BY <1>4, <1>5, <1>6, Zenon DEF IsDifference, IsPointOf
<1> QED BY <1>1, <1>3, <1>4, <1>5, <1>6, <1>7 DEF Newest

\* Its last is all of them.
LEMMA DifferenceTotal ==
  ASSUME NEW x, IsMoment(x), NEW y, IsMoment(y), NEW d, IsDifference(d, x, y)
  PROVE  d[Max(DOMAIN d)] = Sum(y.seen) - Sum(x.seen) /\ Sum(y.seen) \in Nat /\ Sum(x.seen) \in Nat
<1>1. DOMAIN d \subseteq 0 .. Inf /\ Inf \in DOMAIN d /\ d[Inf] = Observed(y.seen, Inf) - Observed(x.seen, Inf)
  BY DEF IsDifference
<1>2. Max(DOMAIN d) \in DOMAIN d /\ Inf <= Max(DOMAIN d)
  BY <1>1, BoundsAre
<1>3. Max(DOMAIN d) = Inf
  BY <1>1, <1>2, LatenciesAre
<1> QED BY <1>1, <1>3, ObservedAll, SumOfCounts DEF IsMoment

\* Within one process they count what came in between.
LEMMA OneProcess ==
  ASSUME NEW x, IsMoment(x), NEW y, IsMoment(y), IsBefore(x, y), x.run = y.run,
         NEW d, IsDifference(d, x, y), NEW c, c = [v \in Latencies |-> y.seen[v] - x.seen[v]]
  PROVE  /\ IsCounts(c) /\ IsCumulative(d, c) /\ Sum(c) = Sum(y.seen) - Sum(x.seen)
         /\ \A le \in DOMAIN d : d[le] >= 0
<1>1. IsCounts(x.seen) /\ IsCounts(y.seen) /\ \A v \in Latencies : x.seen[v] <= y.seen[v]
  BY DEF IsMoment, IsBefore
<1>2. /\ IsCounts(c) /\ Sum(c) = Sum(y.seen) - Sum(x.seen)
      /\ \A le : Observed(c, le) = Observed(y.seen, le) - Observed(x.seen, le)
  BY <1>1, ObservedSince
<1>3. IsCumulative(d, c)
  BY <1>2 DEF IsCumulative, IsDifference
<1>4. \A le \in DOMAIN d : d[le] \in Nat
  BY <1>2, <1>3, ObservedIs DEF IsCumulative
<1> QED BY <1>2, <1>3, <1>4

\* A window that gives an estimate gives this one.
IsEstimate(e, d, elapsed) ==
  /\ e.elapsed = elapsed
  /\ e.observations = d[Max(DOMAIN d)]
  /\ \A q \in DOMAIN e.quantile :
       d[Max(DOMAIN d)] > 0 /\ q \in 1 .. 100 /\ e.quantile[q] = Quantile(d, q)

LEMMA EstimateIs ==
  ASSUME ~ (Len(ring) < 2), NEW d, d = Deltas(ring), d[Max(DOMAIN d)] \in Int
  PROVE  IF \E le \in DOMAIN d : d[le] < 0 THEN Estimate(ring) = NoEstimate
         ELSE IsEstimate(Estimate(ring), d, Newest(ring).at - ring[1].at)
<1> DEFINE top == d[Max(DOMAIN d)]
           quantiles == IF top <= 0 THEN [q \in {} |-> 0] ELSE [q \in {50, 95, 99} |-> Quantile(d, q)]
           mean == IF top <= 0 \/ Newest(ring).count <= ring[1].count THEN NoFraction
                   ELSE <<Newest(ring).sum - ring[1].sum, Newest(ring).count - ring[1].count>>
           e == [elapsed |-> Newest(ring).at - ring[1].at, observations |-> top,
                 mean |-> mean, quantile |-> quantiles]
<1>1. Estimate(ring) = IF \E le \in DOMAIN d : d[le] < 0 THEN NoEstimate ELSE e
  BY Zenon DEF Estimate
<1>2. \A q \in DOMAIN quantiles : top > 0 /\ q \in 1 .. 100 /\ quantiles[q] = Quantile(d, q)
  <2>1. top \in Int
    OBVIOUS
  <2> HIDE DEF top
  <2>2. CASE top <= 0
    <3>1. quantiles = [q \in {} |-> 0]
      BY <2>2
    <3>2. DOMAIN quantiles = {}
      BY <3>1
    <3> QED BY <3>2
  <2>3. CASE ~ (top <= 0)
    <3> DEFINE levels == {50, 95, 99}
               f == [q \in levels |-> Quantile(d, q)]
    <3>1. quantiles = f /\ top > 0
      BY <2>1, <2>3
    <3>2. \A q \in levels : q \in 1 .. 100
      OBVIOUS
    <3> HIDE DEF levels
    <3>3. DOMAIN f = levels /\ \A q \in levels : f[q] = Quantile(d, q)
      OBVIOUS
    <3> HIDE DEF quantiles, f
    <3> QED BY <3>1, <3>2, <3>3, Zenon
  <2> QED BY <2>2, <2>3
<1> HIDE DEF quantiles, mean
<1>3. e.elapsed = Newest(ring).at - ring[1].at /\ e.observations = top /\ e.quantile = quantiles
  OBVIOUS
<1> HIDE DEF e
<1>4. IsEstimate(e, d, Newest(ring).at - ring[1].at)
  BY <1>2, <1>3, Zenon DEF IsEstimate
<1> QED BY <1>1, <1>4, Zenon

\* A restart between two snapshots of one window was not in the counts read.
LEMMA RestartIsHidden ==
  ASSUME RingInv, TruthInv, NEW j \in 2 .. Len(ring),
         truth[ring[j - 1].at].run # truth[ring[j].at].run
  PROVE  RestartHidden
<1>1. Len(ring) \in Nat
  BY DEF RingInv, IsRing
<1>2. j \in 1 .. Len(ring) /\ j - 1 \in 1 .. Len(ring)
  BY <1>1
<1>3. ASSUME NEW i \in 1 .. Len(ring)
      PROVE  ring[i].count = CountRead(ring[i].at) /\ CountRead(ring[i].at) \in Nat
  <2>1. IsPointOf(ring[i], truth[ring[i].at].seen, truth[ring[i].at].lost) /\ IsMoment(truth[ring[i].at])
    BY DEF TruthInv, IsTold
  <2>2. Sum(truth[ring[i].at].seen) \in Nat
    BY <2>1, SumOfCounts DEF IsMoment
  <2>3. ring[i].count = CountRead(ring[i].at)
    BY <2>1, Zenon DEF IsPointOf, CountRead
  <2>4. CountRead(ring[i].at) = 0 \/ CountRead(ring[i].at) = Sum(truth[ring[i].at].seen)
    BY Zenon DEF CountRead
  <2>5. CountRead(ring[i].at) \in Nat
    BY <2>2, <2>4
  <2> QED BY <2>3, <2>5
<1>4. ~ (ring[j].count < ring[j - 1].count)
  BY Zenon DEF TruthInv, IsTold, Incomparable
<1>5. CountRead(ring[j].at) >= CountRead(ring[j - 1].at)
  BY <1>2, <1>3, <1>4
<1> QED BY <1>5 DEF RestartHidden

LEMMA EstimateIsOf ==
  ASSUME ServerInv, RingInv, TruthInv, EstimateInv
  PROVE  EstimateIsHonest
<1>1. CASE estimate = NoEstimate /\ (Len(ring) < 2 \/ Newest(ring).at # Newest(chart).at)
  BY <1>1, Zenon DEF EstimateIsHonest
<1>2. CASE estimate = Estimate(ring) /\ Len(ring) < 2
  <2>1. estimate = NoEstimate
    BY <1>2, Zenon DEF Estimate
  <2> QED BY <1>2, <2>1, Zenon DEF EstimateIsHonest
<1>3. CASE estimate = Estimate(ring) /\ ~ (Len(ring) < 2)
  <2> DEFINE d == Deltas(ring)
             a == ring[1].at
             b == Newest(ring).at
             x == truth[a]
             y == truth[b]
             c == SeenBetween(a, b)
  <2>1. /\ IsMoment(x) /\ IsMoment(y) /\ IsBefore(x, y)
        /\ IsDifference(d, x, y) /\ DOMAIN d = DOMAIN ring[1].buckets
        /\ a \in Int /\ b \in Int /\ a < b
        /\ x.run = y.run \/ \E j \in 2 .. Len(ring) : truth[ring[j - 1].at].run # truth[ring[j].at].run
    BY <1>3, DeltasAre
  <2>2. d[Max(DOMAIN d)] = Sum(y.seen) - Sum(x.seen) /\ Sum(y.seen) \in Nat /\ Sum(x.seen) \in Nat
    <3> HIDE DEF d, x, y
    <3> QED BY <2>1, DifferenceTotal
  <2>3. x.run = y.run =>
          /\ IsCounts(c) /\ IsCumulative(d, c) /\ Sum(c) = Sum(y.seen) - Sum(x.seen)
          /\ \A le \in DOMAIN d : d[le] >= 0
    <3>1. c = [v \in Latencies |-> y.seen[v] - x.seen[v]]
      BY DEF SeenBetween
    <3> HIDE DEF c, d, x, y
    <3> QED BY <2>1, <3>1, OneProcess
  <2>4. IF \E le \in DOMAIN d : d[le] < 0 THEN estimate = NoEstimate
        ELSE IsEstimate(estimate, d, b - a)
    <3>1. d[Max(DOMAIN d)] \in Int
      <4> DEFINE top == d[Max(DOMAIN d)]
      <4> HIDE DEF top
      <4>1. top \in Int
        BY <2>2 DEF top
      <4> QED BY <4>1 DEF top
    <3> QED BY <1>3, <3>1, EstimateIs, Zenon
  <2>5. (\A le \in DOMAIN d : d[le] \in Int)
    <3> HIDE DEF d, x, y
    <3>1. \A le \in DOMAIN d : Observed(y.seen, le) \in Nat /\ Observed(x.seen, le) \in Nat
      BY <2>1, ObservedIs DEF IsMoment
    <3> QED BY <2>1, <3>1 DEF IsDifference
  <2>6. CASE \E le \in DOMAIN d : d[le] < 0
    <3>1. x.run # y.run
      <4> HIDE DEF d, x, y, c
      <4> QED BY <2>3, <2>5, <2>6
    <3>2. PICK j \in 2 .. Len(ring) : truth[ring[j - 1].at].run # truth[ring[j].at].run
      BY <2>1, <3>1
    <3>3. RestartHidden
      BY <3>2, RestartIsHidden
    <3>4. estimate = NoEstimate
      BY <2>4, <2>6, Zenon
    <3> QED BY <3>3, <3>4, Zenon DEF EstimateIsHonest
  <2>7. CASE ~ \E le \in DOMAIN d : d[le] < 0
    <3>1. IsEstimate(estimate, d, b - a)
      BY <2>4, <2>7, Zenon
    <3>2. estimate # NoEstimate
      <4>1. estimate.elapsed = b - a /\ b - a # 0
        BY <2>1, <3>1 DEF IsEstimate
      <4>2. NoEstimate.elapsed = 0
        BY DEF NoEstimate
      <4> QED BY <4>1, <4>2
    <3>3. estimate.elapsed = b - a /\ estimate.observations = Sum(y.seen) - Sum(x.seen)
      BY <2>2, <3>1, Zenon DEF IsEstimate
    <3>4. estimate.observations <= y.total - x.total
      <4>1. x.total \in Nat /\ y.total \in Nat
        BY <2>1 DEF IsMoment
      <4>2. Sum(y.seen) - Sum(x.seen) <= y.total - x.total
        <5> HIDE DEF d, x, y, c
        <5>1. CASE x.run = y.run
          BY <2>1, <2>2, <4>1, <5>1 DEF IsBefore
        <5>2. CASE x.run # y.run
          <6>1. Sum(y.seen) <= y.total - x.total
            BY <2>1, <5>2 DEF IsBefore
          <6> QED BY <2>2, <4>1, <6>1
        <5> QED BY <5>1, <5>2
      <4> HIDE DEF x, y
      <4> QED BY <3>3, <4>2
    <3>5. ASSUME x.run = y.run
          PROVE  /\ estimate.observations = Sum(c)
                 /\ \A q \in DOMAIN estimate.quantile :
                      estimate.quantile[q] # NoFraction => InBucket(estimate.quantile[q], Rank(c, q), DOMAIN d)
      <4> HIDE DEF d, x, y, c
      <4>1. /\ IsCounts(c) /\ IsCumulative(d, c) /\ Sum(c) = Sum(y.seen) - Sum(x.seen)
            /\ d[Max(DOMAIN d)] = Sum(c)
        BY <2>2, <2>3, <3>5
      <4>2. ASSUME NEW q \in DOMAIN estimate.quantile, estimate.quantile[q] # NoFraction
            PROVE  InBucket(estimate.quantile[q], Rank(c, q), DOMAIN d)
        <5>1. d[Max(DOMAIN d)] > 0 /\ q \in 1 .. 100 /\ estimate.quantile[q] = Quantile(d, q)
          BY <3>1 DEF IsEstimate
        <5>2. Sum(c) > 0
          BY <4>1, <5>1
        <5> QED BY <4>1, <4>2, <5>1, <5>2, QuantileIs
      <4> QED BY <3>3, <4>1, <4>2
    <3> QED BY <2>1, <3>2, <3>3, <3>4, <3>5, Zenon DEF EstimateIsHonest
  <2> QED BY <2>6, <2>7
<1> QED BY <1>1, <1>2, <1>3 DEF EstimateInv

\* histogram.rs:104 and :152: whatever was scraped when, the percentiles shown
\* are of what the server observed between the ends of their window, exact
\* within one of its processes; and they are missing only for a reason.
THEOREM EstimatesAreHonest == Spec => []EstimateIsHonest
<1> DEFINE Inv == ServerInv /\ RingInv /\ TruthInv /\ EstimateInv
<1>1. Init => Inv
  BY ServerBegins, RingsBegin, TruthBegins, EstimateBegins
<1>2. Inv /\ [Next]_vars => Inv'
  BY ServerStays, RingsStay, TruthStays, EstimateStays
<1>3. Inv => EstimateIsHonest
  BY EstimateIsOf
<1> QED BY <1>1, <1>2, <1>3, PTL DEF Spec
=============================================================================
