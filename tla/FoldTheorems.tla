---------------------------- MODULE FoldTheorems ----------------------------
(***************************************************************************)
(* What the proofs about sums, counts and folds over finite sets rest on.  *)
(*                                                                         *)
(* The library's induction theorems take a predicate as a parameter, which *)
(* no installed prover can instantiate.  Its WFMin does not: a non-empty   *)
(* family of subsets of a finite set has a minimal member.  Here every     *)
(* induction is that fact about the family of the counterexamples.         *)
(***************************************************************************)
EXTENDS Integers, FiniteSets, FiniteSetsExt, FiniteSetTheorems,
        WellFoundedInduction, TLAPS

\* Induction over the subsets of a finite set.
LEMMA Minimal ==
  ASSUME NEW S, IsFiniteSet(S), NEW F, F \subseteq SUBSET S, F # {}
  PROVE  \E s \in F : \A t \in F : t \subseteq s => t = s
<1>1. IsWellFoundedOn(StrictSubsetOrdering(S), SUBSET S)
  BY FS_StrictSubsetOrderingWellFounded, FS_FiniteSubsetsOfFinite
<1>2. PICK s \in F : \A t \in F : ~ (<<t, s>> \in StrictSubsetOrdering(S))
  BY <1>1, WFMin
<1>3. \A t \in F : t \subseteq s => t = s
  BY <1>2 DEF StrictSubsetOrdering
<1> QED BY <1>3

\* Induction over the naturals.
LEMMA LeastNatural ==
  ASSUME NEW T \in SUBSET Nat, T # {}
  PROVE  \E n \in T : \A m \in T : n <= m
<1>1. PICK top \in T : TRUE
  OBVIOUS
<1> DEFINE Below(k) == 0 .. k
           F == {Below(k) : k \in {n \in T : n <= top}}
<1>2. IsFiniteSet(0 .. top)
  BY FS_Interval
<1> DEFINE All == 0 .. top
<1>3. F \subseteq SUBSET All
  BY <1>1
<1>. F # {}
  BY <1>1
<1> HIDE DEF F, All
<1>4. PICK s \in F : \A t \in F : t \subseteq s => t = s
  <2>1. IsFiniteSet(All)
    BY <1>2 DEF All
  <2> QED BY <2>1, <1>3, Minimal
<1>5. PICK n \in T : n <= top /\ s = Below(n)
  BY <1>4 DEF F
<1>6. ASSUME NEW m \in T, ~ (n <= m) PROVE FALSE
  <2>1. m <= top /\ Below(m) \in F
    BY <1>1, <1>5, <1>6 DEF F
  <2>2. Below(m) \subseteq Below(n)
    BY <1>6
  <2>3. n \in Below(n) /\ n \notin Below(m)
    BY <1>6
  <2> QED BY <1>4, <1>5, <2>1, <2>2, <2>3
<1> QED BY <1>6

\* Of the numbers from 0 to n, all are in a set that 0 is in and that goes on.
LEMMA Climb ==
  ASSUME NEW n \in Nat, NEW T, 0 \in T, \A i \in 1 .. n : i - 1 \in T => i \in T
  PROVE  \A i \in 0 .. n : i \in T
<1> DEFINE U == {i \in 0 .. n : i \notin T}
<1>1. SUFFICES ASSUME U # {} PROVE FALSE
  OBVIOUS
<1>2. U \in SUBSET Nat
  OBVIOUS
<1> HIDE DEF U
<1>3. PICK i \in U : \A m \in U : i <= m
  BY <1>1, <1>2, LeastNatural
<1>4. i \in 0 .. n /\ i \notin T
  BY <1>3 DEF U
<1>5. i # 0
  BY <1>4
<1>6. i \in 1 .. n /\ i - 1 \in 0 .. n /\ ~ (i <= i - 1)
  BY <1>4, <1>5
<1>7. i - 1 \in T
  BY <1>3, <1>6 DEF U
<1> QED BY <1>4, <1>6, <1>7

\* A finite set of numbers that is not empty has a greatest member.
LEMMA Greatest ==
  ASSUME NEW S \in SUBSET Int, IsFiniteSet(S), S # {}
  PROVE  \E n \in S : \A m \in S : m <= n
<1> DEFINE Above(k) == {m \in S : m > k}
           F == {Above(k) : k \in S}
           All == S
<1>1. F \subseteq SUBSET All /\ F # {} /\ IsFiniteSet(All)
  OBVIOUS
<1> HIDE DEF F, All
<1>2. PICK s \in F : \A t \in F : t \subseteq s => t = s
  BY <1>1, Minimal
<1>3. PICK n \in S : s = Above(n)
  BY <1>2 DEF F
<1>4. ASSUME NEW m \in S, ~ (m <= n) PROVE FALSE
  <2>1. Above(m) \in F
    BY DEF F
  <2>. Above(m) \subseteq Above(n)
    <3>1. m \in Int /\ n \in Int /\ m > n
      BY <1>4
    <3>2. \A k \in Int : k > m => k > n
      BY <3>1
    <3> QED BY <3>2
  <2>2. m \in Above(n) /\ m \notin Above(m)
    BY <1>4
  <2> QED BY <1>2, <1>3, <2>1, <2>2
<1> QED BY <1>4

\* It is what Max of FiniteSetsExt chooses.
LEMMA MaxIs ==
  ASSUME NEW S \in SUBSET Int, IsFiniteSet(S), S # {}
  PROVE  Max(S) \in S /\ \A m \in S : m <= Max(S)
<1>1. \E n \in S : \A m \in S : n >= m
  BY Greatest
<1> QED BY <1>1 DEF Max

-----------------------------------------------------------------------------
(* Folds.  g is the fold of step over the subsets of S, taking the element *)
(* pick chooses of each: what MapThenFoldSet of the library computes, with *)
(* its operators as functions.                                             *)

IsFold(g, pick, step, base, S) ==
  g = [s \in SUBSET S |->
         IF s = {} THEN base ELSE step[<<pick[s], g[s \ {pick[s]}]>>]]

Picks(pick, S) == \A s \in SUBSET S : s # {} => pick[s] \in s

\* Two folds agree where both are defined.
LEMMA FoldUnique ==
  ASSUME NEW S, IsFiniteSet(S), NEW U \in SUBSET S,
         NEW pick, NEW step, NEW base, NEW g, NEW h, Picks(pick, S),
         IsFold(g, pick, step, base, S), IsFold(h, pick, step, base, U)
  PROVE  \A s \in SUBSET U : g[s] = h[s]
<1> DEFINE F == {s \in SUBSET U : g[s] # h[s]}
<1>1. SUFFICES ASSUME F # {} PROVE FALSE
  OBVIOUS
<1>2. IsFiniteSet(U)
  BY FS_Subset
<1>3. PICK s \in F : \A t \in F : t \subseteq s => t = s
  <2> HIDE DEF F
  <2>1. F \subseteq SUBSET U
    BY DEF F
  <2> QED BY <1>1, <1>2, <2>1, Minimal
<1>4. s # {}
  BY <1>3 DEF IsFold
<1>5. pick[s] \in s
  BY <1>3, <1>4 DEF Picks
<1>6. g[s \ {pick[s]}] = h[s \ {pick[s]}]
  BY <1>3, <1>5
<1>7. g[s] = step[<<pick[s], g[s \ {pick[s]}]>>] /\ h[s] = step[<<pick[s], h[s \ {pick[s]}]>>]
  BY <1>3, <1>4 DEF IsFold
<1> QED BY <1>3, <1>6, <1>7

\* The fold of a set is that of each of its subsets.
LEMMA FoldRestrict ==
  ASSUME NEW S, NEW U \in SUBSET S, NEW pick, NEW step, NEW base, NEW g,
         Picks(pick, S), IsFold(g, pick, step, base, S)
  PROVE  IsFold([s \in SUBSET U |-> g[s]], pick, step, base, U)
<1> DEFINE h == [s \in SUBSET U |-> g[s]]
<1>1. ASSUME NEW s \in SUBSET U
      PROVE  h[s] = IF s = {} THEN base ELSE step[<<pick[s], h[s \ {pick[s]}]>>]
  <2>1. s \in SUBSET S /\ s \ {pick[s]} \in SUBSET U
    OBVIOUS
  <2>2. h[s \ {pick[s]}] = g[s \ {pick[s]}] /\ h[s] = g[s]
    BY <2>1
  <2>3. g[s] = IF s = {} THEN base ELSE step[<<pick[s], g[s \ {pick[s]}]>>]
    BY <2>1 DEF IsFold
  <2> QED BY <2>2, <2>3
<1> QED BY <1>1 DEF IsFold

\* Every fold over a finite set exists.
LEMMA FoldExists ==
  ASSUME NEW S, IsFiniteSet(S), NEW pick, NEW step, NEW base, Picks(pick, S)
  PROVE  \E g : IsFold(g, pick, step, base, S)
<1> DEFINE Has(U) == \E g : IsFold(g, pick, step, base, U)
           F == {U \in SUBSET S : ~ Has(U)}
<1>1. SUFFICES ASSUME F # {} PROVE FALSE
  OBVIOUS
<1>2. PICK T \in F : \A t \in F : t \subseteq T => t = T
  <2> HIDE DEF F
  <2>1. F \subseteq SUBSET S
    BY DEF F
  <2> QED BY <1>1, <2>1, Minimal
<1> DEFINE G(U) == CHOOSE g : IsFold(g, pick, step, base, U)
           g == [s \in SUBSET T |->
                   IF s = {} THEN base
                   ELSE step[<<pick[s], G(s \ {pick[s]})[s \ {pick[s]}]>>]]
<1>3. \A U \in SUBSET T : U # T => IsFold(G(U), pick, step, base, U)
  BY <1>2
<1> HIDE DEF G
<1>4. ASSUME NEW s \in SUBSET T, s # T PROVE g[s] = G(s)[s]
  <2>1. CASE s = {}
    BY <1>3, <1>4, <2>1 DEF IsFold
  <2>2. CASE s # {}
    <3> DEFINE u == s \ {pick[s]}
    <3>1. pick[s] \in s /\ u \in SUBSET s /\ u # T /\ u \in SUBSET T
      BY <1>2, <1>4, <2>2 DEF Picks
    <3>2. IsFiniteSet(s) /\ Picks(pick, s)
      BY <1>2, FS_Subset DEF Picks
    <3>3. IsFold(G(s), pick, step, base, s) /\ IsFold(G(u), pick, step, base, u)
      BY <1>3, <1>4, <3>1
    <3>4. \A v \in SUBSET u : G(s)[v] = G(u)[v]
      BY <3>1, <3>2, <3>3, FoldUnique
    <3>5. G(s)[s] = step[<<pick[s], G(s)[u]>>]
      BY <2>2, <3>3 DEF IsFold
    <3>6. g[s] = step[<<pick[s], G(u)[u]>>]
      BY <2>2
    <3> QED BY <3>4, <3>5, <3>6
  <2> QED BY <2>1, <2>2
<1>5. ASSUME NEW s \in SUBSET T
      PROVE  g[s] = IF s = {} THEN base ELSE step[<<pick[s], g[s \ {pick[s]}]>>]
  <2>1. CASE s = {}
    BY <2>1
  <2>2. CASE s # {}
    <3>1. pick[s] \in s
      BY <1>2, <2>2 DEF Picks
    <3>2. s \ {pick[s]} \in SUBSET T /\ s \ {pick[s]} # T
      BY <3>1
    <3>3. g[s \ {pick[s]}] = G(s \ {pick[s]})[s \ {pick[s]}]
      BY <1>4, <3>2
    <3> QED BY <2>2, <3>3
  <2> QED BY <2>1, <2>2
<1>6. g = [s \in SUBSET T |-> g[s]]
  OBVIOUS
<1> HIDE DEF g
<1>7. IsFold(g, pick, step, base, T)
  BY <1>5, <1>6 DEF IsFold
<1> QED BY <1>2, <1>7

-----------------------------------------------------------------------------
(* Sums.  MapThenSumSet(h, S) of the library is Total([x \in S |-> h(x)], S): *)
(* a proof that needs it unfolds the operator once, for its own h, and cites  *)
(* SumExists and TotalIs.                                                     *)

Pick(s) == CHOOSE x \in s : TRUE

IsSum(g, f, S) ==
  g = [s \in SUBSET S |-> IF s = {} THEN 0 ELSE f[Pick(s)] + g[s \ {Pick(s)}]]

Total(f, S) == (CHOOSE g : IsSum(g, f, S))[S]

\* Pick picks an element.
LEMMA PickIn == \A s : s # {} => Pick(s) \in s
BY DEF Pick

\* The sum over a finite set exists, and is a number.
LEMMA SumExists ==
  ASSUME NEW S, IsFiniteSet(S), NEW f, \A x \in S : f[x] \in Int
  PROVE  \E g : IsSum(g, f, S) /\ \A s \in SUBSET S : g[s] \in Int
<1> DEFINE pick == [s \in SUBSET S |-> Pick(s)]
           step == [p \in S \X Int |-> f[p[1]] + p[2]]
<1>1. Picks(pick, S)
  BY PickIn DEF Picks
<1>2. \A x \in S, n \in Int : step[<<x, n>>] = f[x] + n
  OBVIOUS
<1>3. \A s \in SUBSET S : pick[s] = Pick(s)
  OBVIOUS
<1> HIDE DEF pick, step
<1>4. PICK g : IsFold(g, pick, step, 0, S)
  BY <1>1, FoldExists
<1>5. \A s \in SUBSET S : g[s] \in Int
  <2> DEFINE F == {s \in SUBSET S : g[s] \notin Int}
  <2>1. SUFFICES ASSUME F # {} PROVE FALSE
    OBVIOUS
  <2>2. F \subseteq SUBSET S
    OBVIOUS
  <2> HIDE DEF F
  <2>3. PICK s \in F : \A t \in F : t \subseteq s => t = s
    BY <2>1, <2>2, Minimal
  <2>4. s \in SUBSET S /\ s # {} /\ g[s] \notin Int
    BY <2>3, <1>4 DEF F, IsFold
  <2>5. pick[s] \in s /\ pick[s] \in S
    BY <2>4, <1>1 DEF Picks
  <2>6. g[s \ {pick[s]}] \in Int
    BY <2>3, <2>4, <2>5 DEF F
  <2>7. g[s] = f[pick[s]] + g[s \ {pick[s]}]
    BY <1>2, <1>4, <2>4, <2>5, <2>6 DEF IsFold
  <2> QED BY <2>4, <2>5, <2>6, <2>7
<1>6. ASSUME NEW s \in SUBSET S
      PROVE  g[s] = IF s = {} THEN 0 ELSE f[Pick(s)] + g[s \ {Pick(s)}]
  <2>1. CASE s = {}
    BY <1>4, <2>1 DEF IsFold
  <2>2. CASE s # {}
    <3>1. pick[s] \in S /\ pick[s] = Pick(s) /\ g[s \ {pick[s]}] \in Int
      BY <1>1, <1>3, <1>5, <2>2 DEF Picks
    <3>2. g[s] = step[<<pick[s], g[s \ {pick[s]}]>>]
      BY <1>4, <2>2 DEF IsFold
    <3> QED BY <1>2, <2>2, <3>1, <3>2
  <2> QED BY <2>1, <2>2
<1>7. g = [s \in SUBSET S |-> g[s]]
  BY <1>4 DEF IsFold
<1>8. IsSum(g, f, S)
  BY <1>6, <1>7 DEF IsSum
<1> QED BY <1>5, <1>8

\* Sums of the same numbers are the same.
LEMMA SumUnique ==
  ASSUME NEW S, IsFiniteSet(S), NEW U \in SUBSET S, NEW f, NEW e,
         \A x \in U : f[x] = e[x], NEW g, NEW h, IsSum(g, f, S), IsSum(h, e, U)
  PROVE  \A s \in SUBSET U : g[s] = h[s]
<1> DEFINE F == {s \in SUBSET U : g[s] # h[s]}
<1>1. SUFFICES ASSUME F # {} PROVE FALSE
  OBVIOUS
<1>2. IsFiniteSet(U) /\ F \subseteq SUBSET U
  BY FS_Subset
<1> HIDE DEF F
<1>3. PICK s \in F : \A t \in F : t \subseteq s => t = s
  BY <1>1, <1>2, Minimal
<1>4. s \in SUBSET U /\ g[s] # h[s]
  BY <1>3 DEF F
<1>5. s # {}
  BY <1>4 DEF IsSum
<1>6. Pick(s) \in s
  BY <1>5, PickIn
<1>7. g[s \ {Pick(s)}] = h[s \ {Pick(s)}]
  BY <1>3, <1>4, <1>6 DEF F
<1>8. g[s] = f[Pick(s)] + g[s \ {Pick(s)}] /\ h[s] = e[Pick(s)] + h[s \ {Pick(s)}]
  BY <1>4, <1>5 DEF IsSum
<1> QED BY <1>4, <1>6, <1>7, <1>8

\* Whatever sums over S gives the total of each subset of S.
LEMMA TotalIs ==
  ASSUME NEW S, IsFiniteSet(S), NEW f, NEW e, \A x \in S : f[x] \in Int /\ e[x] = f[x],
         NEW g, IsSum(g, f, S)
  PROVE  \A s \in SUBSET S : g[s] = Total(e, s) /\ g[s] \in Int
<1> SUFFICES ASSUME NEW s \in SUBSET S PROVE g[s] = Total(e, s) /\ g[s] \in Int
  OBVIOUS
<1>1. IsFiniteSet(s) /\ \A x \in s : e[x] \in Int
  BY FS_Subset
<1>2. PICK h : IsSum(h, e, s) /\ \A t \in SUBSET s : h[t] \in Int
  BY <1>1, SumExists
<1> DEFINE k == CHOOSE k : IsSum(k, e, s)
<1>3. IsSum(k, e, s)
  BY <1>2
<1> HIDE DEF k
<1>4. g[s] = k[s]
  <2>1. \A x \in s : f[x] = e[x]
    OBVIOUS
  <2>2. \A t \in SUBSET s : g[t] = k[t]
    BY <2>1, <1>3, SumUnique
  <2> QED BY <2>2
<1>5. h[s] = k[s]
  <2>1. \A x \in s : e[x] = e[x]
    OBVIOUS
  <2> QED BY <2>1, <1>1, <1>2, <1>3, SumUnique
<1>6. k[s] = Total(e, s)
  BY DEF k, Total
<1> QED BY <1>2, <1>4, <1>5, <1>6

\* The library's sum of a function over a set.
LEMMA SumSetIsTotal ==
  ASSUME NEW S, IsFiniteSet(S), NEW f, \A x \in S : f[x] \in Int
  PROVE  MapThenSumSet(LAMBDA x : f[x], S) = Total(f, S)
<1> DEFINE P(g) == g = [s \in SUBSET S |->
                          IF s = {} THEN 0
                          ELSE f[CHOOSE x \in s : TRUE] + g[s \ {CHOOSE x \in s : TRUE}]]
           G == CHOOSE g : P(g)
<1>1. MapThenSumSet(LAMBDA x : f[x], S) = G[S]
  BY DEF MapThenSumSet, MapThenFoldSet
<1>2. PICK g : IsSum(g, f, S)
  BY SumExists
<1>3. P(g)
  BY <1>2 DEF IsSum, Pick
<1>4. P(G)
  BY <1>3
<1> HIDE DEF G
<1>5. IsSum(G, f, S)
  BY <1>4 DEF IsSum, Pick
<1>6. G[S] = Total(f, S)
  BY <1>5, TotalIs
<1> QED BY <1>1, <1>6

\* A sum of numbers is a number; nothing sums to zero.
LEMMA TotalType ==
  ASSUME NEW S, IsFiniteSet(S), NEW f, \A x \in S : f[x] \in Int
  PROVE  Total(f, S) \in Int
<1>1. PICK g : IsSum(g, f, S) /\ \A s \in SUBSET S : g[s] \in Int
  BY SumExists
<1>2. g[S] = Total(f, S)
  BY <1>1, TotalIs
<1> QED BY <1>1, <1>2

LEMMA TotalEmpty ==
  ASSUME NEW f
  PROVE  Total(f, {}) = 0
<1>1. IsFiniteSet({}) /\ \A x \in {} : f[x] \in Int
  BY FS_EmptySet
<1>2. PICK g : IsSum(g, f, {})
  BY <1>1, SumExists
<1>3. g[{}] = Total(f, {})
  BY <1>1, <1>2, TotalIs
<1>4. g[{}] = 0
  BY <1>2 DEF IsSum
<1> QED BY <1>3, <1>4

\* Any element may be taken out first.
LEMMA TotalRemove ==
  ASSUME NEW S, IsFiniteSet(S), NEW f, \A x \in S : f[x] \in Int, NEW a \in S
  PROVE  Total(f, S) = f[a] + Total(f, S \ {a})
<1>1. PICK g : IsSum(g, f, S) /\ \A s \in SUBSET S : g[s] \in Int
  BY SumExists
<1>2. \A s \in SUBSET S : g[s] = Total(f, s)
  BY <1>1, TotalIs
<1> DEFINE F == {s \in SUBSET S : \E x \in s : g[s] # f[x] + g[s \ {x}]}
<1>3. ASSUME F # {} PROVE FALSE
  <2>1. F \subseteq SUBSET S
    OBVIOUS
  <2> HIDE DEF F
  <2>2. PICK s \in F : \A t \in F : t \subseteq s => t = s
    BY <1>3, <2>1, Minimal
  <2>3. PICK x \in s : g[s] # f[x] + g[s \ {x}]
    BY <2>2 DEF F
  <2> DEFINE y == Pick(s)
  <2>4. s \in SUBSET S /\ x \in S
    BY <2>2, <2>3 DEF F
  <2>5. y \in s /\ y \in S
    BY <2>3, <2>4, PickIn
  <2> HIDE DEF y
  <2>6. g[s] = f[y] + g[s \ {y}]
    BY <1>1, <2>3, <2>4 DEF IsSum, y
  <2>7. x # y
    BY <2>3, <2>6
  <2>8. s \ {y} \in SUBSET S /\ s \ {x} \in SUBSET S
    BY <2>4
  <2>9. s \ {y} \notin F /\ s \ {x} \notin F
    BY <2>2, <2>3, <2>5
  <2>10. g[s \ {y}] = f[x] + g[(s \ {y}) \ {x}]
    BY <2>3, <2>7, <2>8, <2>9 DEF F
  <2>11. g[s \ {x}] = f[y] + g[(s \ {x}) \ {y}]
    BY <2>5, <2>7, <2>8, <2>9 DEF F
  <2>12. (s \ {y}) \ {x} = (s \ {x}) \ {y}
    OBVIOUS
  <2> DEFINE v == (s \ {y}) \ {x}
  <2>13. g[v] \in Int /\ f[x] \in Int /\ f[y] \in Int
    BY <1>1, <2>4, <2>5
  <2> HIDE DEF v
  <2>14. g[s \ {y}] = f[x] + g[v] /\ g[s \ {x}] = f[y] + g[v]
    BY <2>10, <2>11, <2>12 DEF v
  <2> QED BY <2>3, <2>6, <2>13, <2>14
<1>4. S \in SUBSET S /\ S \ {a} \in SUBSET S
  OBVIOUS
<1> QED BY <1>2, <1>3, <1>4

\* Sums of numbers that are no smaller, over no fewer elements.
LEMMA TotalMonotone ==
  ASSUME NEW S, IsFiniteSet(S), NEW U \in SUBSET S, NEW f, NEW e,
         \A x \in U : e[x] \in Int /\ e[x] <= f[x],
         \A x \in S : f[x] \in Int, \A x \in S \ U : f[x] >= 0
  PROVE  Total(e, U) <= Total(f, S)
<1> DEFINE F == {s \in SUBSET S : ~ (Total(e, s \cap U) <= Total(f, s))}
<1>1. ASSUME F # {} PROVE FALSE
  <2>1. F \subseteq SUBSET S
    OBVIOUS
  <2> HIDE DEF F
  <2>2. PICK s \in F : \A t \in F : t \subseteq s => t = s
    BY <1>1, <2>1, Minimal
  <2>3. s \in SUBSET S /\ ~ (Total(e, s \cap U) <= Total(f, s))
    BY <2>2 DEF F
  <2>4. s # {}
    <3>1. SUFFICES ASSUME s = {} PROVE FALSE
      OBVIOUS
    <3>2. s \cap U = {}
      BY <3>1
    <3> QED BY <2>3, <3>1, <3>2, TotalEmpty
  <2>5. PICK x \in s : TRUE
    BY <2>4
  <2> DEFINE r == s \ {x}
  <2>6. IsFiniteSet(s) /\ IsFiniteSet(r) /\ r \in SUBSET S /\ x \in S
    BY <2>3, FS_Subset
  <2>7. r \notin F
    BY <2>2, <2>5
  <2>8. Total(e, r \cap U) <= Total(f, r)
    BY <2>6, <2>7 DEF F
  <2>9. \A y \in s : f[y] \in Int
    BY <2>3
  <2>10. Total(f, s) = f[x] + Total(f, r)
    BY <2>5, <2>6, <2>9, TotalRemove
  <2>11. Total(f, r) \in Int /\ f[x] \in Int
    BY <2>6, <2>9, TotalType
  <2>12. IsFiniteSet(s \cap U) /\ IsFiniteSet(r \cap U) /\ \A y \in s \cap U : e[y] \in Int
    BY <2>6, FS_Intersection
  <2>13. Total(e, r \cap U) \in Int
    BY <2>12, TotalType
  <2>14. CASE x \in U
    <3>1. (s \cap U) \ {x} = r \cap U /\ x \in s \cap U
      BY <2>14
    <3>2. Total(e, s \cap U) = e[x] + Total(e, (s \cap U) \ {x})
      BY <2>12, <3>1, TotalRemove
    <3>3. e[x] \in Int /\ e[x] <= f[x]
      BY <2>14
    <3>4. Total(e, s \cap U) = e[x] + Total(e, r \cap U)
      BY <3>1, <3>2
    <3> HIDE DEF r
    <3> QED BY <2>3, <2>8, <2>10, <2>11, <2>13, <3>3, <3>4
  <2>15. CASE x \notin U
    <3>1. s \cap U = r \cap U
      BY <2>15
    <3>2. f[x] >= 0
      BY <2>6, <2>15
    <3>3. Total(e, s \cap U) = Total(e, r \cap U)
      BY <3>1
    <3> HIDE DEF r
    <3> QED BY <2>3, <2>8, <2>10, <2>11, <2>13, <3>2, <3>3
  <2> QED BY <2>14, <2>15
<1>2. S \cap U = U
  OBVIOUS
<1> QED BY <1>1, <1>2

\* Sums of the same numbers, said of totals.
LEMMA TotalEqual ==
  ASSUME NEW S, IsFiniteSet(S), NEW f, NEW e, \A x \in S : f[x] \in Int /\ e[x] = f[x]
  PROVE  Total(e, S) = Total(f, S)
<1>1. PICK g : IsSum(g, f, S)
  BY SumExists
<1>2. g[S] = Total(e, S)
  BY <1>1, TotalIs
<1>3. g[S] = Total(f, S)
  BY <1>1, TotalIs
<1> QED BY <1>2, <1>3

\* A factor of every number is one of the sum.
LEMMA TotalScale ==
  ASSUME NEW S, IsFiniteSet(S), NEW f, \A x \in S : f[x] \in Int, NEW m \in Int,
         NEW e, \A x \in S : e[x] = m * f[x]
  PROVE  Total(e, S) = m * Total(f, S)
<1> DEFINE F == {s \in SUBSET S : ~ (Total(e, s) = m * Total(f, s))}
<1>1. ASSUME F # {} PROVE FALSE
  <2>1. F \subseteq SUBSET S
    OBVIOUS
  <2> HIDE DEF F
  <2>2. PICK s \in F : \A t \in F : t \subseteq s => t = s
    BY <1>1, <2>1, Minimal
  <2>3. s \in SUBSET S /\ ~ (Total(e, s) = m * Total(f, s))
    BY <2>2 DEF F
  <2>4. s # {}
    <3>1. SUFFICES ASSUME s = {} PROVE FALSE
      OBVIOUS
    <3>2. Total(e, s) = 0 /\ Total(f, s) = 0
      BY <3>1, TotalEmpty
    <3> QED BY <2>3, <3>2
  <2>5. PICK x \in s : TRUE
    BY <2>4
  <2> DEFINE r == s \ {x}
  <2>6. IsFiniteSet(s) /\ IsFiniteSet(r) /\ r \in SUBSET S /\ x \in S
    BY <2>3, FS_Subset
  <2>7. Total(e, r) = m * Total(f, r)
    BY <2>2, <2>5, <2>6 DEF F
  <2>8. \A y \in s : f[y] \in Int /\ e[y] \in Int
    BY <2>3
  <2>9. Total(f, s) = f[x] + Total(f, r) /\ Total(e, s) = e[x] + Total(e, r)
    BY <2>5, <2>6, <2>8, TotalRemove
  <2>10. Total(f, r) \in Int /\ f[x] \in Int /\ e[x] = m * f[x]
    BY <2>6, <2>8, TotalType
  <2>11. ASSUME NEW a \in Int, NEW b \in Int PROVE m * a + m * b = m * (a + b)
    OBVIOUS
  <2> HIDE DEF r
  <2>12. m * f[x] + m * Total(f, r) = m * (f[x] + Total(f, r))
    BY <2>10, <2>11
  <2> QED BY <2>3, <2>7, <2>9, <2>10, <2>12
<1> QED BY <1>1

\* The sum of differences is the difference of the sums.
LEMMA TotalDifference ==
  ASSUME NEW S, IsFiniteSet(S), NEW f, NEW g, \A x \in S : f[x] \in Int /\ g[x] \in Int,
         NEW e, \A x \in S : e[x] = f[x] - g[x]
  PROVE  Total(e, S) = Total(f, S) - Total(g, S)
<1> DEFINE F == {s \in SUBSET S : ~ (Total(e, s) = Total(f, s) - Total(g, s))}
<1>1. ASSUME F # {} PROVE FALSE
  <2>1. F \subseteq SUBSET S
    OBVIOUS
  <2> HIDE DEF F
  <2>2. PICK s \in F : \A t \in F : t \subseteq s => t = s
    BY <1>1, <2>1, Minimal
  <2>3. s \in SUBSET S /\ ~ (Total(e, s) = Total(f, s) - Total(g, s))
    BY <2>2 DEF F
  <2>4. s # {}
    <3>1. SUFFICES ASSUME s = {} PROVE FALSE
      OBVIOUS
    <3>2. Total(e, s) = 0 /\ Total(f, s) = 0 /\ Total(g, s) = 0
      BY <3>1, TotalEmpty
    <3> QED BY <2>3, <3>2
  <2>5. PICK x \in s : TRUE
    BY <2>4
  <2> DEFINE r == s \ {x}
  <2>6. IsFiniteSet(s) /\ IsFiniteSet(r) /\ r \in SUBSET S /\ x \in S
    BY <2>3, FS_Subset
  <2>7. Total(e, r) = Total(f, r) - Total(g, r)
    BY <2>2, <2>5, <2>6 DEF F
  <2>8. \A y \in s : f[y] \in Int /\ g[y] \in Int /\ e[y] \in Int
    BY <2>3
  <2>9. /\ Total(f, s) = f[x] + Total(f, r) /\ Total(g, s) = g[x] + Total(g, r)
        /\ Total(e, s) = e[x] + Total(e, r)
    BY <2>5, <2>6, <2>8, TotalRemove
  <2>10. /\ Total(f, r) \in Int /\ Total(g, r) \in Int
         /\ f[x] \in Int /\ g[x] \in Int /\ e[x] = f[x] - g[x]
    BY <2>6, <2>8, TotalType
  <2> HIDE DEF r
  <2> QED BY <2>3, <2>7, <2>9, <2>10
<1> QED BY <1>1

\* As many ones as there are elements.
LEMMA TotalOfOnes ==
  ASSUME NEW S, IsFiniteSet(S), NEW f, \A x \in S : f[x] = 1
  PROVE  Total(f, S) = Cardinality(S)
<1> DEFINE F == {s \in SUBSET S : Total(f, s) # Cardinality(s)}
<1>1. ASSUME F # {} PROVE FALSE
  <2>1. F \subseteq SUBSET S
    OBVIOUS
  <2> HIDE DEF F
  <2>2. PICK s \in F : \A t \in F : t \subseteq s => t = s
    BY <1>1, <2>1, Minimal
  <2>3. s \in SUBSET S /\ Total(f, s) # Cardinality(s)
    BY <2>2 DEF F
  <2>4. s # {}
    BY <2>3, TotalEmpty, FS_EmptySet
  <2>5. PICK x \in s : TRUE
    BY <2>4
  <2> DEFINE r == s \ {x}
  <2>6. IsFiniteSet(s) /\ IsFiniteSet(r) /\ r \in SUBSET S /\ x \in S
    BY <2>3, FS_Subset
  <2>7. Total(f, r) = Cardinality(r)
    BY <2>2, <2>5, <2>6 DEF F
  <2>8. \A y \in s : f[y] \in Int
    BY <2>3
  <2>9. Total(f, s) = 1 + Total(f, r)
    BY <2>5, <2>6, <2>8, TotalRemove
  <2>10. Cardinality(r) = Cardinality(s) - 1 /\ Cardinality(s) \in Nat /\ Cardinality(r) \in Nat
    BY <2>5, <2>6, FS_RemoveElement, FS_CardinalityType
  <2> HIDE DEF r
  <2> QED BY <2>3, <2>7, <2>9, <2>10
<1> QED BY <1>1

\* Two sets without a common element.
LEMMA TotalUnion ==
  ASSUME NEW S, IsFiniteSet(S), NEW f, \A x \in S : f[x] \in Int, NEW U \in SUBSET S
  PROVE  Total(f, S) = Total(f, U) + Total(f, S \ U)
<1> DEFINE F == {s \in SUBSET U : Total(f, s \cup (S \ U)) # Total(f, s) + Total(f, S \ U)}
<1>1. ASSUME F # {} PROVE FALSE
  <2>1. F \subseteq SUBSET U /\ IsFiniteSet(U) /\ IsFiniteSet(S \ U)
    BY FS_Subset
  <2> HIDE DEF F
  <2>2. PICK s \in F : \A t \in F : t \subseteq s => t = s
    BY <1>1, <2>1, Minimal
  <2>3. s \in SUBSET U /\ Total(f, s \cup (S \ U)) # Total(f, s) + Total(f, S \ U)
    BY <2>2 DEF F
  <2>4. Total(f, S \ U) \in Int
    BY <2>1, TotalType
  <2>5. s # {}
    <3>1. SUFFICES ASSUME s = {} PROVE FALSE
      OBVIOUS
    <3>2. s \cup (S \ U) = S \ U
      BY <3>1
    <3> QED BY <2>3, <2>4, <3>1, <3>2, TotalEmpty
  <2>6. PICK x \in s : TRUE
    BY <2>5
  <2> DEFINE r == s \ {x}
             w == s \cup (S \ U)
  <2>7. r \in SUBSET U /\ r \notin F
    BY <2>2, <2>3, <2>6
  <2>8. Total(f, r \cup (S \ U)) = Total(f, r) + Total(f, S \ U)
    BY <2>7 DEF F
  <2>9. IsFiniteSet(w) /\ IsFiniteSet(s) /\ IsFiniteSet(r) /\ w \ {x} = r \cup (S \ U)
    <3>1. w \in SUBSET S /\ s \in SUBSET S /\ r \in SUBSET S
      BY <2>3
    <3>2. x \in U
      BY <2>3, <2>6
    <3> QED BY <3>1, <3>2, FS_Subset
  <2>10. \A y \in w : f[y] \in Int
    BY <2>3
  <2>11. x \in w /\ x \in s
    BY <2>6
  <2> HIDE DEF w
  <2>12. Total(f, w) = f[x] + Total(f, w \ {x})
    BY <2>9, <2>10, <2>11, TotalRemove
  <2>13. \A y \in s : f[y] \in Int
    BY <2>3
  <2>14. Total(f, s) = f[x] + Total(f, r)
    BY <2>9, <2>11, <2>13, TotalRemove
  <2>15. f[x] \in Int /\ Total(f, r) \in Int
    BY <2>9, <2>11, <2>13, TotalType
  <2>16. Total(f, w \ {x}) = Total(f, r) + Total(f, S \ U)
    BY <2>8, <2>9
  <2>17. Total(f, w) # Total(f, s) + Total(f, S \ U)
    BY <2>3 DEF w
  <2> HIDE DEF r
  <2> QED BY <2>4, <2>12, <2>14, <2>15, <2>16, <2>17
<1>2. U \cup (S \ U) = S
  OBVIOUS
<1> QED BY <1>1, <1>2

\* Sums of the parts of a set that share no element.
LEMMA TotalOfTotals ==
  ASSUME NEW D, IsFiniteSet(D), NEW S, IsFiniteSet(S), NEW f, \A x \in S : f[x] \in Int,
         NEW part, \A d \in D : part[d] \subseteq S,
         \A c, d \in D : c # d => part[c] \cap part[d] = {},
         NEW sum, \A d \in D : sum[d] = Total(f, part[d])
  PROVE  Total(sum, D) = Total(f, UNION {part[d] : d \in D})
<1> DEFINE All(s) == UNION {part[d] : d \in s}
           F == {s \in SUBSET D : Total(sum, s) # Total(f, All(s))}
<1>1. ASSUME F # {} PROVE FALSE
  <2>1. F \subseteq SUBSET D
    OBVIOUS
  <2> HIDE DEF F
  <2>2. PICK s \in F : \A t \in F : t \subseteq s => t = s
    BY <1>1, <2>1, Minimal
  <2>3. s \in SUBSET D /\ Total(sum, s) # Total(f, All(s))
    BY <2>2 DEF F
  <2>4. s # {}
    <3>1. SUFFICES ASSUME s = {} PROVE FALSE
      OBVIOUS
    <3>2. All(s) = {}
      BY <3>1
    <3> QED BY <2>3, <3>1, <3>2, TotalEmpty
  <2>5. PICK x \in s : TRUE
    BY <2>4
  <2> DEFINE r == s \ {x}
  <2>6. r \in SUBSET D /\ r \notin F /\ x \in D
    BY <2>2, <2>3, <2>5
  <2>7. Total(sum, r) = Total(f, All(r))
    BY <2>6 DEF F
  <2>8. IsFiniteSet(s) /\ IsFiniteSet(All(s)) /\ All(s) \in SUBSET S
    BY <2>3, FS_Subset
  <2>9. \A d \in D : sum[d] \in Int
    <3> SUFFICES ASSUME NEW d \in D PROVE sum[d] \in Int
      OBVIOUS
    <3>1. IsFiniteSet(part[d]) /\ \A y \in part[d] : f[y] \in Int
      BY FS_Subset
    <3> QED BY <3>1, TotalType
  <2>10. \A d \in s : sum[d] \in Int
    BY <2>3, <2>9
  <2>11. Total(sum, s) = sum[x] + Total(sum, r)
    BY <2>5, <2>8, <2>10, TotalRemove
  <2>12. part[x] \in SUBSET All(s)
    BY <2>5
  <2>13. All(s) \ part[x] = All(r)
    <3>1. \A d \in r : part[d] \cap part[x] = {}
      BY <2>6
    <3> QED BY <3>1
  <2>14. \A y \in All(s) : f[y] \in Int
    BY <2>8
  <2> HIDE DEF All
  <2>15. Total(f, All(s)) = Total(f, part[x]) + Total(f, All(s) \ part[x])
    BY <2>8, <2>12, <2>14, TotalUnion
  <2> QED BY <2>3, <2>6, <2>7, <2>11, <2>13, <2>15
<1> QED BY <1>1

\* A weighted mean lies between the least and the greatest value: some value,
\* times the sum of the weights, is at most the weighted sum, and some at least.
LEMMA MeanIsBetween ==
  ASSUME NEW S, IsFiniteSet(S), S # {}, NEW u, NEW c, NEW e,
         \A x \in S : u[x] \in Int /\ c[x] \in Nat /\ e[x] = u[x] * c[x]
  PROVE  /\ \E x \in S : u[x] * Total(c, S) <= Total(e, S)
         /\ \E x \in S : u[x] * Total(c, S) >= Total(e, S)
<1> DEFINE V == {u[x] : x \in S}
           N == {- u[x] : x \in S}
<1>1. IsFiniteSet(V) /\ IsFiniteSet(N)
  <2>1. [x \in S |-> u[x]] \in Surjection(S, V) /\ [x \in S |-> - u[x]] \in Surjection(S, N)
    BY DEF Surjection
  <2> HIDE DEF V, N
  <2> QED BY <2>1, FS_Surjection
<1>2. V \in SUBSET Int /\ N \in SUBSET Int /\ V # {} /\ N # {}
  OBVIOUS
<1>3. PICK top \in V : \A m \in V : m <= top
  <2> HIDE DEF V
  <2> QED BY <1>1, <1>2, Greatest
<1>4. PICK low \in N : \A m \in N : m <= low
  <2> HIDE DEF N
  <2> QED BY <1>1, <1>2, Greatest
<1>5. PICK t \in S : \A x \in S : u[x] <= u[t]
  BY <1>3
<1>6. PICK b \in S : \A x \in S : u[b] <= u[x]
  <2>1. PICK b \in S : low = - u[b]
    BY <1>4
  <2>2. \A x \in S : - u[x] <= low
    BY <1>4
  <2> QED BY <2>1, <2>2
<1> HIDE DEF V, N
<1>7. \A x \in S : e[x] \in Int /\ u[b] * c[x] \in Int /\ u[t] * c[x] \in Int
  OBVIOUS
<1>8. \A x \in S : u[b] * c[x] <= e[x] /\ e[x] <= u[t] * c[x]
  <2>1. ASSUME NEW p \in Int, NEW q \in Int, p <= q, NEW k \in Nat PROVE p * k <= q * k
    BY <2>1
  <2> QED BY <1>5, <1>6, <2>1
<1> DEFINE below == [x \in S |-> u[b] * c[x]]
           above == [x \in S |-> u[t] * c[x]]
<1>9. /\ \A x \in S : below[x] = u[b] * c[x] /\ below[x] \in Int /\ below[x] <= e[x]
      /\ \A x \in S : above[x] = u[t] * c[x] /\ above[x] \in Int /\ e[x] <= above[x]
  BY <1>7, <1>8
<1> HIDE DEF below, above
<1>10. S \in SUBSET S /\ S \ S = {} /\ (\A x \in S : c[x] \in Int) /\ u[b] \in Int /\ u[t] \in Int
  OBVIOUS
<1>11. Total(below, S) = u[b] * Total(c, S) /\ Total(above, S) = u[t] * Total(c, S)
  <2>1. \A x \in S : c[x] \in Int
    BY <1>10
  <2>2. \A x \in S : below[x] = u[b] * c[x]
    BY <1>9
  <2>3. \A x \in S : above[x] = u[t] * c[x]
    BY <1>9
  <2>4. u[b] \in Int /\ u[t] \in Int
    BY <1>10
  <2>5. Total(below, S) = u[b] * Total(c, S)
    BY <2>1, <2>2, <2>4, TotalScale
  <2>6. Total(above, S) = u[t] * Total(c, S)
    BY <2>1, <2>3, <2>4, TotalScale
  <2> QED BY <2>5, <2>6
<1>12. Total(below, S) <= Total(e, S)
  BY <1>7, <1>9, <1>10, TotalMonotone
<1>13. Total(e, S) <= Total(above, S)
  BY <1>7, <1>9, <1>10, TotalMonotone
<1>14. Total(e, S) \in Int /\ Total(above, S) \in Int
  BY <1>7, <1>9, TotalType
<1> QED BY <1>11, <1>12, <1>13, <1>14

-----------------------------------------------------------------------------
(* Functions on 0 .. n that are defined from one number to the next.       *)

IsChain(c, step, base, n) ==
  c = [i \in 0 .. n |-> IF i = 0 THEN base ELSE step[<<i, c[i - 1]>>]]

LEMMA ChainExists ==
  ASSUME NEW n \in Nat, NEW V, NEW base \in V, NEW step \in [(1 .. n) \X V -> V]
  PROVE  \E c \in [0 .. n -> V] : IsChain(c, step, base, n)
<1> DEFINE Has(k) == \E c \in [0 .. k -> V] : IsChain(c, step, base, k)
           T == {k \in 0 .. n : ~ Has(k)}
<1>1. SUFFICES ASSUME T # {} PROVE FALSE
  <2>1. n \in 0 .. n
    OBVIOUS
  <2> QED BY <2>1
<1>2. PICK k \in T : \A m \in T : k <= m
  <2>1. T \in SUBSET Nat
    OBVIOUS
  <2> HIDE DEF T
  <2> QED BY <1>1, <2>1, LeastNatural
<1>3. k \in 0 .. n /\ ~ Has(k)
  OBVIOUS
<1>4. CASE k = 0
  <2> DEFINE c == [i \in 0 .. k |-> base]
  <2>1. c \in [0 .. k -> V]
    OBVIOUS
  <2>2. IsChain(c, step, base, k)
    BY <1>4 DEF IsChain
  <2> QED BY <1>3, <2>1, <2>2
<1>5. CASE k # 0
  <2>1. k - 1 \in 0 .. n /\ k - 1 \notin T
    BY <1>2, <1>3, <1>5
  <2>2. PICK c \in [0 .. k - 1 -> V] : IsChain(c, step, base, k - 1)
    BY <2>1
  <2> DEFINE d == [i \in 0 .. k |-> IF i = k THEN step[<<k, c[k - 1]>>] ELSE c[i]]
  <2>3. c[k - 1] \in V /\ <<k, c[k - 1]>> \in (1 .. n) \X V
    BY <1>3, <1>5
  <2>4. step[<<k, c[k - 1]>>] \in V
    BY <2>3
  <2>5. d \in [0 .. k -> V]
    BY <1>3, <1>5, <2>4
  <2>6. ASSUME NEW i \in 0 .. k
        PROVE  d[i] = IF i = 0 THEN base ELSE step[<<i, d[i - 1]>>]
    <3>1. CASE i = k
      <4>1. d[k] = step[<<k, c[k - 1]>>]
        BY <1>3
      <4>2. d[k - 1] = c[k - 1]
        BY <1>3, <1>5
      <4> HIDE DEF d
      <4> QED BY <1>5, <3>1, <4>1, <4>2
    <3>2. CASE i # k
      <4>1. i \in 0 .. k - 1 /\ d[i] = c[i] /\ (i # 0 => d[i - 1] = c[i - 1])
        BY <1>3, <3>2
      <4>2. c[i] = IF i = 0 THEN base ELSE step[<<i, c[i - 1]>>]
        BY <2>2, <4>1 DEF IsChain
      <4> HIDE DEF d
      <4>3. CASE i = 0
        BY <4>1, <4>2, <4>3
      <4>4. CASE i # 0
        <5>1. d[i - 1] = c[i - 1] /\ d[i] = c[i]
          BY <4>1, <4>4
        <5>2. c[i] = step[<<i, c[i - 1]>>]
          BY <4>2, <4>4
        <5> QED BY <4>4, <5>1, <5>2
      <4> QED BY <4>3, <4>4
    <3> QED BY <3>1, <3>2
  <2>7. IsChain(d, step, base, k)
    <3> HIDE DEF d
    <3>1. d = [i \in 0 .. k |-> d[i]]
      BY <2>5
    <3> QED BY <2>6, <3>1 DEF IsChain
  <2> QED BY <1>3, <2>5, <2>7
<1> QED BY <1>4, <1>5

-----------------------------------------------------------------------------
(* Ranks in a strict total order on a finite set.                          *)

IsTotalOrder(R, D) ==
  /\ \A i \in D : <<i, i>> \notin R
  /\ \A i, j \in D : i # j => <<i, j>> \in R \/ <<j, i>> \in R
  /\ \A i, j, k \in D : <<i, j>> \in R /\ <<j, k>> \in R => <<i, k>> \in R

IsRank(rank, R, D) == \A i \in D : rank[i] = Cardinality({j \in D : <<j, i>> \in R})

\* Each number below the size of the set is the rank of just one element.
LEMMA RanksCover ==
  ASSUME NEW D, IsFiniteSet(D), NEW R, IsTotalOrder(R, D), NEW rank, IsRank(rank, R, D)
  PROVE  /\ \A i, j \in D : rank[i] = rank[j] => i = j
         /\ \A k \in 0 .. Cardinality(D) - 1 : \E i \in D : rank[i] = k
<1> DEFINE Below(i) == {j \in D : <<j, i>> \in R}
           All == 0 .. Cardinality(D) - 1
<1>1. \A i \in D : Below(i) \in SUBSET D /\ i \notin Below(i) /\ rank[i] = Cardinality(Below(i))
  BY DEF IsTotalOrder, IsRank
<1>2. \A i \in D : IsFiniteSet(Below(i)) /\ rank[i] \in Nat
  <2> SUFFICES ASSUME NEW i \in D PROVE IsFiniteSet(Below(i)) /\ rank[i] \in Nat
    OBVIOUS
  <2>1. Below(i) \in SUBSET D /\ rank[i] = Cardinality(Below(i))
    BY <1>1
  <2> HIDE DEF Below
  <2>2. IsFiniteSet(Below(i))
    BY <2>1, FS_Subset
  <2> QED BY <2>1, <2>2, FS_CardinalityType
<1>3. ASSUME NEW i \in D, NEW j \in D, <<i, j>> \in R PROVE rank[i] # rank[j]
  <2>1. Below(i) \in SUBSET Below(j) /\ i \in Below(j)
    BY <1>3 DEF IsTotalOrder
  <2>2. Below(i) # Below(j)
    BY <1>1, <2>1
  <2> HIDE DEF Below
  <2> QED BY <1>1, <1>2, <2>1, <2>2, FS_Subset
<1>4. \A i, j \in D : rank[i] = rank[j] => i = j
  BY <1>3 DEF IsTotalOrder
<1>5. \A i \in D : rank[i] \in All
  <2> SUFFICES ASSUME NEW i \in D PROVE rank[i] \in All
    OBVIOUS
  <2>1. Below(i) \in SUBSET D /\ Below(i) # D
    BY <1>1
  <2> HIDE DEF Below
  <2>2. Cardinality(Below(i)) <= Cardinality(D) /\ Cardinality(Below(i)) # Cardinality(D)
    BY <2>1, FS_Subset
  <2>3. Cardinality(D) \in Nat
    BY FS_CardinalityType
  <2> QED BY <1>1, <1>2, <2>2, <2>3
<1>6. IsFiniteSet(All) /\ Cardinality(All) = Cardinality(D)
  <2>1. Cardinality(D) \in Nat
    BY FS_CardinalityType
  <2>2. IsFiniteSet(All) /\ Cardinality(All) = IF 0 > Cardinality(D) - 1 THEN 0 ELSE Cardinality(D) - 1 - 0 + 1
    BY <2>1, FS_Interval
  <2> HIDE DEF All
  <2> QED BY <2>1, <2>2
<1> DEFINE f == [i \in D |-> rank[i]]
<1>7. f \in Injection(D, All)
  <2> HIDE DEF All
  <2> QED BY <1>4, <1>5 DEF Injection, IsInjective
<1>8. f \in Surjection(D, All)
  <2> HIDE DEF f, All
  <2> QED BY <1>6, <1>7, FS_Injection
<1>9. \A k \in All : \E i \in D : rank[i] = k
  <2> HIDE DEF All
  <2> QED BY <1>8 DEF Surjection
<1> QED BY <1>4, <1>9
=============================================================================
