-------------------------- MODULE SweepCampaign_proofs --------------------------
(***************************************************************************)
(* Retaining cases batch by batch, or shard by shard, loses none of the    *)
(* best; the sweep runs every candidate once, retains the right cases and  *)
(* their files; the campaign over its shards accounts for all of them and  *)
(* stops where they converge.                                              *)
(***************************************************************************)
EXTENDS SweepCampaign, FiniteSetTheorems, WellFoundedInduction, TLAPS

-----------------------------------------------------------------------------
(* What is retained. *)

\* Cases as a sweep has them: no index twice.
Ordered(cases) ==
  /\ IsFiniteSet(cases)
  /\ \A c \in cases : c.score \in Int /\ c.index \in Int
  /\ \A c, d \in cases : c.index = d.index => c = d

LEMMA OrderIsTotal ==
  ASSUME NEW cases, Ordered(cases), NEW a \in cases, NEW b \in cases
  PROVE  /\ a = b \/ Better(a, b) \/ Better(b, a)
         /\ ~(Better(a, b) /\ Better(b, a))
         /\ \A c \in cases : Better(a, b) /\ Better(b, c) => Better(a, c)
  BY DEF Ordered, Better

LEMMA PartsAreOrdered ==
  ASSUME NEW cases, Ordered(cases), NEW part \in SUBSET cases
  PROVE  Ordered(part)
  BY FS_Subset DEF Ordered

LEMMA AheadIsFinite ==
  ASSUME NEW cases, Ordered(cases), NEW c
  PROVE  /\ IsFiniteSet(Ahead(c, cases))
         /\ Cardinality(Ahead(c, cases)) \in Nat
         /\ \A part \in SUBSET Ahead(c, cases) :
              IsFiniteSet(part) /\ Cardinality(part) <= Cardinality(Ahead(c, cases))
<1>1. Ahead(c, cases) \in SUBSET cases /\ IsFiniteSet(cases)
  BY DEF Ahead, Ordered
<1>2. IsFiniteSet(Ahead(c, cases))
  BY <1>1, FS_Subset
<1>. QED
  BY <1>2, FS_Subset, FS_CardinalityType

\* A case that is not among the n best has n of them before it.
LEMMA LeftOutIsBeaten ==
  ASSUME NEW cases, Ordered(cases), NEW n \in Nat, NEW d \in cases, d \notin Largest(n, cases)
  PROVE  Cardinality(Ahead(d, Largest(n, cases))) >= n
<1>. DEFINE left == cases \ Largest(n, cases)
            aheads == { Ahead(e, cases) : e \in left }
<1>1. aheads \subseteq FiniteSubsetsOf(cases) /\ aheads # {}
  BY AheadIsFinite DEF Ahead, FiniteSubsetsOf
<1>2. PICK m \in left : \A e \in left : <<Ahead(e, cases), Ahead(m, cases)>> \notin StrictSubsetOrdering(cases)
  <2>1. IsWellFoundedOn(StrictSubsetOrdering(cases), FiniteSubsetsOf(cases))
    BY FS_StrictSubsetOrderingWellFounded
  <2>. HIDE DEF aheads
  <2>2. \E x \in aheads : \A y \in aheads : ~(<<y, x>> \in StrictSubsetOrdering(cases))
    BY <1>1, <2>1, WFMin
  <2>. QED
    BY <2>2 DEF aheads
<1>3. ASSUME NEW e \in left, Better(e, m)  PROVE FALSE
  <2>1. Ahead(e, cases) \subseteq Ahead(m, cases)
    BY <1>3, OrderIsTotal DEF Ahead
  <2>2. e \in Ahead(m, cases) /\ e \notin Ahead(e, cases)
    BY <1>3, OrderIsTotal DEF Ahead
  <2>3. Ahead(e, cases) \in SUBSET cases /\ Ahead(m, cases) \in SUBSET cases
    BY DEF Ahead
  <2>. QED
    BY <1>2, <2>1, <2>2, <2>3 DEF StrictSubsetOrdering
<1>4. Ahead(m, cases) \subseteq Ahead(d, Largest(n, cases))
  <2>1. Ahead(m, cases) \subseteq Largest(n, cases)
    BY <1>3 DEF Ahead
  <2>2. d = m \/ Better(m, d)
    BY <1>3, OrderIsTotal
  <2>. QED
    BY <2>1, <2>2, OrderIsTotal DEF Ahead
<1>5. Cardinality(Ahead(m, cases)) >= n
  BY AheadIsFinite DEF Largest
<1>6. Ordered(Largest(n, cases))
  BY PartsAreOrdered DEF Largest
<1>. QED
  BY <1>4, <1>5, <1>6, AheadIsFinite

\* Cases with n better ones among the rest can be left out beforehand.
LEMMA LargestOfPart ==
  ASSUME NEW cases, Ordered(cases), NEW n \in Nat, NEW part \in SUBSET cases,
         \A d \in cases \ part : Cardinality(Ahead(d, part)) >= n
  PROVE  Largest(n, part) = Largest(n, cases)
<1>0. Ordered(part)
  BY PartsAreOrdered
<1>1. ASSUME NEW c \in Largest(n, part)  PROVE c \in Largest(n, cases)
  <2>1. ASSUME NEW d \in Ahead(c, cases), d \notin part  PROVE FALSE
    <3>1. Ahead(d, part) \in SUBSET Ahead(c, part)
      BY <1>1, <2>1, OrderIsTotal DEF Ahead, Largest
    <3>2. Cardinality(Ahead(d, part)) >= n
      BY <2>1 DEF Ahead
    <3>. QED
      BY <3>1, <3>2, <1>0, <1>1, AheadIsFinite DEF Largest
  <2>2. Ahead(c, cases) = Ahead(c, part)
    BY <2>1 DEF Ahead
  <2>. QED
    BY <1>1, <2>2 DEF Largest
<1>2. ASSUME NEW c \in Largest(n, cases)  PROVE c \in Largest(n, part)
  <2>1. Ahead(c, part) \in SUBSET Ahead(c, cases)
    BY DEF Ahead
  <2>2. Cardinality(Ahead(c, part)) < n
    BY <1>2, <2>1, <1>0, AheadIsFinite DEF Largest
  <2>3. c \in part
    BY <1>2, <2>2, <1>0, AheadIsFinite DEF Largest
  <2>. QED
    BY <2>2, <2>3 DEF Largest
<1>. QED
  BY <1>1, <1>2

\* Any part that has the n best has the same n best.
LEMMA LargestBetween ==
  ASSUME NEW cases, Ordered(cases), NEW n \in Nat, NEW part \in SUBSET cases,
         Largest(n, cases) \subseteq part
  PROVE  Largest(n, part) = Largest(n, cases)
<1>1. ASSUME NEW d \in cases \ part  PROVE Cardinality(Ahead(d, part)) >= n
  <2>1. Cardinality(Ahead(d, Largest(n, cases))) >= n
    BY <1>1, LeftOutIsBeaten
  <2>2. Ahead(d, Largest(n, cases)) \in SUBSET Ahead(d, part)
    BY DEF Ahead
  <2>3. Ordered(part) /\ Ordered(Largest(n, cases))
    BY PartsAreOrdered DEF Largest
  <2>. QED
    BY <2>1, <2>2, <2>3, AheadIsFinite
<1>. QED
  BY <1>1, LargestOfPart

\* The best of more cases are among the best of some of them and the others.
LEMMA LargestOfUnion ==
  ASSUME NEW A, NEW B, Ordered(A \cup B), NEW n \in Nat
  PROVE  /\ Largest(n, A \cup B) \subseteq Largest(n, A) \cup B
         /\ Largest(n, Largest(n, A) \cup B) = Largest(n, A \cup B)
<1>1. ASSUME NEW c \in Largest(n, A \cup B), c \in A  PROVE c \in Largest(n, A)
  <2>1. Ahead(c, A) \in SUBSET Ahead(c, A \cup B)
    BY DEF Ahead
  <2>2. Ordered(A)
    BY PartsAreOrdered
  <2>. QED
    BY <1>1, <2>1, <2>2, AheadIsFinite DEF Largest
<1>2. Largest(n, A \cup B) \subseteq Largest(n, A) \cup B
  BY <1>1 DEF Largest
<1>3. Largest(n, A) \cup B \in SUBSET (A \cup B)
  BY DEF Largest
<1>. QED
  BY <1>2, <1>3, LargestBetween

LEMMA BestIsThere ==
  ASSUME NEW cases, Ordered(cases), cases # {}, NEW n \in Nat \ {0}
  PROVE  Largest(n, cases) # {}
<1>1. PICK d \in cases : TRUE
  OBVIOUS
<1>2. CASE d \notin Largest(n, cases)
  <2>1. Cardinality(Ahead(d, Largest(n, cases))) >= n
    BY <1>2, LeftOutIsBeaten
  <2>2. Ahead(d, Largest(n, cases)) # {}
    BY <2>1, FS_EmptySet
  <2>. QED
    BY <2>2 DEF Ahead
<1>. QED
  BY <1>2

\* A normalised budget.
IsBudget(budget) == \A r \in DOMAIN budget : budget[r] \in Nat \ {0}

\* Any part that has the pool has the same pool.
LEMMA PoolBetween ==
  ASSUME NEW cases, Ordered(cases), NEW budget, IsBudget(budget), NEW regions,
         NEW part \in SUBSET cases, Pool(budget, regions, cases) \subseteq part
  PROVE  Pool(budget, regions, part) = Pool(budget, regions, cases)
<1>1. ASSUME NEW r \in regions
      PROVE  Largest(QuotaOf(budget, r), InRegion(part, r)) = Largest(QuotaOf(budget, r), InRegion(cases, r))
  <2>1. QuotaOf(budget, r) \in Nat
    BY DEF QuotaOf, IsBudget
  <2>2. InRegion(cases, r) \in SUBSET cases /\ InRegion(part, r) \in SUBSET InRegion(cases, r)
    BY DEF InRegion
  <2>3. Ordered(InRegion(cases, r))
    BY <2>2, PartsAreOrdered
  <2>4. Largest(QuotaOf(budget, r), InRegion(cases, r)) \subseteq InRegion(part, r)
    BY <1>1 DEF Pool, Largest, InRegion
  <2>. QED
    BY <2>1, <2>2, <2>3, <2>4, LargestBetween
<1>2. \A c \in Pool(budget, regions, cases) : c \in Pool(budget, regions, part)
  BY <1>1 DEF Pool
<1>3. \A c \in Pool(budget, regions, part) : c \in Pool(budget, regions, cases)
  BY <1>1 DEF Pool
<1>. QED
  BY <1>2, <1>3

LEMMA PoolOfUnion ==
  ASSUME NEW A, NEW B, Ordered(A \cup B), NEW budget, IsBudget(budget), NEW regions
  PROVE  Pool(budget, regions, Pool(budget, regions, A) \cup B) = Pool(budget, regions, A \cup B)
<1>1. ASSUME NEW c \in Pool(budget, regions, A \cup B), c \in A  PROVE c \in Pool(budget, regions, A)
  <2>1. QuotaOf(budget, c.region) \in Nat
    BY DEF QuotaOf, IsBudget
  <2>2. InRegion(A \cup B, c.region) = InRegion(A, c.region) \cup InRegion(B, c.region)
    BY DEF InRegion
  <2>3. Ordered(InRegion(A, c.region) \cup InRegion(B, c.region))
    BY PartsAreOrdered DEF InRegion
  <2>4. Largest(QuotaOf(budget, c.region), InRegion(A \cup B, c.region))
          \subseteq Largest(QuotaOf(budget, c.region), InRegion(A, c.region)) \cup InRegion(B, c.region)
    BY <2>1, <2>2, <2>3, LargestOfUnion
  <2>5. c \in Largest(QuotaOf(budget, c.region), InRegion(A \cup B, c.region)) /\ c.region \in regions
    BY <1>1 DEF Pool
  <2>6. CASE c \in InRegion(B, c.region)
    <3>1. InRegion(A, c.region) \in SUBSET InRegion(A \cup B, c.region) /\ c \in InRegion(A, c.region)
      BY <1>1 DEF InRegion
    <3>2. Ordered(InRegion(A, c.region)) /\ Ordered(InRegion(A \cup B, c.region))
      BY <2>2, <2>3, PartsAreOrdered, <3>1
    <3>3. Ahead(c, InRegion(A, c.region)) \in SUBSET Ahead(c, InRegion(A \cup B, c.region))
      BY <3>1 DEF Ahead
    <3>4. Cardinality(Ahead(c, InRegion(A, c.region))) < QuotaOf(budget, c.region)
      BY <2>1, <2>5, <3>2, <3>3, AheadIsFinite DEF Largest
    <3>. QED
      BY <1>1, <2>5, <3>1, <3>4 DEF Pool, Largest
  <2>7. CASE c \notin InRegion(B, c.region)
    BY <1>1, <2>4, <2>5, <2>7 DEF Pool
  <2>. QED
    BY <2>6, <2>7
<1>2. Pool(budget, regions, A \cup B) \subseteq Pool(budget, regions, A) \cup B
  BY <1>1 DEF Pool
<1>3. Pool(budget, regions, A) \cup B \in SUBSET (A \cup B)
  BY DEF Pool
<1>. QED
  BY <1>2, <1>3, PoolBetween

\* Ranking as the sweep does without a top k, from what it had retained, the new
\* cases and the pool.
LEMMA RankedOfUnion ==
  ASSUME NEW A, NEW B, Ordered(A \cup B), NEW budget, IsBudget(budget), NEW regions
  PROVE  Ranked(budget, regions, Ranked(budget, regions, A) \cup B \cup Pool(budget, regions, A \cup B))
           = Ranked(budget, regions, A \cup B)
<1>. DEFINE X == Ranked(budget, regions, A) \cup B \cup Pool(budget, regions, A \cup B)
<1>1. X \in SUBSET (A \cup B)
  BY DEF Ranked, Pool
<1>2. CASE DOMAIN budget = {} /\ \A c \in A \cup B : c.region \notin regions
  <2>1. X = A \cup B
    BY <1>1, <1>2 DEF Ranked
  <2>. QED
    BY <2>1
<1>3. CASE DOMAIN budget # {} \/ \E c \in A \cup B : c.region \in regions
  <2>1. Pool(budget, regions, X) = Pool(budget, regions, A \cup B)
    <3>1. Pool(budget, regions, A \cup B) \subseteq X
      OBVIOUS
    <3>. HIDE DEF X
    <3>. QED
      BY <1>1, <3>1, PoolBetween
  <2>2. DOMAIN budget # {} \/ \E c \in X : c.region \in regions
    <3>1. SUFFICES ASSUME DOMAIN budget = {}, NEW c \in A \cup B, c.region \in regions
                   PROVE  Pool(budget, regions, A \cup B) # {}
      BY <1>3 DEF Pool
    <3>2. Ordered(InRegion(A \cup B, c.region)) /\ InRegion(A \cup B, c.region) # {}
      BY PartsAreOrdered DEF InRegion
    <3>3. PICK d \in Largest(1, InRegion(A \cup B, c.region)) : TRUE
      BY <3>2, BestIsThere
    <3>4. d \in A \cup B /\ d.region = c.region /\ QuotaOf(budget, d.region) = 1
      BY <3>1, <3>3 DEF Largest, InRegion, QuotaOf
    <3>5. d \in Pool(budget, regions, A \cup B)
      BY <3>1, <3>3, <3>4 DEF Pool
    <3>. QED
      BY <3>5
  <2>. HIDE DEF X
  <2>3. Ranked(budget, regions, X) = Pool(budget, regions, X)
    BY <2>2 DEF Ranked
  <2>4. Ranked(budget, regions, A \cup B) = Pool(budget, regions, A \cup B)
    BY <1>3 DEF Ranked
  <2>. QED
    BY <2>1, <2>3, <2>4 DEF X
<1>. QED
  BY <1>2, <1>3

\* The selection of the shards' retained cases that a campaign merges is that of
\* all the cases run, as far down as each shard retains them.
THEOREM MergedTopIsGlobal ==
  ASSUME NEW Parts, NEW part, Ordered(UNION { part[s] : s \in Parts }),
         NEW keep \in Nat \ {0}, NEW n \in 0..keep, NEW budget, NEW regions
  PROVE  Largest(n, UNION { Retained(keep, budget, regions, part[s]) : s \in Parts })
           = Largest(n, UNION { part[s] : s \in Parts })
<1>. DEFINE all == UNION { part[s] : s \in Parts }
            merged == UNION { Retained(keep, budget, regions, part[s]) : s \in Parts }
<1>1. \A s \in Parts : Retained(keep, budget, regions, part[s]) \subseteq part[s]
  BY DEF Retained, Largest, Pool
<1>2. merged \in SUBSET all
  BY <1>1
<1>3. ASSUME NEW c \in Largest(n, all)  PROVE c \in merged
  <2>1. PICK s \in Parts : c \in part[s]
    BY <1>3 DEF Largest
  <2>2. Ahead(c, part[s]) \in SUBSET Ahead(c, all) /\ Cardinality(Ahead(c, all)) < n
    BY <1>3 DEF Ahead, Largest
  <2>3. Cardinality(Ahead(c, part[s])) < keep
    BY <2>2, AheadIsFinite, FS_Subset, FS_CardinalityType
  <2>4. c \in Retained(keep, budget, regions, part[s])
    BY <2>1, <2>3 DEF Retained, Largest
  <2>. QED
    BY <2>4
<1>4. n \in Nat
  OBVIOUS
<1>. HIDE DEF all, merged
<1>5. Ordered(all)
  BY DEF all
<1>6. Largest(n, merged) = Largest(n, all)
  BY <1>2, <1>3, <1>4, <1>5, LargestBetween
<1>. QED
  BY <1>6 DEF all, merged
-----------------------------------------------------------------------------
(* The campaign, which merges the shards. Its convergence state is a fold over *)
(* the loaded shards in index order; it is shown to be what StateOf tells of   *)
(* them at once, so neither the order in which they end nor a rebuild shows.   *)

\* Of some numbers one is the least.
LEMMA Least ==
  ASSUME NEW n \in Nat, NEW T \in SUBSET (0..n), T # {}
  PROVE  \E t \in T : \A u \in T : t <= u
<1>. DEFINE below(t) == { i \in 0..n : i < t }
            belows == { below(t) : t \in T }
<1>1. belows \subseteq FiniteSubsetsOf(0..n) /\ belows # {}
  <2>1. IsFiniteSet(0..n)
    BY FS_Interval
  <2>2. \A t \in T : below(t) \in SUBSET (0..n) /\ IsFiniteSet(below(t))
    BY <2>1, FS_Subset
  <2>. QED
    BY <2>2 DEF FiniteSubsetsOf
<1>2. PICK m \in T : \A t \in T : <<below(t), below(m)>> \notin StrictSubsetOrdering(0..n)
  <2>1. IsWellFoundedOn(StrictSubsetOrdering(0..n), FiniteSubsetsOf(0..n))
    BY FS_StrictSubsetOrderingWellFounded
  <2>. HIDE DEF belows
  <2>2. \E x \in belows : \A y \in belows : ~(<<y, x>> \in StrictSubsetOrdering(0..n))
    BY <1>1, <2>1, WFMin
  <2>. QED
    BY <2>2 DEF belows
<1>3. ASSUME NEW t \in T, t < m  PROVE FALSE
  <2>1. below(t) \in SUBSET (0..n) /\ below(m) \in SUBSET (0..n)
    OBVIOUS
  <2>2. below(t) \subseteq below(m) /\ t \in below(m) /\ t \notin below(t)
    BY <1>3
  <2>. QED
    BY <1>2, <2>1, <2>2 DEF StrictSubsetOrdering
<1>. QED
  BY <1>3

\* And one the greatest.
LEMMA Greatest ==
  ASSUME NEW n \in Nat, NEW T \in SUBSET (0..n), T # {}
  PROVE  /\ Max(T) \in T
         /\ \A u \in T : u <= Max(T)
<1>. DEFINE U == { n - u : u \in T }
<1>1. U \in SUBSET (0..n) /\ U # {}
  <2>1. \A u \in T : n - u \in 0..n
    OBVIOUS
  <2>2. U \subseteq 0..n
    BY <2>1
  <2>3. U # {}
    OBVIOUS
  <2>. QED
    BY <2>2, <2>3
<1>. HIDE DEF U
<1>2. PICK t \in U : \A u \in U : t <= u
  BY <1>1, Least
<1>. USE DEF U
<1>3. PICK m \in T : t = n - m
  OBVIOUS
<1>4. \A u \in T : n - m <= n - u
  BY <1>2, <1>3
<1>5. \A u \in T : m >= u
  BY <1>4
<1>6. \E x \in T : \A y \in T : x >= y
  BY <1>5
<1>. QED
  BY <1>6 DEF Max

LEMMA FirstOf ==
  ASSUME NEW T \in SUBSET Shards, T # {}, ConstantsAssumption
  PROVE  /\ Min(T) \in T
         /\ \A u \in T : Min(T) <= u
<1>0. NumShards \in Nat /\ T \in SUBSET (0..NumShards)
  BY DEF Shards, ConstantsAssumption
<1>1. \E t \in T : \A u \in T : t <= u
  BY <1>0, Least
<1>. QED
  BY <1>1 DEF Min

-----------------------------------------------------------------------------
(* The convergence of a set of loaded shards. *)

IsLoad(P) ==
  /\ P = [s \in DOMAIN P |-> P[s]] /\ DOMAIN P \in SUBSET Shards
  /\ \A s \in DOMAIN P : P[s] \in Payloads(s)

GatheredIn(P, S) == UNION { P[t] : t \in S }
UpIn(P, s) == { t \in DOMAIN P : t <= s }
StableIn(P, s) ==
  LET before == GatheredIn(P, UpIn(P, s) \ {s})
      after  == GatheredIn(P, UpIn(P, s))
  IN  /\ Cardinality(RegionsOf(after) \ RegionsOf(before)) <= MaxNewRegions
      /\ HitOf(after) - HitOf(before) <= MaxHitGain
      /\ ChurnIsLow(Chosen(before), Chosen(after))
TrailIn(P, s) == { t \in UpIn(P, s) : \A u \in UpIn(P, s) : u >= t => StableIn(P, u) }
ConvergedIn(P, s) == Cardinality(UpIn(P, s)) >= MinCompleted /\ Cardinality(TrailIn(P, s)) >= StableShards
StopsIn(P) == { s \in DOMAIN P : ConvergedIn(P, s) }

\* The state that a replay of the loaded shards accumulates, told at once.
StateOf(P) ==
  LET all == GatheredIn(P, DOMAIN P)
  IN  [regions |-> RegionsOf(all),
       topk |-> IF TopK > 0 THEN Largest(TopK, all) ELSE {},
       best |-> IF TopK > 0 THEN BestByRegion(all) ELSE {},
       previous_topk |-> Chosen(all),
       best_hit |-> HitOf(all),
       streak |-> Cardinality({ t \in DOMAIN P : \A u \in DOMAIN P : u >= t => StableIn(P, u) }),
       shards |-> Cardinality(DOMAIN P),
       stop |-> StopsIn(P) # {},
       stop_at |-> IF StopsIn(P) = {} THEN None ELSE Min(StopsIn(P))]

LEMMA ShardsAreNumbers ==
  ASSUME ConstantsAssumption
  PROVE  /\ NumShards \in Nat \ {0} /\ Shards = 1..NumShards /\ Shards \subseteq Int
         /\ None \notin Shards
BY DEF ConstantsAssumption, Shards

LEMMA ShardsAreFinite ==
  ASSUME ConstantsAssumption, NEW S \in SUBSET Shards
  PROVE  IsFiniteSet(S) /\ Cardinality(S) \in 0..NumShards
<1>1. NumShards \in Nat /\ Shards = 1..NumShards
  BY DEF Shards, ConstantsAssumption
<1>2. IsFiniteSet(1..NumShards) /\ Cardinality(1..NumShards) = NumShards
  BY <1>1, FS_Interval
<1>3. IsFiniteSet(S) /\ Cardinality(S) <= NumShards
  BY <1>1, <1>2, FS_Subset
<1>. QED
  BY <1>1, <1>3, FS_CardinalityType

LEMMA GatheredCases ==
  ASSUME ConstantsAssumption, NEW P, IsLoad(P), NEW S \in SUBSET DOMAIN P
  PROVE  /\ GatheredIn(P, S) \in SUBSET Case
         /\ Ordered(GatheredIn(P, S))
         /\ \A c \in GatheredIn(P, S) : c.index \in S
<1>. DEFINE G == GatheredIn(P, S)
<1>1. ASSUME NEW t \in S, NEW c \in P[t]
      PROVE  c \in Case /\ c.index = t /\ P[t] = {c}
  <2>1. P[t] \in Payloads(t)
    BY DEF IsLoad
  <2>. QED
    BY <2>1 DEF Payloads
<1>2. \A c \in G : c \in Case /\ c.index \in S /\ P[c.index] = {c}
  BY <1>1 DEF GatheredIn
<1>3. \A c \in G : c.score \in Int /\ c.index \in Int
  BY <1>2 DEF Case, Shards, ConstantsAssumption
<1>4. \A c, d \in G : c.index = d.index => c = d
  BY <1>2
<1>5. IsFiniteSet(G)
  <2>1. [c \in G |-> c.index] \in Injection(G, S)
    BY <1>2, <1>4 DEF Injection, IsInjective
  <2>2. IsFiniteSet(S)
    BY ShardsAreFinite DEF IsLoad
  <2>. QED
    BY <2>1, <2>2, FS_Injection
<1>. QED
  BY <1>2, <1>3, <1>4, <1>5 DEF Ordered

LEMMA HitIsMost ==
  ASSUME ConstantsAssumption, NEW A \in SUBSET Case
  PROVE  /\ HitOf(A) \in 0..MaxScore
         /\ \A c \in A : c.score <= HitOf(A)
         /\ HitOf(A) = 0 \/ \E c \in A : c.score = HitOf(A)
<1>. DEFINE T == {0} \cup { c.score : c \in A }
<1>1. T \in SUBSET (0..MaxScore) /\ T # {} /\ MaxScore \in Nat
  BY DEF Case, ConstantsAssumption
<1>. HIDE DEF T
<1>2. Max(T) \in T /\ \A u \in T : u <= Max(T)
  BY <1>1, Greatest
<1>. QED
  BY <1>1, <1>2 DEF HitOf, T

LEMMA HitOfUnion ==
  ASSUME ConstantsAssumption, NEW A \in SUBSET Case, NEW B \in SUBSET Case
  PROVE  HitOf(A \cup B) = Max({HitOf(A), HitOf(B)})
<1>1. /\ HitOf(A) \in 0..MaxScore /\ HitOf(B) \in 0..MaxScore /\ HitOf(A \cup B) \in 0..MaxScore
      /\ MaxScore \in Nat
  BY HitIsMost DEF ConstantsAssumption
<1>2. HitOf(A) <= HitOf(A \cup B)
  BY <1>1, HitIsMost
<1>3. HitOf(B) <= HitOf(A \cup B)
  BY <1>1, HitIsMost
<1>4. HitOf(A \cup B) <= HitOf(A) \/ HitOf(A \cup B) <= HitOf(B)
  BY <1>1, HitIsMost
<1>5. /\ Max({HitOf(A), HitOf(B)}) \in {HitOf(A), HitOf(B)}
      /\ \A u \in {HitOf(A), HitOf(B)} : u <= Max({HitOf(A), HitOf(B)})
  BY <1>1, Greatest
<1>. QED
  BY <1>1, <1>2, <1>3, <1>4, <1>5

\* The best case of each region is a pool without a budget.
LEMMA BestIsPool ==
  ASSUME NEW A, Ordered(A), \A c \in A : c.region \in Regions
  PROVE  BestByRegion(A) = Pool(<<>>, Regions, A)
<1>1. ASSUME NEW c \in A
      PROVE  c \in Largest(1, InRegion(A, c.region)) <=> \A d \in A : d.region = c.region => ~Better(d, c)
  <2>1. Ordered(InRegion(A, c.region))
    BY PartsAreOrdered DEF InRegion
  <2>2. /\ IsFiniteSet(Ahead(c, InRegion(A, c.region)))
        /\ Cardinality(Ahead(c, InRegion(A, c.region))) \in Nat
    BY <2>1, AheadIsFinite
  <2>3. Cardinality(Ahead(c, InRegion(A, c.region))) < 1 <=> Ahead(c, InRegion(A, c.region)) = {}
    BY <2>2, FS_EmptySet
  <2>. QED
    BY <2>3 DEF Largest, InRegion, Ahead
<1>2. \A r : QuotaOf(<<>>, r) = 1
  BY DEF QuotaOf
<1>. QED
  BY <1>1, <1>2 DEF BestByRegion, Better, Better, Pool

LEMMA BestOfUnion ==
  ASSUME NEW A, NEW B, Ordered(A \cup B), \A c \in A \cup B : c.region \in Regions
  PROVE  BestByRegion(BestByRegion(A) \cup B) = BestByRegion(A \cup B)
<1>1. Ordered(A) /\ BestByRegion(A) \in SUBSET A
  BY PartsAreOrdered DEF BestByRegion
<1>2. Ordered(BestByRegion(A) \cup B)
  BY <1>1, PartsAreOrdered
<1>3. /\ BestByRegion(A) = Pool(<<>>, Regions, A)
      /\ BestByRegion(A \cup B) = Pool(<<>>, Regions, A \cup B)
      /\ BestByRegion(BestByRegion(A) \cup B) = Pool(<<>>, Regions, BestByRegion(A) \cup B)
  BY <1>1, <1>2, BestIsPool
<1>4. IsBudget(<<>>)
  BY DEF IsBudget
<1>5. Pool(<<>>, Regions, Pool(<<>>, Regions, A) \cup B) = Pool(<<>>, Regions, A \cup B)
  BY <1>4, PoolOfUnion, ZenonT(40)
<1>. QED
  BY <1>3, <1>5

-----------------------------------------------------------------------------
(* A shard more. *)

LEMMA Extended ==
  ASSUME NEW P, IsLoad(P), NEW s \in Shards \ DOMAIN P, NEW c \in Payloads(s)
  PROVE  LET Q == Extend(P, s, c)
         IN  /\ DOMAIN Q = DOMAIN P \cup {s} /\ Q[s] = c
             /\ \A t \in DOMAIN P : Q[t] = P[t]
             /\ IsLoad(Q)
BY DEF Extend, IsLoad

\* Nothing changes below it.
LEMMA BelowStays ==
  ASSUME ConstantsAssumption, NEW P, IsLoad(P), NEW s \in Shards \ DOMAIN P, NEW c \in Payloads(s),
         NEW t \in DOMAIN P, t < s
  PROVE  LET Q == Extend(P, s, c)
         IN  /\ UpIn(Q, t) = UpIn(P, t)
             /\ StableIn(Q, t) = StableIn(P, t)
             /\ TrailIn(Q, t) = TrailIn(P, t)
             /\ ConvergedIn(Q, t) = ConvergedIn(P, t)
<1>. DEFINE Q == Extend(P, s, c)
<1>0. /\ DOMAIN Q = DOMAIN P \cup {s}
      /\ \A u \in DOMAIN P : Q[u] = P[u]
      /\ s \in Int
      /\ \A u \in DOMAIN P : u \in Int
  <2>1. s \in Int /\ \A u \in DOMAIN P : u \in Int
    BY ShardsAreNumbers DEF IsLoad
  <2>2. DOMAIN Q = DOMAIN P \cup {s} /\ \A u \in DOMAIN P : Q[u] = P[u]
    BY DEF Extend
  <2>. QED
    BY <2>1, <2>2
<1>. HIDE DEF Q
<1>1. ASSUME NEW u \in DOMAIN P, u < s  PROVE UpIn(Q, u) = UpIn(P, u)
  BY <1>0, <1>1 DEF UpIn
<1>2. ASSUME NEW S \in SUBSET DOMAIN P  PROVE GatheredIn(Q, S) = GatheredIn(P, S)
  BY <1>0 DEF GatheredIn
<1>3. ASSUME NEW u \in DOMAIN P, u < s  PROVE StableIn(Q, u) = StableIn(P, u)
  <2>1. UpIn(P, u) \in SUBSET DOMAIN P /\ UpIn(P, u) \ {u} \in SUBSET DOMAIN P
    BY DEF UpIn
  <2>2. /\ GatheredIn(Q, UpIn(Q, u)) = GatheredIn(P, UpIn(P, u))
        /\ GatheredIn(Q, UpIn(Q, u) \ {u}) = GatheredIn(P, UpIn(P, u) \ {u})
    BY <1>1, <1>2, <1>3, <2>1
  <2>. QED
    BY <2>2 DEF StableIn
<1>4. TrailIn(Q, t) = TrailIn(P, t)
  <2>1. \A u \in UpIn(P, t) : u \in DOMAIN P /\ u < s
    BY <1>0 DEF UpIn
  <2>. QED
    BY <1>1, <1>3, <2>1 DEF TrailIn
<1>5. ConvergedIn(Q, t) = ConvergedIn(P, t)
  BY <1>1, <1>4 DEF ConvergedIn
<1>. QED
  BY <1>1, <1>3, <1>4, <1>5 DEF Q

\* Nothing below the others: the state is advanced in place.
LEMMA AdvancedIs ==
  ASSUME ConstantsAssumption, NEW P, IsLoad(P), NEW s \in Shards, \A t \in DOMAIN P : t < s,
         NEW c \in Payloads(s)
  PROVE  Advance(StateOf(P), s, c) = StateOf(Extend(P, s, c))
<1>. DEFINE Q == Extend(P, s, c)
            all == GatheredIn(P, DOMAIN P)
            more == GatheredIn(Q, DOMAIN Q)
<1>0. /\ s \notin DOMAIN P
      /\ s \in Int
      /\ \A t \in DOMAIN P : t \in Int
  BY ShardsAreNumbers DEF IsLoad
<1>1. /\ DOMAIN Q = DOMAIN P \cup {s} /\ Q[s] = c
      /\ \A t \in DOMAIN P : Q[t] = P[t]
      /\ IsLoad(Q)
  BY <1>0, Extended
<1>. HIDE DEF Q
<1>2. more = all \cup c
  BY <1>1 DEF GatheredIn
<1>3. /\ all \in SUBSET Case /\ Ordered(all)
      /\ all \cup c \in SUBSET Case /\ Ordered(all \cup c)
  <2>1. all \in SUBSET Case /\ Ordered(all)
    BY GatheredCases
  <2>2. more \in SUBSET Case /\ Ordered(more)
    BY <1>1, GatheredCases
  <2>. QED
    BY <1>2, <2>1, <2>2
<1>4. RegionsOf(more) = RegionsOf(all) \cup { x.region : x \in c }
  BY <1>2 DEF RegionsOf
<1>5. TopK \in Nat
  BY DEF ConstantsAssumption
<1>. HIDE DEF all, more
<1>6. Largest(TopK, Largest(TopK, all) \cup c) = Largest(TopK, more)
  BY <1>2, <1>3, <1>5, LargestOfUnion
<1>7. BestByRegion(BestByRegion(all) \cup c) = BestByRegion(more)
  BY <1>2, <1>3, BestOfUnion DEF Case
<1>8. HitOf(more) = Max({HitOf(all), HitOf(c)})
  BY <1>2, <1>3, HitOfUnion
<1>9. UpIn(Q, s) = DOMAIN Q /\ UpIn(Q, s) \ {s} = DOMAIN P
  BY <1>0, <1>1 DEF UpIn
<1>10. GatheredIn(Q, DOMAIN P) = all
  BY <1>1 DEF GatheredIn, all
<1>11. StableIn(Q, s) <=>
          /\ Cardinality(RegionsOf(more) \ RegionsOf(all)) <= MaxNewRegions
          /\ HitOf(more) - HitOf(all) <= MaxHitGain
          /\ ChurnIsLow(Chosen(all), Chosen(more))
  BY <1>9, <1>10 DEF StableIn, more
<1>12. \A t \in DOMAIN P : StableIn(Q, t) = StableIn(P, t) /\ ConvergedIn(Q, t) = ConvergedIn(P, t)
  BY <1>0, BelowStays DEF Q
<1>. DEFINE trail(R) == { t \in DOMAIN R : \A u \in DOMAIN R : u >= t => StableIn(R, u) }
<1>13. trail(Q) = IF StableIn(Q, s) THEN trail(P) \cup {s} ELSE {}
  <2>1. CASE StableIn(Q, s)
    <3>1. \A t \in DOMAIN P : t \in trail(Q) <=> t \in trail(P)
      BY <1>0, <1>1, <1>12, <2>1
    <3>2. s \in trail(Q)
      BY <1>0, <1>1, <2>1
    <3>. QED
      BY <1>1, <2>1, <3>1, <3>2
  <2>2. CASE ~StableIn(Q, s)
    BY <1>0, <1>1, <2>2
  <2>. QED
    BY <2>1, <2>2
<1>14. /\ IsFiniteSet(DOMAIN P) /\ Cardinality(DOMAIN P) \in Nat
       /\ IsFiniteSet(trail(P)) /\ Cardinality(trail(P)) \in Nat
  <2>1. DOMAIN P \in SUBSET Shards /\ trail(P) \in SUBSET Shards
    BY DEF IsLoad
  <2>. HIDE DEF trail
  <2>. QED
    BY <2>1, ShardsAreFinite
<1>15. s \notin trail(P)
  BY <1>0
<1>. HIDE DEF trail
<1>16. Cardinality(trail(Q)) = IF StableIn(Q, s) THEN Cardinality(trail(P)) + 1 ELSE 0
  <2>1. CASE StableIn(Q, s)
    BY <1>13, <1>14, <1>15, <2>1, FS_AddElement
  <2>2. CASE ~StableIn(Q, s)
    BY <1>13, <2>2, FS_EmptySet
  <2>. QED
    BY <2>1, <2>2
<1>17. Cardinality(DOMAIN Q) = Cardinality(DOMAIN P) + 1
  BY <1>0, <1>1, <1>14, FS_AddElement
<1>18. ConvergedIn(Q, s) <=>
         Cardinality(DOMAIN P) + 1 >= MinCompleted /\ Cardinality(trail(Q)) >= StableShards
  <2>1. TrailIn(Q, s) = trail(Q)
    BY <1>9 DEF TrailIn, trail
  <2>. QED
    BY <1>9, <1>17, <2>1 DEF ConvergedIn
<1>19. StopsIn(Q) = StopsIn(P) \cup (IF ConvergedIn(Q, s) THEN {s} ELSE {})
  BY <1>0, <1>1, <1>12 DEF StopsIn
<1>. DEFINE at(R) == IF StopsIn(R) = {} THEN None ELSE Min(StopsIn(R))
<1>20. at(Q) = IF StopsIn(P) = {} /\ ConvergedIn(Q, s) THEN s ELSE at(P)
  <2>1. StopsIn(P) \in SUBSET Shards /\ StopsIn(Q) \in SUBSET Shards
    BY <1>1 DEF StopsIn, IsLoad
  <2>2. CASE StopsIn(P) = {} /\ ConvergedIn(Q, s)
    <3>1. StopsIn(Q) = {s}
      BY <1>19, <2>2
    <3>2. Min(StopsIn(Q)) \in {s}
      BY <2>1, <3>1, FirstOf
    <3>. QED
      BY <2>2, <3>1, <3>2
  <2>3. CASE StopsIn(P) # {}
    <3>1. /\ Min(StopsIn(P)) \in StopsIn(P) /\ \A u \in StopsIn(P) : Min(StopsIn(P)) <= u
      BY <2>1, <2>3, FirstOf
    <3>2. StopsIn(Q) # {}
      BY <1>19, <2>3
    <3>3. /\ Min(StopsIn(Q)) \in StopsIn(Q) /\ \A u \in StopsIn(Q) : Min(StopsIn(Q)) <= u
      BY <2>1, <3>2, FirstOf
    <3>4. \A u \in StopsIn(P) : u < s /\ u \in Int
      BY <1>0 DEF StopsIn
    <3>5. Min(StopsIn(Q)) \in StopsIn(P)
      BY <1>0, <1>19, <3>1, <3>3, <3>4
    <3>6. Min(StopsIn(Q)) = Min(StopsIn(P))
      BY <1>19, <3>1, <3>3, <3>4, <3>5
    <3>. QED
      BY <2>3, <3>2, <3>6
  <2>4. CASE StopsIn(P) = {} /\ ~ConvergedIn(Q, s)
    BY <1>19, <2>4
  <2>. QED
    BY <2>2, <2>3, <2>4
<1>. HIDE DEF at
<1>. DEFINE top(cases) == IF TopK > 0 THEN Largest(TopK, cases) ELSE {}
            best(cases) == IF TopK > 0 THEN BestByRegion(cases) ELSE {}
<1>21. /\ IF TopK > 0 THEN Largest(TopK, top(all) \cup c) = top(more) ELSE top(more) = {}
       /\ IF TopK > 0 THEN BestByRegion(best(all) \cup c) = best(more) ELSE best(more) = {}
  BY <1>6, <1>7
<1>22. Selected(top(more), best(more)) = Chosen(more)
  BY <1>5 DEF Selected, Chosen
<1>. HIDE DEF top, best
<1>23. StateOf(P) =
        [regions |-> RegionsOf(all), topk |-> top(all), best |-> best(all), previous_topk |-> Chosen(all),
         best_hit |-> HitOf(all), streak |-> Cardinality(trail(P)), shards |-> Cardinality(DOMAIN P),
         stop |-> StopsIn(P) # {}, stop_at |-> at(P)]
  BY DEF StateOf, all, trail, at, top, best
<1>24. StateOf(Q) =
        [regions |-> RegionsOf(more), topk |-> top(more), best |-> best(more), previous_topk |-> Chosen(more),
         best_hit |-> HitOf(more), streak |-> Cardinality(trail(Q)), shards |-> Cardinality(DOMAIN Q),
         stop |-> StopsIn(Q) # {}, stop_at |-> at(Q)]
  BY DEF StateOf, more, trail, at, top, best
<1>. DEFINE st == StateOf(P)
            stable == /\ Cardinality(RegionsOf(more) \ RegionsOf(all)) <= MaxNewRegions
                      /\ HitOf(more) - HitOf(all) <= MaxHitGain
                      /\ ChurnIsLow(Chosen(all), Chosen(more))
<1>25. Advance(st, s, c) =
        [regions |-> RegionsOf(more), topk |-> top(more), best |-> best(more), previous_topk |-> Chosen(more),
         best_hit |-> HitOf(more), streak |-> Cardinality(trail(Q)), shards |-> Cardinality(DOMAIN Q),
         stop |-> st.stop \/ Stops(st, Cardinality(trail(Q))),
         stop_at |-> IF Stops(st, Cardinality(trail(Q))) THEN s ELSE st.stop_at]
  <2>1. (IF stable THEN st.streak + 1 ELSE 0) = Cardinality(trail(Q))
    BY <1>11, <1>16, <1>23
  <2>. HIDE DEF st
  <2>2. /\ st.regions = RegionsOf(all) /\ st.topk = top(all) /\ st.best = best(all)
        /\ st.previous_topk = Chosen(all) /\ st.best_hit = HitOf(all) /\ st.shards = Cardinality(DOMAIN P)
    BY <1>23 DEF st
  <2>. QED
    BY <1>4, <1>8, <1>17, <1>21, <1>22, <2>1, <2>2 DEF Advance, top, best
<1>26. /\ st.stop = (StopsIn(P) # {})
       /\ st.shards = Cardinality(DOMAIN P) /\ st.stop_at = at(P)
  BY <1>23
<1>. HIDE DEF st
<1>27. Stops(st, Cardinality(trail(Q))) <=> StopsIn(P) = {} /\ ConvergedIn(Q, s)
  BY <1>18, <1>26 DEF Stops
<1>28. (st.stop \/ Stops(st, Cardinality(trail(Q)))) = (StopsIn(Q) # {})
  BY <1>19, <1>26, <1>27
<1>29. (IF Stops(st, Cardinality(trail(Q))) THEN s ELSE st.stop_at) = at(Q)
  BY <1>20, <1>26, <1>27
<1>. QED
  BY <1>24, <1>25, <1>28, <1>29 DEF Q, st

LEMMA NothingLoaded ==
  ASSUME ConstantsAssumption, NEW P, IsLoad(P), DOMAIN P = {}
  PROVE  StateOf(P) = NewConvergence
<1>1. GatheredIn(P, DOMAIN P) = {} /\ StopsIn(P) = {}
  BY DEF GatheredIn, StopsIn
<1>2. RegionsOf({}) = {} /\ Largest(TopK, {}) = {} /\ BestByRegion({}) = {}
  BY DEF RegionsOf, Largest, BestByRegion
<1>3. Chosen({}) = {}
  <2>1. Selected(Largest(TopK, {}), BestByRegion({})) = {}
    BY <1>2 DEF Selected
  <2>. QED
    BY <2>1 DEF Chosen
<1>4. HitOf({}) = 0
  <2>1. {} \in SUBSET Case
    OBVIOUS
  <2>. QED
    BY <2>1, HitIsMost
<1>5. { t \in DOMAIN P : \A u \in DOMAIN P : u >= t => StableIn(P, u) } = {}
  OBVIOUS
<1>. QED
  BY <1>1, <1>2, <1>3, <1>4, <1>5, FS_EmptySet DEF StateOf, NewConvergence

\* The loaded shards up to one of them.
LoadedUpTo(P, n) == [t \in { u \in DOMAIN P : u <= n } |-> P[t]]

LEMMA UpToNext ==
  ASSUME ConstantsAssumption, NEW P, IsLoad(P), NEW n \in Shards
  PROVE  /\ IsLoad(LoadedUpTo(P, n)) /\ IsLoad(LoadedUpTo(P, n - 1))
         /\ n \in DOMAIN P => LoadedUpTo(P, n) = Extend(LoadedUpTo(P, n - 1), n, P[n])
         /\ n \notin DOMAIN P => LoadedUpTo(P, n) = LoadedUpTo(P, n - 1)
         /\ \A t \in DOMAIN LoadedUpTo(P, n - 1) : t < n
<1>1. n \in Int /\ \A t \in DOMAIN P : t \in Int
  BY ShardsAreNumbers DEF IsLoad
<1>2. \A m : IsLoad(LoadedUpTo(P, m))
  BY DEF IsLoad, LoadedUpTo
<1>3. \A t \in DOMAIN LoadedUpTo(P, n - 1) : t < n
  BY <1>1 DEF LoadedUpTo
<1>4. \A t \in DOMAIN P : t <= n <=> t <= n - 1 \/ t = n
  BY <1>1
<1>5. n \notin DOMAIN P => LoadedUpTo(P, n) = LoadedUpTo(P, n - 1)
  BY <1>4 DEF LoadedUpTo
<1>6. ASSUME n \in DOMAIN P  PROVE LoadedUpTo(P, n) = Extend(LoadedUpTo(P, n - 1), n, P[n])
  <2>1. { u \in DOMAIN P : u <= n } = { u \in DOMAIN P : u <= n - 1 } \cup {n}
    BY <1>1, <1>4, <1>6
  <2>. QED
    BY <1>1, <2>1 DEF LoadedUpTo, Extend
<1>. QED
  BY <1>2, <1>3, <1>5, <1>6

\* A replay yields what the loaded shards say together, whatever the state was
\* that was accumulated before.
LEMMA ReplayIs ==
  ASSUME ConstantsAssumption, NEW P, IsLoad(P)
  PROVE  Replay(P) = StateOf(P)
<1>. DEFINE Made(f) == [s \in 0..NumShards |->
                          IF s = 0 THEN NewConvergence
                          ELSE IF s \in DOMAIN P
                          THEN CHOOSE after \in { Advance(before, s, P[s]) : before \in {f[s - 1]} } : TRUE
                          ELSE f[s - 1]]
            told == [s \in 0..NumShards |-> StateOf(LoadedUpTo(P, s))]
<1>0. NumShards \in Nat \ {0} /\ Shards = 1..NumShards
  BY ShardsAreNumbers
<1>1. told[0] = NewConvergence
  <2>1. IsLoad(LoadedUpTo(P, 0)) /\ DOMAIN LoadedUpTo(P, 0) = {}
    BY <1>0 DEF IsLoad, LoadedUpTo
  <2>. QED
    BY <1>0, <2>1, NothingLoaded
<1>2. ASSUME NEW s \in 1..NumShards
      PROVE  told[s] = IF s \in DOMAIN P THEN Advance(told[s - 1], s, P[s]) ELSE told[s - 1]
  <2>1. s \in Shards /\ s - 1 \in 0..NumShards
    BY <1>0
  <2>2. CASE s \in DOMAIN P
    <3>1. P[s] \in Payloads(s)
      BY <2>2 DEF IsLoad
    <3>2. Advance(StateOf(LoadedUpTo(P, s - 1)), s, P[s]) = StateOf(Extend(LoadedUpTo(P, s - 1), s, P[s]))
      BY <2>1, <3>1, UpToNext, AdvancedIs
    <3>. QED
      BY <2>1, <2>2, <3>2, UpToNext
  <2>3. CASE s \notin DOMAIN P
    BY <2>1, <2>3, UpToNext
  <2>. QED
    BY <2>2, <2>3
<1>3. \A f, s : (CHOOSE after \in { Advance(before, s, P[s]) : before \in {f[s - 1]} } : TRUE)
                   = Advance(f[s - 1], s, P[s])
  OBVIOUS
<1>. HIDE DEF told
<1>4. told = Made(told)
  <2>1. told = [s \in 0..NumShards |-> told[s]]
    BY DEF told
  <2>2. \A s \in 0..NumShards : told[s] = Made(told)[s]
    BY <1>0, <1>1, <1>2, <1>3
  <2>. QED
    BY <2>1, <2>2
<1>5. ASSUME NEW f, f = Made(f)
      PROVE  f[NumShards] = told[NumShards]
  <2>. DEFINE wrong == { s \in 0..NumShards : f[s] # told[s] }
  <2>1. SUFFICES ASSUME wrong # {}  PROVE FALSE
    BY <1>0
  <2>2. PICK s \in wrong : \A t \in wrong : s <= t
    <3>1. wrong \in SUBSET (0..NumShards) /\ NumShards \in Nat
      BY <1>0
    <3>. HIDE DEF wrong
    <3>. QED
      BY <2>1, <3>1, Least
  <2>3. f[s] = Made(f)[s]
    BY <1>5
  <2>4. s # 0
    BY <1>1, <2>3
  <2>5. s \in 1..NumShards /\ s - 1 \in 0..NumShards /\ s - 1 \notin wrong
    BY <1>0, <2>2, <2>4
  <2>6. f[s - 1] = told[s - 1]
    BY <2>5
  <2>7. f[s] = IF s \in DOMAIN P THEN Advance(told[s - 1], s, P[s]) ELSE told[s - 1]
    BY <1>3, <2>3, <2>4, <2>6
  <2>. QED
    BY <1>2, <2>5, <2>7
<1>6. Replay(P) = (CHOOSE f : f = Made(f))[NumShards]
  BY DEF Replay
<1>7. told[NumShards] = StateOf(P)
  <2>1. { u \in DOMAIN P : u <= NumShards } = DOMAIN P
    <3>1. \A u \in DOMAIN P : u <= NumShards
      <4>1. \A u \in DOMAIN P : u \in 1..NumShards
        BY <1>0 DEF IsLoad
      <4>. QED
        BY <1>0, <4>1
    <3>. QED
      BY <3>1
  <2>2. P = [t \in DOMAIN P |-> P[t]]
    BY DEF IsLoad
  <2>3. LoadedUpTo(P, NumShards) = P
    BY <2>1, <2>2 DEF LoadedUpTo
  <2>. QED
    BY <1>0, <2>3 DEF told
<1>. HIDE DEF Made
<1>8. (CHOOSE f : f = Made(f)) = Made(CHOOSE f : f = Made(f))
  BY <1>4
<1>. QED
  BY <1>5, <1>6, <1>7, <1>8

LEMMA StateIsTyped ==
  ASSUME ConstantsAssumption, NEW P, IsLoad(P)
  PROVE  StateOf(P) \in Conv
<1>. DEFINE all == GatheredIn(P, DOMAIN P)
            trail == { t \in DOMAIN P : \A u \in DOMAIN P : u >= t => StableIn(P, u) }
<1>1. all \in SUBSET Case
  BY GatheredCases
<1>2. HitOf(all) \in 0..MaxScore
  BY <1>1, HitIsMost
<1>3. Cardinality(trail) \in 0..NumShards /\ Cardinality(DOMAIN P) \in 0..NumShards
  <2>1. trail \in SUBSET Shards /\ DOMAIN P \in SUBSET Shards
    BY DEF IsLoad
  <2>. HIDE DEF trail
  <2>. QED
    BY <2>1, ShardsAreFinite
<1>4. (IF StopsIn(P) = {} THEN None ELSE Min(StopsIn(P))) \in Shards \cup {None}
  <2>1. StopsIn(P) \in SUBSET Shards
    BY DEF StopsIn, IsLoad
  <2>. QED
    BY <2>1, FirstOf
<1>. HIDE DEF all, trail
<1>5. /\ RegionsOf(all) \in SUBSET Regions
      /\ \A c \in all : c.index \in Shards
  BY <1>1 DEF RegionsOf, Case
<1>6. /\ Largest(TopK, all) \in SUBSET all /\ BestByRegion(all) \in SUBSET all
      /\ Chosen(all) \in SUBSET Shards
  <2>1. Largest(TopK, all) \in SUBSET all /\ BestByRegion(all) \in SUBSET all
    BY DEF Largest, BestByRegion
  <2>2. \A c \in Largest(TopK, all) \cup BestByRegion(all) : c.index \in Shards
    BY <1>5, <2>1
  <2>3. Chosen(all) \in SUBSET Shards
    BY <2>2 DEF Chosen, Selected
  <2>. QED
    BY <2>1, <2>3
<1>. QED
  BY <1>1, <1>2, <1>3, <1>4, <1>5, <1>6 DEF StateOf, Conv, all, trail

-----------------------------------------------------------------------------
(* The campaign. *)

\* Every shard submitted is in flight or harvested, well or failed, and a shard
\* that failed ends the rounds.
Accounted ==
  /\ pc \in {"wait", "harvest", "raising", "raised", "returned"}
  /\ next \in 1..(NumShards + 1)
  /\ in_flight \cup completed \cup failed = 1..(next - 1)
  /\ in_flight \cap (completed \cup failed) = {}
  /\ Cardinality(in_flight) <= Workers
  /\ completed \cup failed \subseteq DOMAIN result /\ DOMAIN result \subseteq 1..(next - 1)
  /\ \A s \in DOMAIN result : result[s] \in Payloads(s) \cup {NoFile, Failed}
  /\ done \subseteq in_flight \cap DOMAIN result
  /\ \A s \in completed : result[s] # Failed
  /\ failed # {} => pc \in {"raising", "raised"}
  /\ pc = "returned" => in_flight = {} /\ (next <= NumShards => early)
  /\ early \in BOOLEAN /\ stop_at \in Shards \cup {None}

\* The convergence state is what the loaded shards say.
Converged == IsLoad(loaded) /\ DOMAIN loaded \subseteq completed /\ conv = StateOf(loaded)

Campaign == Accounted /\ Converged

LEMMA LoadsWell ==
  ASSUME ConstantsAssumption, Campaign, NEW s \in Shards, Harvest(s), result[s] # NoFile
  PROVE  /\ s \in Shards \ DOMAIN loaded /\ result[s] \in Payloads(s)
         /\ loaded' = Extend(loaded, s, result[s]) /\ IsLoad(loaded')
         /\ conv' = StateOf(loaded')
<1>1. s \in Shards \ DOMAIN loaded /\ result[s] \in Payloads(s)
  BY DEF Campaign, Accounted, Converged, Harvest
<1>2. loaded' = Extend(loaded, s, result[s]) /\ conv' = Converge(s)
  BY DEF Harvest, Load
<1>3. IsLoad(loaded) /\ conv = StateOf(loaded)
  BY DEF Campaign, Converged
<1>4. IsLoad(loaded')
  BY <1>1, <1>2, <1>3, Extended
<1>5. Converge(s) = StateOf(loaded')
  <2>1. CASE \A t \in DOMAIN loaded : t < s
    BY <1>1, <1>2, <1>3, <2>1, AdvancedIs DEF Converge
  <2>2. CASE ~(\A t \in DOMAIN loaded : t < s)
    BY <1>2, <1>4, <2>2, ReplayIs DEF Converge
  <2>. QED
    BY <2>1, <2>2
<1>. QED
  BY <1>1, <1>2, <1>4, <1>5

LEMMA HarvestConverges ==
  ASSUME ConstantsAssumption, Campaign, NEW s \in Shards, Harvest(s)
  PROVE  Campaign'
<1>1. /\ pc = "harvest" /\ s \in done /\ result[s] # Failed
      /\ in_flight' = in_flight \ {s} /\ done' = done \ {s} /\ completed' = completed \cup {s}
      /\ UNCHANGED <<pc, next, result, failed>>
  BY DEF Harvest
<1>2. /\ in_flight' \cup completed' \cup failed' = 1..(next' - 1)
      /\ in_flight' \cap (completed' \cup failed') = {}
      /\ completed' \cup failed' \subseteq DOMAIN result'
      /\ done' \subseteq in_flight' \cap DOMAIN result'
      /\ \A t \in completed' : result'[t] # Failed
  BY <1>1 DEF Campaign, Accounted
<1>3. Cardinality(in_flight') <= Workers
  <2>1. in_flight \in SUBSET Shards /\ in_flight' \in SUBSET in_flight
    BY <1>1, ShardsAreNumbers DEF Campaign, Accounted
  <2>2. IsFiniteSet(in_flight) /\ Cardinality(in_flight) \in Nat
    BY <2>1, ShardsAreFinite
  <2>3. Cardinality(in_flight') \in Nat /\ Cardinality(in_flight') <= Cardinality(in_flight)
    BY <2>1, <2>2, FS_Subset, FS_CardinalityType
  <2>4. Workers \in Nat
    BY DEF ConstantsAssumption
  <2>. QED
    BY <2>2, <2>3, <2>4 DEF Campaign, Accounted
<1>4. CASE result[s] = NoFile
  <2>1. UNCHANGED <<loaded, conv, early, stop_at>>
    BY <1>4 DEF Harvest
  <2>2. Accounted'
    BY <1>1, <1>2, <1>3, <2>1 DEF Campaign, Accounted
  <2>3. Converged'
    BY <1>1, <2>1 DEF Campaign, Converged, IsLoad
  <2>. QED
    BY <2>2, <2>3 DEF Campaign
<1>5. CASE result[s] # NoFile
  <2>1. /\ loaded' = Extend(loaded, s, result[s]) /\ IsLoad(loaded') /\ conv' = StateOf(loaded')
        /\ s \in Shards \ DOMAIN loaded /\ result[s] \in Payloads(s)
    BY <1>5, LoadsWell
  <2>2. DOMAIN loaded' = DOMAIN loaded \cup {s}
    BY <2>1, Extended DEF Campaign, Converged
  <2>3. Converged'
    BY <1>1, <2>1, <2>2 DEF Campaign, Converged
  <2>4. conv' \in Conv
    BY <2>1, StateIsTyped
  <2>5. conv'.stop_at \in Shards \cup {None} /\ conv'.stop \in BOOLEAN
    BY <2>4 DEF Conv
  <2>6. /\ early' = (early \/ conv'.stop)
        /\ stop_at' = IF conv'.stop THEN conv'.stop_at ELSE stop_at
    BY <1>5 DEF Harvest, Load
  <2>7. early' \in BOOLEAN /\ stop_at' \in Shards \cup {None}
    BY <2>5, <2>6 DEF Campaign, Accounted
  <2>8. Accounted'
    BY <1>1, <1>2, <1>3, <2>7 DEF Campaign, Accounted
  <2>. QED
    BY <2>3, <2>8 DEF Campaign
<1>. QED
  BY <1>4, <1>5

LEMMA SubmittedCount ==
  ASSUME ConstantsAssumption, NEW from \in Nat \ {0}, NEW flying \in SUBSET (1..(from - 1)),
         from \in 1..(NumShards + 1), Cardinality(flying) <= Workers
  PROVE  LET n == Min({Workers - Cardinality(flying), NumShards + 1 - from})
         IN  /\ n \in Nat /\ from + n <= NumShards + 1
             /\ Cardinality(flying \cup from..(from + n - 1)) <= Workers
             /\ n = 0 => Cardinality(flying) = Workers \/ from = NumShards + 1
<1>. DEFINE room == Workers - Cardinality(flying)
            left == NumShards + 1 - from
            n == Min({room, left})
            new == from..(from + n - 1)
<1>1. IsFiniteSet(flying) /\ Cardinality(flying) \in Nat
  <2>1. IsFiniteSet(1..(from - 1))
    BY FS_Interval
  <2>. QED
    BY <2>1, FS_Subset, FS_CardinalityType
<1>2. NumShards \in Nat \ {0} /\ Workers \in Nat \ {0}
  BY DEF ConstantsAssumption
<1>3. room \in Nat /\ left \in Nat
  BY <1>1, <1>2
<1>4. n \in {room, left} /\ n <= room /\ n <= left
  <2>. HIDE DEF room, left
  <2>1. \E x \in {room, left} : \A y \in {room, left} : x <= y
    BY <1>3
  <2>. QED
    BY <2>1 DEF Min
<1>. HIDE DEF n
<1>5. IsFiniteSet(new) /\ Cardinality(new) = n
  <2>1. n \in Nat /\ from \in Int /\ from + n - 1 \in Int
    BY <1>3, <1>4
  <2>2. /\ IsFiniteSet(new)
        /\ Cardinality(new) = IF from > from + n - 1 THEN 0 ELSE (from + n - 1) - from + 1
    BY <2>1, FS_Interval
  <2>. QED
    BY <2>1, <2>2
<1>6. flying \cap new = {}
  BY <1>2, <1>3, <1>4
<1>7. Cardinality(flying \cup new) = Cardinality(flying) + n
  <2>1. Cardinality(flying \cup new) = Cardinality(flying) + Cardinality(new) - Cardinality({})
    BY <1>1, <1>5, <1>6, FS_Union
  <2>. QED
    BY <1>1, <1>3, <1>4, <1>5, <2>1, FS_EmptySet
<1>. QED
  BY <1>1, <1>2, <1>3, <1>4, <1>7 DEF n

LEMMA InitConverges == ASSUME ConstantsAssumption, Init PROVE Campaign
<1>. DEFINE n == Min({Workers, NumShards})
<1>1. NumShards \in Nat \ {0} /\ Workers \in Nat \ {0}
  BY DEF ConstantsAssumption
<1>2. n \in {Workers, NumShards} /\ n <= Workers /\ n <= NumShards
  <2>1. \E x \in {Workers, NumShards} : \A y \in {Workers, NumShards} : x <= y
    BY <1>1
  <2>. QED
    BY <2>1 DEF Min
<1>3. next = n + 1 /\ in_flight = 1..n
  BY DEF Init
<1>. HIDE DEF n
<1>4. Cardinality(in_flight) = n
  <2>1. n \in Nat \ {0} /\ 1 \in Int
    BY <1>1, <1>2
  <2>2. Cardinality(1..n) = IF 1 > n THEN 0 ELSE n - 1 + 1
    BY <2>1, FS_Interval
  <2>. QED
    BY <1>3, <2>1, <2>2
<1>5. Accounted
  <2>1. next \in 1..(NumShards + 1) /\ in_flight = 1..(next - 1)
    BY <1>1, <1>2, <1>3
  <2>. QED
    BY <1>1, <1>2, <1>4, <2>1 DEF Init, Accounted
<1>6. Converged
  <2>1. IsLoad(loaded) /\ DOMAIN loaded = {}
    BY DEF Init, IsLoad
  <2>. QED
    BY <2>1, NothingLoaded DEF Init, Converged
<1>. QED
  BY <1>5, <1>6 DEF Campaign

LEMMA EndRoundConverges ==
  ASSUME ConstantsAssumption, Campaign, EndRound
  PROVE  Campaign'
<1>1. /\ pc = "harvest"
      /\ pc' = IF in_flight' = {} THEN "returned" ELSE "wait"
      /\ UNCHANGED <<result, done, completed, failed, loaded, conv, early, stop_at>>
  BY DEF EndRound
<1>2. Converged'
  BY <1>1 DEF Campaign, Converged, IsLoad
<1>3. NumShards \in Nat \ {0} /\ Workers \in Nat \ {0}
  BY DEF ConstantsAssumption
<1>4. CASE early
  <2>1. UNCHANGED <<next, in_flight>>
    BY <1>4 DEF EndRound
  <2>2. Accounted'
    BY <1>1, <1>4, <2>1 DEF Campaign, Accounted
  <2>. QED
    BY <1>2, <2>2 DEF Campaign
<1>5. CASE ~early
  <2>. DEFINE n == Min({Workers - Cardinality(in_flight), NumShards + 1 - next})
  <2>1. in_flight' = in_flight \cup next..(next + n - 1) /\ next' = next + n
    BY <1>5 DEF EndRound, Schedule
  <2>2. /\ next \in Nat \ {0} /\ in_flight \in SUBSET (1..(next - 1))
        /\ next \in 1..(NumShards + 1) /\ Cardinality(in_flight) <= Workers
    BY <1>3 DEF Campaign, Accounted
  <2>3. /\ n \in Nat /\ next + n <= NumShards + 1
        /\ Cardinality(in_flight \cup next..(next + n - 1)) <= Workers
        /\ n = 0 => Cardinality(in_flight) = Workers \/ next = NumShards + 1
    BY <2>2, SubmittedCount
  <2>. HIDE DEF n
  <2>4. next' \in 1..(NumShards + 1) /\ 1..(next' - 1) = 1..(next - 1) \cup next..(next + n - 1)
    BY <1>3, <2>1, <2>2, <2>3
  <2>5. /\ in_flight' \cup completed' \cup failed' = 1..(next' - 1)
        /\ in_flight' \cap (completed' \cup failed') = {}
        /\ DOMAIN result' \subseteq 1..(next' - 1)
        /\ done' \subseteq in_flight' \cap DOMAIN result'
    <3>1. \A s \in next..(next + n - 1) : s \notin 1..(next - 1)
      BY <2>2, <2>3
    <3>2. /\ in_flight \cup completed \cup failed = 1..(next - 1)
          /\ in_flight \cap (completed \cup failed) = {}
          /\ DOMAIN result \subseteq 1..(next - 1)
          /\ done \subseteq in_flight \cap DOMAIN result
      BY DEF Campaign, Accounted
    <3>. QED
      BY <1>1, <2>1, <2>4, <3>1, <3>2
  <2>6. pc' = "returned" => in_flight' = {} /\ ~(next' <= NumShards)
    <3>1. SUFFICES ASSUME in_flight' = {}  PROVE ~(next' <= NumShards)
      BY <1>1
    <3>2. in_flight = {} /\ next..(next + n - 1) = {}
      BY <2>1, <3>1
    <3>3. n = 0 /\ Cardinality(in_flight) = 0
      BY <2>2, <2>3, <3>2, FS_EmptySet
    <3>. QED
      BY <1>3, <2>1, <2>2, <2>3, <3>3
  <2>7. Accounted'
    BY <1>1, <1>5, <2>1, <2>3, <2>4, <2>5, <2>6 DEF Campaign, Accounted
  <2>. QED
    BY <1>2, <2>7 DEF Campaign
<1>. QED
  BY <1>4, <1>5

LEMMA CampaignStep == ASSUME ConstantsAssumption, Campaign, [Next]_vars PROVE Campaign'
<1>1. CASE Wait
  BY <1>1 DEF Wait, Campaign, Accounted, Converged, IsLoad
<1>2. CASE Raise
  BY <1>2 DEF Raise, Campaign, Accounted, Converged, IsLoad
<1>3. CASE UNCHANGED vars
  BY <1>3 DEF vars, Campaign, Accounted, Converged, IsLoad
<1>4. ASSUME NEW s \in Shards, HarvestFailed(s)  PROVE Campaign'
  <2>1. /\ pc = "harvest" /\ s \in done /\ result[s] = Failed
        /\ in_flight' = in_flight \ {s} /\ done' = {} /\ failed' = failed \cup {s} /\ pc' = "raising"
        /\ UNCHANGED <<next, result, completed, loaded, conv, early, stop_at>>
    BY <1>4 DEF HarvestFailed
  <2>2. Cardinality(in_flight') <= Workers
    <3>1. in_flight \in SUBSET Shards /\ in_flight' \in SUBSET in_flight
      BY <2>1, ShardsAreNumbers DEF Campaign, Accounted
    <3>2. IsFiniteSet(in_flight) /\ Cardinality(in_flight) \in Nat
      BY <3>1, ShardsAreFinite
    <3>3. Cardinality(in_flight') \in Nat /\ Cardinality(in_flight') <= Cardinality(in_flight)
      BY <3>1, <3>2, FS_Subset, FS_CardinalityType
    <3>4. Workers \in Nat
      BY DEF ConstantsAssumption
    <3>. QED
      BY <3>2, <3>3, <3>4 DEF Campaign, Accounted
  <2>3. Accounted'
    BY <2>1, <2>2 DEF Campaign, Accounted
  <2>. QED
    BY <2>1, <2>3 DEF Campaign, Converged, IsLoad
<1>5. ASSUME NEW s \in Shards, EndShard(s)  PROVE Campaign'
  <2>1. PICK r \in Payloads(s) \cup {NoFile, Failed} : result' = Extend(result, s, r)
    BY <1>5 DEF EndShard
  <2>2. /\ s \in in_flight \ DOMAIN result
        /\ UNCHANGED <<pc, next, in_flight, done, completed, failed, loaded, conv, early, stop_at>>
    BY <1>5 DEF EndShard
  <2>3. /\ DOMAIN result' = DOMAIN result \cup {s} /\ result'[s] = r
        /\ \A t \in DOMAIN result : result'[t] = result[t]
    BY <2>1, <2>2 DEF Extend
  <2>4. Accounted'
    BY <2>2, <2>3 DEF Campaign, Accounted
  <2>. QED
    BY <2>2, <2>4 DEF Campaign, Converged, IsLoad
<1>. QED
  BY <1>1, <1>2, <1>3, <1>4, <1>5, HarvestConverges, EndRoundConverges DEF Next, Main

LEMMA CampaignAlways == ASSUME ConstantsAssumption PROVE Spec => []Campaign
<1>1. Init => Campaign
  BY InitConverges
<1>2. Campaign /\ [Next]_vars => Campaign'
  BY CampaignStep
<1>. QED
  BY <1>1, <1>2, PTL DEF Spec

\* C's definitions about what is loaded are those of this module.
LEMMA LoadedSays ==
  ASSUME NEW s
  PROVE  /\ UpTo(s) = UpIn(loaded, s)
         /\ StableAt(s) = StableIn(loaded, s)
         /\ ConvergedAt(s) = ConvergedIn(loaded, s)
<1>1. \A t : UpTo(t) = UpIn(loaded, t)
  BY DEF UpTo, UpIn
<1>2. \A S : Gathered(S) = GatheredIn(loaded, S)
  BY DEF Gathered, GatheredIn
<1>3. \A t : StableAt(t) = StableIn(loaded, t)
  BY <1>1, <1>2 DEF StableAt, StableIn
<1>4. { t \in UpTo(s) : \A u \in UpTo(s) : u >= t => StableAt(u) } = TrailIn(loaded, s)
  BY <1>1, <1>3 DEF TrailIn
<1>. QED
  BY <1>1, <1>3, <1>4 DEF ConvergedAt, ConvergedIn

\* The campaign's state is well formed, and never more shards are in flight than
\* there are workers.
THEOREM CampaignTyped == Spec => []TypeOK
<1>. USE ConstantsAssumption
<1>1. Campaign => TypeOK
  <2>1. SUFFICES ASSUME Campaign PROVE TypeOK
    OBVIOUS
  <2>2. 1..(next - 1) \subseteq Shards
    BY ShardsAreNumbers, <2>1 DEF Campaign, Accounted
  <2>3. conv \in Conv
    BY <2>1, StateIsTyped DEF Campaign, Converged
  <2>4. in_flight \subseteq Shards /\ completed \subseteq Shards /\ failed \subseteq Shards
    BY <2>1, <2>2 DEF Campaign, Accounted
  <2>. QED
    BY <2>1, <2>3, <2>4 DEF Campaign, Accounted, Converged, IsLoad, TypeOK
<1>. QED
  BY <1>1, CampaignAlways, PTL

\* For every number of shards, workers and cases retained, and every order in
\* which the shards end: the stop that the campaign recommends is where the
\* loaded shards converged, in the order of their indices (:704-719, :936-1053).
THEOREM StopsWhereConverged == Spec => []StopIsWhereConverged
<1>. USE ConstantsAssumption
<1>1. Campaign => StopIsWhereConverged
  <2>1. SUFFICES ASSUME Campaign PROVE StopIsWhereConverged
    OBVIOUS
  <2>2. conv = StateOf(loaded)
    BY <2>1 DEF Campaign, Converged
  <2>3. { s \in DOMAIN loaded : ConvergedAt(s) } = StopsIn(loaded)
    BY LoadedSays DEF StopsIn
  <2>4. Gathered(DOMAIN loaded) = GatheredIn(loaded, DOMAIN loaded)
    BY DEF Gathered, GatheredIn
  <2>5. /\ conv.stop = (StopsIn(loaded) # {})
        /\ conv.stop_at = IF StopsIn(loaded) = {} THEN None ELSE Min(StopsIn(loaded))
        /\ conv.shards = Cardinality(DOMAIN loaded)
        /\ conv.topk = IF TopK > 0 THEN Largest(TopK, GatheredIn(loaded, DOMAIN loaded)) ELSE {}
    BY <2>2 DEF StateOf
  <2>. QED
    BY <2>3, <2>4, <2>5 DEF StopIsWhereConverged
<1>. QED
  BY <1>1, CampaignAlways, PTL

\* For every number of shards and workers: when the campaign returns, each shard
\* has completed or never ran, none has failed, and some never ran only if it
\* stopped early (:686-743).
THEOREM ReturnsAccounted == Spec => []ReturnAccountsForAll
<1>. USE ConstantsAssumption
<1>1. Campaign => ReturnAccountsForAll
  <2>1. SUFFICES ASSUME Campaign, pc = "returned"
                 PROVE  /\ \A s \in Shards : s \in completed <=> s < next
                        /\ \A s \in DOMAIN result : result[s] # Failed
                        /\ DOMAIN result = completed
                        /\ next <= NumShards => early
    BY DEF ReturnAccountsForAll
  <2>2. in_flight = {} /\ failed = {} /\ completed = 1..(next - 1)
    BY <2>1 DEF Campaign, Accounted
  <2>3. \A s \in Shards : s \in 1..(next - 1) <=> s < next
    BY <2>1, ShardsAreNumbers DEF Campaign, Accounted
  <2>. QED
    BY <2>1, <2>2, <2>3 DEF Campaign, Accounted
<1>. QED
  BY <1>1, CampaignAlways, PTL

\* A recommended stop moves only when a shard of a lower index is harvested
\* after it, whichever shards end when (:704-723, :996-1007).
THEOREM StragglersMoveTheStop == Spec => OnlyStragglersMoveTheStop
<1>. USE ConstantsAssumption
<1>. DEFINE Kept == conv.stop /\ conv'.stop_at # conv.stop_at =>
                      \E s \in DOMAIN loaded' \ DOMAIN loaded : s < conv.stop_at
<1>1. ASSUME Campaign, Next, conv.stop, conv'.stop_at # conv.stop_at
      PROVE  \E s \in DOMAIN loaded' \ DOMAIN loaded : s < conv.stop_at
  <2>1. PICK s \in Shards : Harvest(s) /\ result[s] # NoFile
    <3>1. conv' # conv
      BY <1>1
    <3>. QED
      BY <1>1, <3>1 DEF Next, Main, Wait, EndRound, Raise, HarvestFailed, Harvest, EndShard
  <2>2. /\ s \in Shards \ DOMAIN loaded /\ result[s] \in Payloads(s)
        /\ loaded' = Extend(loaded, s, result[s]) /\ IsLoad(loaded')
        /\ conv' = StateOf(loaded')
    BY <1>1, <2>1, LoadsWell
  <2>3. IsLoad(loaded) /\ conv = StateOf(loaded)
    BY <1>1 DEF Campaign, Converged
  <2>4. DOMAIN loaded' = DOMAIN loaded \cup {s}
    BY <2>2, <2>3, Extended
  <2>5. /\ StopsIn(loaded) # {} /\ conv.stop_at = Min(StopsIn(loaded))
        /\ conv'.stop_at = IF StopsIn(loaded') = {} THEN None ELSE Min(StopsIn(loaded'))
    BY <1>1, <2>2, <2>3 DEF StateOf
  <2>6. StopsIn(loaded) \in SUBSET Shards /\ StopsIn(loaded') \in SUBSET Shards
    BY <2>2, <2>3 DEF StopsIn, IsLoad
  <2>. DEFINE m == Min(StopsIn(loaded))
              w == Min(StopsIn(loaded'))
  <2>7. m \in StopsIn(loaded) /\ \A u \in StopsIn(loaded) : m <= u
    BY <2>5, <2>6, FirstOf
  <2>8. m \in DOMAIN loaded /\ m \in Int /\ s \in Int /\ m # s
    BY <2>2, <2>6, <2>7, ShardsAreNumbers DEF StopsIn
  <2>9. SUFFICES ASSUME m < s  PROVE FALSE
    BY <2>2, <2>4, <2>5, <2>8
  <2>10. \A t \in DOMAIN loaded : t < s => (t \in StopsIn(loaded') <=> t \in StopsIn(loaded))
    BY <2>2, <2>3, <2>4, BelowStays DEF StopsIn
  <2>11. m \in StopsIn(loaded')
    BY <2>7, <2>8, <2>9, <2>10
  <2>12. w \in StopsIn(loaded') /\ \A u \in StopsIn(loaded') : w <= u
    BY <2>6, <2>11, FirstOf
  <2>13. w <= m /\ w \in Int
    BY <2>6, <2>11, <2>12, ShardsAreNumbers
  <2>14. w < s /\ w \in DOMAIN loaded
    BY <2>4, <2>8, <2>9, <2>12, <2>13 DEF StopsIn
  <2>15. w \in StopsIn(loaded)
    BY <2>10, <2>12, <2>14
  <2>16. w = m
    BY <2>7, <2>8, <2>13, <2>15
  <2>. QED
    BY <1>1, <2>5, <2>11, <2>16
<1>2. Campaign /\ [Next]_vars => [Kept]_vars
  BY <1>1
<1>. QED
  BY <1>2, CampaignAlways, PTL DEF Spec, OnlyStragglersMoveTheStop

-----------------------------------------------------------------------------
(* The sweep. *)

CONSTANTS
  Total, ShardCount, ShardIndex, PerLaunch, Keep, SweptRegions, NoRegion, TargetRegion,
  RegionBudget, Cleanup, Persist, Scores

VARIABLES
  sweep_pc, run, candidate, pending, launches, ran, topk, pool, retained,
  case_files, launch_files, summary, view

\* The sweep's own state, with pc and next named apart from the campaign's.
S == INSTANCE SliceSweep WITH pc <- sweep_pc, next <- candidate, Regions <- SweptRegions

\* What S takes from FiniteSets and SliceSelection is what this module takes.
LEMMA SameCount == \A T : S!Cardinality(T) = Cardinality(T)
BY DEF S!Cardinality, Cardinality, S!IsFiniteSet, IsFiniteSet

LEMMA SameLargest ==
  ASSUME NEW n, NEW cases
  PROVE  S!Largest(n, cases) = Largest(n, cases)
BY SameCount DEF S!Largest, Largest, S!Ahead, Ahead, S!Better, Better

LEMMA SameSelection ==
  ASSUME NEW keep, NEW budget, NEW regions, NEW cases
  PROVE  /\ S!Pool(budget, regions, cases) = Pool(budget, regions, cases)
         /\ S!Ranked(budget, regions, cases) = Ranked(budget, regions, cases)
         /\ S!Retained(keep, budget, regions, cases) = Retained(keep, budget, regions, cases)
<1>1. S!Pool(budget, regions, cases) = Pool(budget, regions, cases)
  <2>1. ASSUME NEW r  PROVE S!QuotaOf(budget, r) = QuotaOf(budget, r)
    BY DEF S!QuotaOf, QuotaOf
  <2>2. ASSUME NEW r
        PROVE  S!Largest(QuotaOf(budget, r), S!InRegion(cases, r)) = Largest(QuotaOf(budget, r), InRegion(cases, r))
    BY SameLargest DEF S!InRegion, InRegion
  <2>. QED
    BY <2>1, <2>2 DEF S!Pool, Pool
<1>2. S!Ranked(budget, regions, cases) = Ranked(budget, regions, cases)
  BY <1>1 DEF S!Ranked, Ranked
<1>. QED
  BY <1>1, <1>2, SameLargest DEF S!Retained, Retained

Typed ==
  /\ sweep_pc \in {"enumerate", "launch", "failed"} \cup S!Ended
  /\ run \in Nat \ {0} /\ candidate \in 0..Total /\ launches \in 0..candidate
  /\ pending \subseteq S!Mine(candidate) /\ (pending # {} => launches < candidate)
  /\ sweep_pc = "launch" => pending # {}
  /\ sweep_pc \in S!Ended => candidate = Total /\ pending = {}
  /\ ran \subseteq S!Cases /\ IsFiniteSet(ran)
  /\ \A c \in ran : c.launch < launches
  /\ case_files \in [S!Candidates -> Nat] /\ launch_files \in [S!Candidates -> Nat]

\* The S!files of the candidates that wait for their launch.
Prepared == Persist => \A i \in pending : case_files[i] = run

Inductive == Typed /\ S!Once /\ S!Batchless /\ S!Fresh /\ Prepared

LEMMA RanIsOrdered ==
  ASSUME S!SweepAssumption, Typed, S!Once
  PROVE  Ordered(ran)
<1>1. Scores \subseteq Int /\ S!Candidates \subseteq Int
  BY DEF S!SweepAssumption, S!Candidates
<1>2. \A c \in ran : c.score \in Int /\ c.index \in Int
  BY <1>1 DEF Typed, S!Cases
<1>. QED
  BY <1>2 DEF Typed, S!Once, Ordered

LEMMA RetainedIsRun ==
  ASSUME S!Batchless
  PROVE  /\ retained \subseteq ran /\ pool \subseteq retained
         /\ Keep > 0 => topk \subseteq retained /\ retained = topk \cup pool
  BY DEF S!Batchless, S!Retained, S!Ranked, S!Pool, S!Largest

\* What the cases of the candidate launch are.
LEMMA EvaluatedCases ==
  ASSUME S!SweepAssumption, Inductive, sweep_pc = "launch", NEW score \in [pending -> Scores]
  PROVE  /\ S!Evaluated(score) \subseteq S!Cases /\ IsFiniteSet(S!Evaluated(score))
         /\ { c.index : c \in S!Evaluated(score) } = pending
         /\ \A c \in S!Evaluated(score) : c.launch = launches
         /\ \A c, d \in S!Evaluated(score) : c.index = d.index => c = d
         /\ Ordered(ran \cup S!Evaluated(score))
<1>1. pending \subseteq S!Candidates /\ launches \in S!Candidates
  BY DEF Inductive, Typed, S!Mine, S!Candidates, S!SweepAssumption
<1>2. S!Evaluated(score) \subseteq S!Cases
  BY <1>1 DEF S!Evaluated, S!Cases, S!SweepAssumption
<1>3. IsFiniteSet(S!Evaluated(score))
  <2>1. IsFiniteSet(S!Candidates)
    BY FS_Interval DEF S!Candidates, S!SweepAssumption
  <2>2. IsFiniteSet(pending)
    BY <1>1, <2>1, FS_Subset
  <2>. DEFINE case == [i \in pending |-> [index |-> i, score |-> score[i], region |-> TargetRegion[i], launch |-> launches]]
  <2>3. case \in Surjection(pending, S!Evaluated(score))
    BY DEF Surjection, S!Evaluated
  <2>. QED
    BY <2>2, <2>3, FS_Surjection
<1>4. { c.index : c \in S!Evaluated(score) } = pending
  <2>1. \A c \in S!Evaluated(score) : c.index \in pending
    BY DEF S!Evaluated
  <2>2. ASSUME NEW i \in pending  PROVE \E c \in S!Evaluated(score) : c.index = i
    <3>. DEFINE c == [index |-> i, score |-> score[i], region |-> TargetRegion[i], launch |-> launches]
    <3>1. c \in S!Evaluated(score) /\ c.index = i
      BY DEF S!Evaluated
    <3>. QED
      BY <3>1
  <2>. QED
    BY <2>1, <2>2
<1>5. \A c, d \in S!Evaluated(score) : c.index = d.index => c = d
  BY DEF S!Evaluated
<1>6. \A c \in S!Evaluated(score), d \in ran : c.index # d.index
  BY <1>4 DEF Inductive, S!Once
<1>7. Ordered(ran \cup S!Evaluated(score))
  <2>1. IsFiniteSet(ran \cup S!Evaluated(score))
    BY <1>3, FS_Union DEF Inductive, Typed
  <2>2. \A c \in ran \cup S!Evaluated(score) : c.score \in Int /\ c.index \in Int
    <3>1. ran \cup S!Evaluated(score) \subseteq S!Cases
      BY <1>2 DEF Inductive, Typed
    <3>2. Scores \subseteq Int /\ S!Candidates \subseteq Int
      BY DEF S!SweepAssumption, S!Candidates
    <3>. QED
      BY <3>1, <3>2 DEF S!Cases
  <2>. QED
    BY <1>5, <1>6, <2>1, <2>2 DEF Ordered, Inductive, S!Once
<1>. QED
  BY <1>2, <1>3, <1>4, <1>5, <1>7 DEF S!Evaluated

LEMMA InitInductive == ASSUME S!SweepAssumption, S!Init PROVE Inductive
<1>1. S!Mine(0) = {}
  BY DEF S!Mine
<1>2. Typed /\ Prepared
  BY <1>1, FS_EmptySet DEF S!Init, Typed, Prepared, S!Ended, S!SweepAssumption
<1>3. S!Once
  BY <1>1 DEF S!Init, S!Once, S!Ended
<1>4. S!Batchless
  BY DEF S!Init, S!Batchless, S!Retained, S!Ranked, S!Pool, S!Largest
<1>5. S!Fresh
  BY DEF S!Init, S!Fresh, S!Ended
<1>. QED
  BY <1>2, <1>3, <1>4, <1>5 DEF Inductive

LEMMA SkipInductive == ASSUME S!SweepAssumption, Inductive, S!Skip PROVE Inductive'
<1>1. candidate \in 0..(Total - 1) /\ S!Mine(candidate + 1) = S!Mine(candidate)
  BY DEF S!Skip, S!Mine, Inductive, Typed, S!SweepAssumption
<1>2. Typed'
  <2>1. candidate + 1 \in 0..Total /\ launches \in 0..(candidate + 1) /\ (pending # {} => launches < candidate + 1)
    BY <1>1 DEF Inductive, Typed, S!SweepAssumption
  <2>. QED
    BY <1>1, <2>1 DEF S!Skip, Inductive, Typed, S!files, S!Ended
<1>3. S!Once'
  BY <1>1 DEF S!Skip, Inductive, S!Once, S!files, S!Ended
<1>4. S!Batchless'
  BY DEF S!Skip, Inductive, S!Batchless
<1>5. S!Fresh' /\ Prepared'
  BY DEF S!Skip, Inductive, S!Fresh, Prepared, S!files, S!Ended
<1>. QED
  BY <1>2, <1>3, <1>4, <1>5 DEF Inductive

LEMMA PrepareInductive == ASSUME S!SweepAssumption, Inductive, S!Prepare PROVE Inductive'
<1>1. candidate \in 0..(Total - 1) /\ S!Mine(candidate + 1) = S!Mine(candidate) \cup {candidate} /\ candidate \notin S!Mine(candidate)
  BY DEF S!Prepare, S!Mine, Inductive, Typed, S!SweepAssumption
<1>2. case_files' \in [S!Candidates -> Nat] /\ candidate \in S!Candidates
  BY <1>1 DEF S!Prepare, Inductive, Typed, S!Candidates
<1>3. Typed'
  <2>1. candidate + 1 \in 0..Total /\ launches \in 0..(candidate + 1) /\ launches < candidate + 1
    BY <1>1 DEF Inductive, Typed, S!SweepAssumption
  <2>2. pending' \subseteq S!Mine(candidate + 1) /\ pending' # {}
    BY <1>1 DEF S!Prepare, Inductive, Typed
  <2>3. sweep_pc' \in {"launch", "enumerate"}
    BY DEF S!Prepare
  <2>. QED
    BY <1>2, <2>1, <2>2, <2>3 DEF S!Prepare, Inductive, Typed, S!Ended
<1>4. S!Once'
  BY <1>1 DEF S!Prepare, Inductive, Typed, S!Once, S!Ended
<1>5. S!Batchless'
  BY DEF S!Prepare, Inductive, S!Batchless
<1>6. S!Fresh'
  <2>1. Persist => \A c \in retained : case_files'[c.index] = run
    BY RetainedIsRun DEF S!Prepare, Inductive, Typed, S!Fresh, S!Cases
  <2>. QED
    BY <2>1 DEF S!Prepare, Inductive, S!Fresh, S!Ended
<1>7. Prepared'
  BY <1>1, <1>2 DEF S!Prepare, Inductive, Prepared, Typed, S!Mine, S!Candidates
<1>. QED
  BY <1>3, <1>4, <1>5, <1>6, <1>7 DEF Inductive

LEMMA ExhaustInductive == ASSUME S!SweepAssumption, Inductive, S!Exhaust PROVE Inductive'
<1>1. Typed'
  BY DEF S!Exhaust, Inductive, Typed, S!Ended, S!memory, S!files
<1>2. S!Once'
  BY DEF S!Exhaust, Inductive, S!Once, S!Ended, S!memory, S!files
<1>3. S!Batchless'
  BY DEF S!Exhaust, Inductive, S!Batchless, S!memory
<1>4. S!Fresh' /\ Prepared'
  BY DEF S!Exhaust, Inductive, S!Fresh, Prepared, S!Ended, S!memory, S!files
<1>. QED
  BY <1>1, <1>2, <1>3, <1>4 DEF Inductive

LEMMA FailLaunchInductive == ASSUME S!SweepAssumption, Inductive, S!FailLaunch PROVE Inductive'
<1>1. launches \in S!Candidates /\ launch_files' \in [S!Candidates -> Nat]
  <2>1. launches \in S!Candidates
    BY DEF S!FailLaunch, Inductive, Typed, S!Candidates, S!SweepAssumption
  <2>. QED
    BY <2>1 DEF S!FailLaunch, Inductive, Typed
<1>2. Typed'
  BY <1>1 DEF S!FailLaunch, Inductive, Typed, S!Ended, S!memory
<1>3. S!Once'
  BY DEF S!FailLaunch, Inductive, S!Once, S!Ended, S!memory
<1>4. S!Batchless'
  BY DEF S!FailLaunch, Inductive, S!Batchless, S!memory
<1>5. \A c \in retained : launch_files'[c.launch] = run
  BY <1>1, RetainedIsRun DEF S!FailLaunch, Inductive, S!Fresh, Typed, S!Cases
<1>6. S!Fresh' /\ Prepared'
  BY <1>5 DEF S!FailLaunch, Inductive, S!Fresh, Prepared, S!Ended, S!memory
<1>. QED
  BY <1>2, <1>3, <1>4, <1>6 DEF Inductive

LEMMA WriteInductive ==
  ASSUME S!SweepAssumption, Inductive, S!WriteSummary \/ S!WriteView
  PROVE  Inductive'
<1>1. Typed'
  BY DEF S!WriteSummary, S!WriteView, Inductive, Typed, S!Ended, S!memory
<1>2. S!Once'
  BY DEF S!WriteSummary, S!WriteView, Inductive, S!Once, S!Ended, S!memory
<1>3. S!Batchless'
  BY DEF S!WriteSummary, S!WriteView, Inductive, S!Batchless, S!memory
<1>4. S!Fresh' /\ Prepared'
  BY DEF S!WriteSummary, S!WriteView, Inductive, S!Fresh, Prepared, S!Ended, S!memory
<1>. QED
  BY <1>1, <1>2, <1>3, <1>4 DEF Inductive

LEMMA RestartInductive == ASSUME S!SweepAssumption, Inductive, S!Restart PROVE Inductive'
<1>1. S!Mine(0) = {}
  BY DEF S!Mine
<1>2. Typed' /\ Prepared'
  BY <1>1, FS_EmptySet DEF S!Restart, S!Forget, Inductive, Typed, Prepared, S!Ended, S!SweepAssumption, S!files
<1>3. S!Once'
  BY <1>1 DEF S!Restart, S!Forget, S!Once, S!Ended
<1>4. S!Batchless'
  BY DEF S!Restart, S!Forget, S!Batchless, S!Retained, S!Ranked, S!Pool, S!Largest
<1>5. S!Fresh'
  BY DEF S!Restart, S!Forget, S!Fresh, S!Ended
<1>. QED
  BY <1>2, <1>3, <1>4, <1>5 DEF Inductive

\* Selecting from what is retained and the new cases selects from all cases run.
LEMMA NoneIsMissed ==
  ASSUME S!SweepAssumption, S!Batchless, NEW new, Ordered(ran \cup new)
  PROVE  /\ S!Pool(RegionBudget, SweptRegions, pool \cup new) = S!Pool(RegionBudget, SweptRegions, ran \cup new)
         /\ Keep > 0 => S!Largest(Keep, topk \cup new) = S!Largest(Keep, ran \cup new)
         /\ ~(Keep > 0) =>
              S!Ranked(RegionBudget, SweptRegions, retained \cup new \cup S!Pool(RegionBudget, SweptRegions, ran \cup new))
                = S!Ranked(RegionBudget, SweptRegions, ran \cup new)
<1>1. IsBudget(RegionBudget)
  BY DEF IsBudget, S!SweepAssumption
<1>2. Pool(RegionBudget, SweptRegions, Pool(RegionBudget, SweptRegions, ran) \cup new)
        = Pool(RegionBudget, SweptRegions, ran \cup new)
  BY <1>1, PoolOfUnion, ZenonT(40)
<1>3. ASSUME Keep > 0  PROVE Largest(Keep, Largest(Keep, ran) \cup new) = Largest(Keep, ran \cup new)
  BY LargestOfUnion DEF S!SweepAssumption
<1>4. Ranked(RegionBudget, SweptRegions,
             Ranked(RegionBudget, SweptRegions, ran) \cup new \cup Pool(RegionBudget, SweptRegions, ran \cup new))
        = Ranked(RegionBudget, SweptRegions, ran \cup new)
  BY <1>1, RankedOfUnion, ZenonT(40)
<1>5. /\ pool = Pool(RegionBudget, SweptRegions, ran)
      /\ Keep > 0 => topk = Largest(Keep, ran)
      /\ ~(Keep > 0) => retained = Ranked(RegionBudget, SweptRegions, ran)
  <2>1. S!Retained(Keep, RegionBudget, SweptRegions, ran) = Retained(Keep, RegionBudget, SweptRegions, ran)
    BY SameSelection
  <2>. QED
    BY <2>1, SameSelection, SameLargest DEF S!Batchless, Retained
<1>. QED
  <2>1. S!Pool(RegionBudget, SweptRegions, pool \cup new) = S!Pool(RegionBudget, SweptRegions, ran \cup new)
    BY <1>2, <1>5, SameSelection
  <2>2. ASSUME Keep > 0  PROVE S!Largest(Keep, topk \cup new) = S!Largest(Keep, ran \cup new)
    BY <1>3, <1>5, <2>2, SameLargest
  <2>3. ASSUME ~(Keep > 0)
        PROVE  S!Ranked(RegionBudget, SweptRegions, retained \cup new \cup S!Pool(RegionBudget, SweptRegions, ran \cup new))
                 = S!Ranked(RegionBudget, SweptRegions, ran \cup new)
    BY <1>4, <1>5, <2>3, SameSelection
  <2>. QED
    BY <2>1, <2>2, <2>3

LEMMA LaunchInductive == ASSUME S!SweepAssumption, Inductive, S!Launch PROVE Inductive'
<1>1. sweep_pc = "launch" /\ launches \in S!Candidates /\ pending \subseteq S!Mine(candidate)
      /\ launches + 1 \in 0..candidate /\ (candidate = Total => S!Mine(candidate) = S!Mine(Total))
  BY DEF S!Launch, Inductive, Typed, S!Candidates, S!SweepAssumption
<1>2. PICK score \in [pending -> Scores] :
        /\ ran' = ran \cup S!Evaluated(score)
        /\ pool' = S!Pool(RegionBudget, SweptRegions, pool \cup S!Evaluated(score))
        /\ topk' = IF Keep > 0 THEN S!Largest(Keep, topk \cup S!Evaluated(score)) ELSE topk
        /\ retained' = IF Keep > 0 THEN topk' \cup pool'
                       ELSE S!Ranked(RegionBudget, SweptRegions, retained \cup S!Evaluated(score) \cup pool')
  BY DEF S!Launch
<1>. DEFINE new == S!Evaluated(score)
<1>3. /\ new \subseteq S!Cases /\ IsFiniteSet(new)
      /\ { c.index : c \in new } = pending
      /\ \A c \in new : c.launch = launches
      /\ \A c, d \in new : c.index = d.index => c = d
      /\ Ordered(ran \cup new)
  BY <1>1, EvaluatedCases
<1>. HIDE DEF new
<1>4. /\ pool' = S!Pool(RegionBudget, SweptRegions, ran \cup new)
      /\ Keep > 0 => topk' = S!Largest(Keep, ran \cup new)
      /\ retained' = S!Retained(Keep, RegionBudget, SweptRegions, ran \cup new)
      /\ retained' \subseteq retained \cup new
  <2>1. /\ pool' = S!Pool(RegionBudget, SweptRegions, pool \cup new)
        /\ Keep > 0 => topk' = S!Largest(Keep, topk \cup new) /\ retained' = topk' \cup pool'
        /\ ~(Keep > 0) => retained' = S!Ranked(RegionBudget, SweptRegions, retained \cup new \cup pool')
    BY <1>2 DEF new
  <2>2. /\ pool \subseteq retained
        /\ Keep > 0 => topk \subseteq retained
    BY RetainedIsRun DEF Inductive
  <2>3. S!Batchless
    BY DEF Inductive
  <2>4. /\ S!Pool(RegionBudget, SweptRegions, pool \cup new) = S!Pool(RegionBudget, SweptRegions, ran \cup new)
        /\ Keep > 0 => S!Largest(Keep, topk \cup new) = S!Largest(Keep, ran \cup new)
        /\ ~(Keep > 0) =>
             S!Ranked(RegionBudget, SweptRegions, retained \cup new \cup S!Pool(RegionBudget, SweptRegions, ran \cup new))
               = S!Ranked(RegionBudget, SweptRegions, ran \cup new)
    BY <1>3, <2>3, NoneIsMissed
  <2>5. retained' = S!Retained(Keep, RegionBudget, SweptRegions, ran \cup new)
    BY <2>1, <2>4 DEF S!Retained
  <2>6. pool' \subseteq pool \cup new /\ (Keep > 0 => topk' \subseteq topk \cup new)
    BY <2>1 DEF S!Pool, S!Largest
  <2>7. ~(Keep > 0) => retained' \subseteq retained \cup new \cup pool'
    BY <2>1 DEF S!Ranked, S!Pool
  <2>8. retained' \subseteq retained \cup new
    BY <2>1, <2>2, <2>6, <2>7
  <2>. QED
    BY <2>1, <2>4, <2>5, <2>8
<1>5. ran' = ran \cup new
  BY <1>2 DEF new
<1>6. S!Batchless'
  BY <1>4, <1>5 DEF S!Batchless
<1>7. { c.index : c \in ran' } = S!Mine(candidate)
  <2>1. { c.index : c \in ran' } = { c.index : c \in ran } \cup { c.index : c \in new }
    BY <1>5
  <2>. QED
    BY <1>1, <1>3, <2>1 DEF Inductive, S!Once
<1>8. \A c, d \in ran' : c.index = d.index => c = d
  BY <1>3, <1>5 DEF Ordered
<1>9. S!Once'
  <2>1. sweep_pc' \in S!Ended => candidate = Total
    BY DEF S!Launch, S!Ended
  <2>2. pending' = {} /\ candidate' = candidate
    BY DEF S!Launch
  <2>. QED
    BY <1>7, <1>8, <2>1, <2>2 DEF S!Once
<1>10. \A c \in ran' : c \in S!Cases /\ c.launch \in S!Candidates /\ c.index \in S!Candidates /\ c.launch < launches + 1
  BY <1>1, <1>3, <1>5 DEF Inductive, Typed, S!Cases, S!Candidates
<1>. DEFINE written == [launch_files EXCEPT ![launches] = run]
<1>11. /\ case_files' \in {case_files, S!Without(case_files, S!DroppedCases(retained'))}
       /\ launch_files' \in {written, S!Without(written, S!DroppedLaunches(retained'))}
  BY DEF S!Launch
<1>12. written \in [S!Candidates -> Nat]
  BY DEF Inductive, Typed
<1>13. case_files' \in [S!Candidates -> Nat] /\ launch_files' \in [S!Candidates -> Nat]
  BY <1>11, <1>12 DEF S!Without, Inductive, Typed
<1>14. Typed'
  <2>1. IsFiniteSet(ran')
    BY <1>3, <1>5, FS_Union DEF Inductive, Typed
  <2>2. launches' = launches + 1 /\ pending' = {} /\ candidate' = candidate /\ run' = run
        /\ sweep_pc' \in {"rank", "enumerate"} /\ (sweep_pc' = "rank" => candidate = Total)
    BY DEF S!Launch
  <2>. QED
    BY <1>1, <1>10, <1>13, <2>1, <2>2 DEF Inductive, Typed, S!Ended
<1>15. \A c \in retained' : c \in ran'
  BY <1>4, <1>5, RetainedIsRun DEF Inductive
<1>16. ASSUME NEW c \in retained'
       PROVE  launch_files'[c.launch] = run /\ (Persist => case_files'[c.index] = run)
  <2>1. c.launch \in S!Candidates /\ c.index \in S!Candidates
    BY <1>10, <1>15
  <2>2. written[c.launch] = run
    BY <1>1, <1>3, <1>4, <2>1 DEF Inductive, S!Fresh, Typed
  <2>3. Persist => case_files[c.index] = run
    <3>1. CASE c \in retained
      BY <3>1 DEF Inductive, S!Fresh
    <3>2. CASE c \in new
      BY <1>3, <3>2 DEF Inductive, Prepared
    <3>. QED
      BY <1>4, <3>1, <3>2
  <2>4. c.index \notin S!DroppedCases(retained') /\ c.launch \notin S!DroppedLaunches(retained')
    BY DEF S!DroppedCases, S!DroppedLaunches
  <2>. QED
    BY <1>11, <2>1, <2>2, <2>3, <2>4 DEF S!Without
<1>17. S!Fresh' /\ Prepared'
  <2>1. sweep_pc' \in {"rank", "enumerate"} /\ run' = run /\ pending' = {}
    BY DEF S!Launch
  <2>. QED
    BY <1>16, <2>1 DEF S!Fresh, Prepared, S!Ended
<1>. QED
  BY <1>6, <1>9, <1>14, <1>17 DEF Inductive

LEMMA RankInductive == ASSUME S!SweepAssumption, Inductive, S!Rank PROVE Inductive'
<1>1. retained' = retained
  <2>1. CASE Keep > 0
    BY <2>1, RetainedIsRun DEF S!Rank, Inductive
  <2>2. CASE ~(Keep > 0)
    <3>1. retained = S!Ranked(RegionBudget, SweptRegions, ran) /\ pool = S!Pool(RegionBudget, SweptRegions, ran \cup {})
      BY <2>2 DEF Inductive, S!Batchless, S!Retained
    <3>2. Ordered(ran \cup {}) /\ IsBudget(RegionBudget)
      BY RanIsOrdered DEF Inductive, IsBudget, S!SweepAssumption
    <3>3. S!Ranked(RegionBudget, SweptRegions,
                 S!Ranked(RegionBudget, SweptRegions, ran) \cup {} \cup S!Pool(RegionBudget, SweptRegions, ran \cup {}))
            = S!Ranked(RegionBudget, SweptRegions, ran \cup {})
      <4>1. Ranked(RegionBudget, SweptRegions,
                   Ranked(RegionBudget, SweptRegions, ran) \cup {} \cup Pool(RegionBudget, SweptRegions, ran \cup {}))
              = Ranked(RegionBudget, SweptRegions, ran \cup {})
        BY <3>2, RankedOfUnion, ZenonT(40)
      <4>. QED
        BY <4>1, SameSelection
    <3>4. retained' = S!Ranked(RegionBudget, SweptRegions, retained \cup pool)
      BY <2>2 DEF S!Rank
    <3>5. ran \cup {} = ran
      OBVIOUS
    <3>. QED
      BY <3>1, <3>3, <3>4, <3>5
  <2>. QED
    BY <2>1, <2>2
<1>. DEFINE ensured == [i \in S!Candidates |->
                         IF case_files[i] = 0 /\ \E c \in retained : c.index = i THEN run ELSE case_files[i]]
<1>2. /\ sweep_pc = "rank" /\ sweep_pc' = "summary" /\ candidate = Total /\ pending = {}
      /\ UNCHANGED <<run, candidate, pending, launches, ran, topk, pool>>
  BY DEF S!Rank, Inductive, Typed, S!Ended
<1>3. ensured \in [S!Candidates -> Nat]
  BY DEF Inductive, Typed
<1>4. \A c \in retained : c.index \in S!Candidates /\ c.launch \in S!Candidates
  BY RetainedIsRun DEF Inductive, Typed, S!Cases
<1>5. \A c \in retained : ensured[c.index] # 0 /\ (Persist => ensured[c.index] = run)
  BY <1>4 DEF Inductive, Typed, S!Fresh
<1>6. IF Cleanup /\ Keep > 0
      THEN /\ case_files' = S!Without(ensured, S!Candidates \ { c.index : c \in retained })
           /\ launch_files' = S!Without(launch_files, S!Candidates \ { c.launch : c \in retained })
      ELSE case_files' = ensured /\ launch_files' = launch_files
  BY <1>1 DEF S!Rank
<1>. HIDE DEF ensured
<1>7. case_files' \in [S!Candidates -> Nat] /\ launch_files' \in [S!Candidates -> Nat]
  <2>1. CASE Cleanup /\ Keep > 0
    BY <1>3, <1>6, <2>1 DEF S!Without, Inductive, Typed
  <2>2. CASE ~(Cleanup /\ Keep > 0)
    BY <1>3, <1>6, <2>2 DEF Inductive, Typed
  <2>. QED
    BY <2>1, <2>2
<1>8. ASSUME NEW c \in retained
      PROVE  launch_files'[c.launch] = run /\ (Persist => case_files'[c.index] = run)
  <2>1. launch_files[c.launch] = run
    BY DEF Inductive, S!Fresh
  <2>. QED
    BY <1>4, <1>5, <1>6, <2>1 DEF S!Without
<1>9. ASSUME Cleanup /\ Keep > 0
      PROVE  /\ { i \in S!Candidates : case_files'[i] # 0 } = { c.index : c \in retained }
             /\ { i \in S!Candidates : launch_files'[i] # 0 } = { c.launch : c \in retained }
  <2>1. \A i \in S!Candidates : case_files'[i] # 0 <=> i \in { c.index : c \in retained }
    BY <1>5, <1>6, <1>9 DEF S!Without
  <2>2. \A i \in S!Candidates : launch_files'[i] # 0 <=> i \in { c.launch : c \in retained }
    <3>1. \A c \in retained : launch_files[c.launch] # 0
      BY DEF Inductive, S!Fresh, Typed
    <3>. QED
      BY <1>6, <1>9, <3>1 DEF S!Without
  <2>. QED
    BY <1>4, <2>1, <2>2
<1>10. Typed'
  BY <1>2, <1>7 DEF Inductive, Typed, S!Ended
<1>11. S!Once'
  BY <1>2 DEF Inductive, S!Once, S!Ended
<1>12. S!Batchless'
  BY <1>1, <1>2 DEF Inductive, S!Batchless
<1>13. S!Fresh' /\ Prepared'
  BY <1>1, <1>2, <1>8, <1>9 DEF S!Fresh, Prepared, S!Ended
<1>. QED
  BY <1>10, <1>11, <1>12, <1>13 DEF Inductive

LEMMA StepInductive == ASSUME S!SweepAssumption, Inductive, [S!Next]_S!vars PROVE Inductive'
<1>1. CASE S!Skip
  BY <1>1, SkipInductive
<1>2. CASE S!Prepare
  BY <1>2, PrepareInductive
<1>3. CASE S!Exhaust
  BY <1>3, ExhaustInductive
<1>4. CASE S!Launch
  BY <1>4, LaunchInductive
<1>5. CASE S!FailLaunch
  BY <1>5, FailLaunchInductive
<1>6. CASE S!Rank
  BY <1>6, RankInductive
<1>7. CASE S!WriteSummary \/ S!WriteView
  BY <1>7, WriteInductive
<1>8. CASE S!Restart
  BY <1>8, RestartInductive
<1>9. CASE UNCHANGED S!vars
  BY <1>9 DEF Inductive, Typed, S!Once, S!Batchless, S!Fresh, Prepared, S!vars, S!memory, S!files
<1>. QED
  BY <1>1, <1>2, <1>3, <1>4, <1>5, <1>6, <1>7, <1>8, <1>9 DEF S!Next

\* A sweep, however often it is killed and started anew, runs each candidate of
\* its shard once a run (main, :2016-2285).
THEOREM CandidatesRunOnce ==
  ASSUME S!SweepAssumption
  PROVE  S!Spec => []S!Once
<1>1. S!Init => Inductive
  BY InitInductive
<1>2. Inductive /\ [S!Next]_S!vars => Inductive'
  BY StepInductive
<1>3. Inductive => S!Once
  BY DEF Inductive
<1>. QED
  BY <1>1, <1>2, <1>3, PTL DEF S!Spec

\* What it retains batch by batch, throwing the rest away, is what ranking all
\* the cases at its end would retain (flush_pending, :2161-2229).
THEOREM BatchesDoNotMatter ==
  ASSUME S!SweepAssumption
  PROVE  S!Spec => []S!Batchless
<1>1. S!Init => Inductive
  BY InitInductive
<1>2. Inductive /\ [S!Next]_S!vars => Inductive'
  BY StepInductive
<1>3. Inductive => S!Batchless
  BY DEF Inductive
<1>. QED
  BY <1>1, <1>2, <1>3, PTL DEF S!Spec

\* The retained cases keep the S!files of this run through the clean-up, and the
\* clean-up leaves no others (:2161-2325).
THEOREM RetainedFilesAreFresh ==
  ASSUME S!SweepAssumption
  PROVE  S!Spec => []S!Fresh
<1>1. S!Init => Inductive
  BY InitInductive
<1>2. Inductive /\ [S!Next]_S!vars => Inductive'
  BY StepInductive
<1>3. Inductive => S!Fresh
  BY DEF Inductive
<1>. QED
  BY <1>1, <1>2, <1>3, PTL DEF S!Spec
=============================================================================
