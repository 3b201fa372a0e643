---------------------------- MODULE SliceSelection ----------------------------
(***************************************************************************)
(* Which of the cases it has run a slice sweep retains: the keep_top_k     *)
(* best, and of each target region as many as its budget allows.  A case   *)
(* has an index in the candidate space, the score of                       *)
(* score_prefilter_case, as a number, and its target region.  The cases    *)
(* come in the order of their indices and heapq.nlargest keeps the earlier *)
(* of equals.                                                              *)
(***************************************************************************)
EXTENDS Integers, FiniteSets

Better(a, b) == a.score > b.score \/ (a.score = b.score /\ a.index < b.index)

Ahead(c, cases) == { d \in cases : Better(d, c) }

\* heapq.nlargest(n, cases, key=score_prefilter_case)
Largest(n, cases) == { c \in cases : Cardinality(Ahead(c, cases)) < n }

InRegion(cases, r) == { c \in cases : c.region = r }

\* The normalised budget gives its quota, positive, to some of the regions;
\* without a budget the best case of each region is kept.
QuotaOf(budget, r) ==
  IF DOMAIN budget = {} THEN 1 ELSE IF r \in DOMAIN budget THEN budget[r] ELSE 0

\* The region case pool after cases were added to it.
Pool(budget, regions, cases) ==
  { c \in cases : c.region \in regions /\ c \in Largest(QuotaOf(budget, c.region), InRegion(cases, c.region)) }

\* rank_prefilter_cases without a top k.
Ranked(budget, regions, cases) ==
  IF DOMAIN budget = {} /\ \A c \in cases : c.region \notin regions
  THEN cases
  ELSE Pool(budget, regions, cases)

\* What is retained of all the cases run, at once.
Retained(keep, budget, regions, cases) ==
  IF keep > 0
  THEN Largest(keep, cases) \cup Pool(budget, regions, cases)
  ELSE Ranked(budget, regions, cases)
=============================================================================
