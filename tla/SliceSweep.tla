------------------------------ MODULE SliceSweep ------------------------------
(***************************************************************************)
(* run_opentitan_tlul_slice_trace_gpu_sweep.py: one shard of the candidate *)
(* space of a slice, run in batches of cases_per_launch.  A candidate is   *)
(* its index; what its launch shows of it is a score.  The runner may be   *)
(* killed at any time and started anew, perhaps with other seeds, in the   *)
(* same work directory, where every case and every launch has a directory  *)
(* and the summary is two files.  A file is the run that wrote it.         *)
(***************************************************************************)
EXTENDS SliceSelection

CONSTANTS
  Total,          \* total_candidate_space
  ShardCount, ShardIndex,
  PerLaunch,      \* cases_per_launch
  Keep,           \* keep_top_k
  Regions,        \* regions a candidate may be aimed at
  NoRegion,
  TargetRegion,   \* [candidate |-> its region, or NoRegion]
  RegionBudget,   \* the normalised budget: [some of the regions |-> quota]
  Cleanup,        \* --cleanup-non-topk
  Persist,        \* emit_cases_jsonl: a batch.json is written for every candidate
  Scores          \* scores a case may get

VARIABLES
  pc,
  run,       \* number of the run in the work directory
  next,      \* global_case_index
  pending,   \* pending_candidates
  launches,  \* launch_index
  ran,       \* cases evaluated: the lines of the jsonl file
  topk,      \* retained_topk_cases
  pool,      \* region_case_pool
  retained,  \* retained_cases
  case_files, launch_files,   \* [case or launch |-> run that wrote its file, 0 for none]
  summary, view               \* the same of summary.json and of the merge view

memory == <<next, pending, launches, ran, topk, pool, retained>>
files == <<case_files, launch_files, summary, view>>
vars == <<pc, run, memory, files>>

Candidates == 0..(Total - 1)
Mine(n) == { i \in 0..(n - 1) : i % ShardCount = ShardIndex }
Cases ==
  { c \in [index : Candidates, score : Scores, region : Regions \cup {NoRegion}, launch : Candidates] :
      c.region = TargetRegion[c.index] }

Forget ==
  /\ next' = 0 /\ pending' = {} /\ launches' = 0 /\ ran' = {}
  /\ topk' = {} /\ pool' = {} /\ retained' = {}

Init ==
  /\ pc = "enumerate" /\ run = 1
  /\ next = 0 /\ pending = {} /\ launches = 0 /\ ran = {}
  /\ topk = {} /\ pool = {} /\ retained = {}
  /\ case_files = [i \in Candidates |-> 0] /\ launch_files = [i \in Candidates |-> 0]
  /\ summary = 0 /\ view = 0

-----------------------------------------------------------------------------
\* The candidate belongs to another shard.
Skip ==
  /\ pc = "enumerate" /\ next < Total
  /\ next % ShardCount # ShardIndex
  /\ next' = next + 1
  /\ UNCHANGED <<pc, run, pending, launches, ran, topk, pool, retained, files>>

Prepare ==
  /\ pc = "enumerate" /\ next < Total
  /\ next % ShardCount = ShardIndex
  /\ pending' = pending \cup {next}
  /\ case_files' = IF Persist THEN [case_files EXCEPT ![next] = run] ELSE case_files
  /\ pc' = IF Cardinality(pending') >= PerLaunch THEN "launch" ELSE "enumerate"
  /\ next' = next + 1
  /\ UNCHANGED <<run, launches, ran, topk, pool, retained, launch_files, summary, view>>

\* The last launch takes what is left.
Exhaust ==
  /\ pc = "enumerate" /\ next = Total
  /\ pc' = IF pending = {} THEN "rank" ELSE "launch"
  /\ UNCHANGED <<run, memory, files>>

\* The cases of a launch, with the scores it gave them.
Evaluated(score) ==
  { [index |-> i, score |-> score[i], region |-> TargetRegion[i], launch |-> launches] : i \in pending }

\* The directories of cases and launches that this launch leaves unretained.
DroppedCases(after) ==
  ({ c.index : c \in retained } \cup pending) \ { c.index : c \in after }
DroppedLaunches(after) ==
  ({ c.launch : c \in retained } \cup {launches}) \ { c.launch : c \in after }

Without(written, dropped) == [i \in Candidates |-> IF i \in dropped THEN 0 ELSE written[i]]

\* flush_pending.  A kill within the clean-up leaves files that are overwritten
\* or removed like those that a failed launch leaves.
Launch ==
  /\ pc = "launch"
  /\ \E score \in [pending -> Scores] :
       LET new == Evaluated(score)
       IN  /\ ran' = ran \cup new
           /\ pool' = Pool(RegionBudget, Regions, pool \cup new)
           /\ topk' = IF Keep > 0 THEN Largest(Keep, topk \cup new) ELSE topk
           /\ retained' = IF Keep > 0 THEN topk' \cup pool'
                          ELSE Ranked(RegionBudget, Regions, retained \cup new \cup pool')
  /\ LET written == [launch_files EXCEPT ![launches] = run]
     IN  IF Cleanup /\ Keep > 0
         THEN /\ case_files' = Without(case_files, DroppedCases(retained'))
              /\ launch_files' = Without(written, DroppedLaunches(retained'))
         ELSE case_files' = case_files /\ launch_files' = written
  /\ launches' = launches + 1 /\ pending' = {}
  /\ pc' = IF next = Total THEN "rank" ELSE "enumerate"
  /\ UNCHANGED <<run, next, summary, view>>

\* The GPU runner fails, or its summary misses a case: the sweep ends with an error.
FailLaunch ==
  /\ pc = "launch"
  /\ pc' = "failed"
  /\ \/ launch_files' = [launch_files EXCEPT ![launches] = run]
     \/ UNCHANGED launch_files
  /\ UNCHANGED <<run, memory, case_files, summary, view>>

\* A batch.json that is there already is not written again; then everything
\* that is not retained goes, from earlier runs too.
Rank ==
  /\ pc = "rank"
  /\ retained' = IF Keep > 0 THEN topk \cup pool ELSE Ranked(RegionBudget, Regions, retained \cup pool)
  /\ LET ensured == [i \in Candidates |->
                       IF case_files[i] = 0 /\ \E c \in retained' : c.index = i THEN run ELSE case_files[i]]
     IN  IF Cleanup /\ Keep > 0
         THEN /\ case_files' = Without(ensured, Candidates \ { c.index : c \in retained' })
              /\ launch_files' = Without(launch_files, Candidates \ { c.launch : c \in retained' })
         ELSE case_files' = ensured /\ UNCHANGED launch_files
  /\ pc' = "summary"
  /\ UNCHANGED <<run, next, pending, launches, ran, topk, pool, summary, view>>

WriteSummary ==
  /\ pc = "summary"
  /\ summary' = run /\ pc' = "view"
  /\ UNCHANGED <<run, memory, case_files, launch_files, view>>

WriteView ==
  /\ pc = "view"
  /\ view' = run /\ pc' = "done"
  /\ UNCHANGED <<run, memory, case_files, launch_files, summary>>

\* A run is killed, has failed or is done, and another is started.
Restart ==
  /\ run' = run + 1 /\ pc' = "enumerate"
  /\ Forget
  /\ UNCHANGED files

Next ==
  \/ Skip \/ Prepare \/ Exhaust \/ Launch \/ FailLaunch \/ Rank
  \/ WriteSummary \/ WriteView \/ Restart

Spec == Init /\ [][Next]_vars
-----------------------------------------------------------------------------
SweepAssumption ==
  /\ Total \in Nat /\ ShardCount \in Nat \ {0} /\ ShardIndex \in 0..(ShardCount - 1)
  /\ PerLaunch \in Nat \ {0} /\ Keep \in Nat /\ Scores \subseteq Int
  /\ TargetRegion \in [Candidates -> Regions \cup {NoRegion}]
  /\ \A r \in DOMAIN RegionBudget : RegionBudget[r] \in Nat \ {0}

Ended == {"rank", "summary", "view", "done"}

\* Every candidate of the shard is run once, whatever the batches it falls into:
\* those up to the next one are run or pending, and all are once none is left.
Once ==
  /\ { c.index : c \in ran } = Mine(next) \ pending
  /\ \A c, d \in ran : c.index = d.index => c = d
  /\ pc \in Ended => { c.index : c \in ran } = Mine(Total)

\* What is retained is what would be retained of all the cases run so far at
\* once: the sizes and the order of the batches do not matter, although cases
\* are thrown away after every batch.
Batchless ==
  /\ retained = Retained(Keep, RegionBudget, Regions, ran)
  /\ pool = Pool(RegionBudget, Regions, ran)
  /\ Keep > 0 => topk = Largest(Keep, ran)

\* A retained case rests on files this run wrote, the clean-up of this run and
\* what earlier runs left notwithstanding; a finished clean-up has left the
\* files of no other case, of no run.
Fresh ==
  /\ \A c \in retained : launch_files[c.launch] = run /\ (Persist => case_files[c.index] = run)
  /\ (pc \in Ended \ {"rank"} /\ Cleanup /\ Keep > 0) =>
       /\ { i \in Candidates : case_files[i] # 0 } = { c.index : c \in retained }
       /\ { i \in Candidates : launch_files[i] # 0 } = { c.launch : c \in retained }
=============================================================================
