---------------------------- MODULE SweepCampaign ----------------------------
(***************************************************************************)
(* src/src/runners/run_opentitan_tlul_slice_trace_gpu_sweep_campaign.py:   *)
(* the shards of a sweep campaign run by a thread pool, and the early stop *)
(* when the merged result has converged.                                   *)
(*                                                                         *)
(* The main thread submits shards in index order, at most worker_count in  *)
(* flight, waits for the first to end and harvests those that have ended   *)
(* in whatever order the set of done futures yields. The convergence state *)
(* is defined over the loaded shards in index order, so a shard that ends  *)
(* out of order makes it rebuild that state from the beginning.            *)
(*                                                                         *)
(* A shard retains at most one case here; its index is the shard's. The    *)
(* score tuple is one number, which is also the number of points hit, and  *)
(* the case is active in its target region. Every shard evaluates the same *)
(* number of cases, so the thresholds per 1000 cases are per shard.        *)
(***************************************************************************)
EXTENDS SliceSelection, FiniteSetsExt

CONSTANTS
    NumShards,      \* shards of the manifest
    Workers,        \* worker_count
    TopK,           \* global_top_k
    Regions,        \* target regions
    Budget,         \* those with a positive quota in region_budget
    MaxScore,       \* bound on the score of a case
    MinCompleted,   \* convergence_min_completed_shards
    StableShards,   \* convergence_stable_shards
    MaxNewRegions,  \* convergence_min_new_regions_per_1k, for one shard
    MaxHitGain,     \* convergence_min_hit_gain_per_1k, for one shard
    MaxChurnPct,    \* convergence_max_topk_churn, in percent
    None,           \* no region, no shard index
    NoFile,         \* a shard that ended well and left no summary
    Failed          \* a shard that ended with an error

ASSUME ConstantsAssumption ==
    /\ NumShards \in Nat \ {0} /\ Workers \in Nat \ {0}
    /\ {TopK, MaxScore, MinCompleted, StableShards, MaxNewRegions,
        MaxHitGain, MaxChurnPct} \subseteq Nat
    /\ Budget \subseteq Regions
    /\ None \notin Regions /\ None \notin Int

VARIABLES
    pc,             \* main thread
    next,           \* pending holds the shards next..NumShards
    in_flight,      \* submitted and not harvested
    result,         \* what each run that has ended left
    done,           \* futures of this round still to be harvested
    completed,      \* shards harvested well
    failed,         \* shards harvested as failed
    loaded,         \* payloads of the completed shards that left one
    conv,           \* convergence_state
    early,          \* early_stop_triggered
    stop_at         \* recommended_stop_at_shard reported by the execution

vars == <<pc, next, in_flight, result, done, completed, failed, loaded, conv,
          early, stop_at>>

Shards == 1..NumShards
Case   == [index : Shards, score : 0..MaxScore, region : Regions]
\* What shard s may retain.
Payloads(s) == {{}} \cup { {c} : c \in { d \in Case : d.index = s } }

Conv == [regions : SUBSET Regions, topk : SUBSET Case, best : SUBSET Case,
         previous_topk : SUBSET Shards, best_hit : 0..MaxScore,
         streak : 0..NumShards, shards : 0..NumShards,
         stop : BOOLEAN, stop_at : Shards \cup {None}]

-----------------------------------------------------------------------------
(* The convergence state. *)

BestByRegion(cases) ==
    { c \in cases : \A d \in cases : d.region = c.region => ~Better(d, c) }

Selected(topk, best) ==
    { c.index : c \in topk \cup { b \in best : b.region \in Budget } }

HitOf(cases) == Max({0} \cup { c.score : c \in cases })

NewConvergence ==
    [regions |-> {}, topk |-> {}, best |-> {}, previous_topk |-> {},
     best_hit |-> 0, streak |-> 0, shards |-> 0, stop |-> FALSE, stop_at |-> None]

\* topk_churn_ratio <= max_topk_churn; the ratio is 1 after an empty top-k.
ChurnIsLow(before, after) ==
    IF before = {} THEN MaxChurnPct >= 100
    ELSE 100 * Cardinality((before \ after) \cup (after \ before))
             <= MaxChurnPct * Max({1, TopK})

\* A slip: every later shard that is stable recommends the stop anew.
StopsAgain(state, streak) ==
    state.shards + 1 >= MinCompleted /\ streak >= StableShards

Stops(state, streak) ==
    /\ ~state.stop
    /\ state.shards + 1 >= MinCompleted
    /\ streak >= StableShards

Advance(state, s, cases) ==
    LET topk     == IF TopK > 0 THEN Largest(TopK, state.topk \cup cases) ELSE {}
        best     == IF TopK > 0 THEN BestByRegion(state.best \cup cases) ELSE {}
        selected == Selected(topk, best)
        regions  == state.regions \cup { c.region : c \in cases }
        hit      == Max({state.best_hit, HitOf(cases)})
        stable   == /\ Cardinality(regions \ state.regions) <= MaxNewRegions
                    /\ hit - state.best_hit <= MaxHitGain
                    /\ ChurnIsLow(state.previous_topk, selected)
        streak   == IF stable THEN state.streak + 1 ELSE 0
        stops    == Stops(state, streak)
    IN [regions |-> regions, topk |-> topk, best |-> best,
        previous_topk |-> selected, best_hit |-> hit, streak |-> streak,
        shards |-> state.shards + 1,
        stop |-> state.stop \/ stops,
        stop_at |-> IF stops THEN s ELSE state.stop_at]

\* _rebuild_convergence_state, and the loop of merge_shard_summaries. The
\* CHOOSE only makes TLC evaluate the state before s once.
Replay(payload) ==
    LET upTo[s \in 0..NumShards] ==
            IF s = 0 THEN NewConvergence
            ELSE IF s \in DOMAIN payload
            THEN CHOOSE after \in { Advance(before, s, payload[s]) :
                                     before \in {upTo[s - 1]} } : TRUE
            ELSE upTo[s - 1]
    IN upTo[NumShards]

-----------------------------------------------------------------------------
TypeOK ==
    /\ pc \in {"wait", "harvest", "raising", "raised", "returned"}
    /\ next \in 1..(NumShards + 1)
    /\ in_flight \subseteq Shards /\ Cardinality(in_flight) <= Workers
    /\ \A s \in DOMAIN result : result[s] \in Payloads(s) \cup {NoFile, Failed}
    /\ done \subseteq in_flight
    /\ completed \subseteq Shards /\ failed \subseteq Shards
    /\ \A s \in DOMAIN loaded : loaded[s] \in Payloads(s)
    /\ conv \in Conv
    /\ early \in BOOLEAN
    /\ stop_at \in Shards \cup {None}

-----------------------------------------------------------------------------
\* A slip: a whole new set of workers is filled.
ScheduleAll(flying) ==
    LET n == Min({Workers, NumShards + 1 - next})
    IN /\ in_flight' = flying \cup next..(next + n - 1)
       /\ next' = next + n

\* _maybe_schedule, with what is in flight when it is called.
Schedule(flying) ==
    LET n == Min({Workers - Cardinality(flying), NumShards + 1 - next})
    IN /\ in_flight' = flying \cup next..(next + n - 1)
       /\ next' = next + n

Init ==
    /\ pc = "wait"
    /\ next = Min({Workers, NumShards}) + 1
    /\ in_flight = 1..Min({Workers, NumShards})
    /\ result = [s \in {} |-> {}]
    /\ done = {} /\ completed = {} /\ failed = {}
    /\ loaded = [s \in {} |-> {}]
    /\ conv = NewConvergence
    /\ early = FALSE /\ stop_at = None

Extend(f, s, v) == [t \in DOMAIN f \cup {s} |-> IF t = s THEN v ELSE f[t]]

\* A worker: the shard's process ends, and has left what it leaves.
EndShard(s) ==
    /\ s \in in_flight \ DOMAIN result
    /\ \E r \in Payloads(s) \cup {NoFile, Failed} : result' = Extend(result, s, r)
    /\ UNCHANGED <<pc, next, in_flight, done, completed, failed, loaded, conv,
                   early, stop_at>>

\* wait(in_flight, FIRST_COMPLETED) returns all that have ended.
Wait ==
    /\ pc = "wait"
    /\ in_flight \cap DOMAIN result # {}
    /\ done' = in_flight \cap DOMAIN result
    /\ pc' = "harvest"
    /\ UNCHANGED <<next, in_flight, result, completed, failed, loaded, conv,
                   early, stop_at>>

\* future.result() raises; the executor's exit waits for the others.
HarvestFailed(s) ==
    /\ pc = "harvest" /\ s \in done /\ result[s] = Failed
    /\ in_flight' = in_flight \ {s} /\ done' = {}
    /\ failed' = failed \cup {s}
    /\ pc' = "raising"
    /\ UNCHANGED <<next, result, completed, loaded, conv, early, stop_at>>

\* A slip: the state is advanced in place whatever the index of s.
ConvergeInPlace(s) == Advance(conv, s, result[s])

\* The convergence state with the payload of s taken in.
Converge(s) ==
    IF \A t \in DOMAIN loaded : t < s
    THEN Advance(conv, s, result[s])
    ELSE Replay(Extend(loaded, s, result[s]))

\* A slip: the decision is taken on the state before this shard.
LoadDecidingFirst(s) ==
    /\ loaded' = Extend(loaded, s, result[s])
    /\ conv' = Converge(s)
    /\ early' = (early \/ conv.stop)
    /\ stop_at' = IF conv.stop THEN conv.stop_at ELSE stop_at

\* What a harvested shard does to the convergence and the decision to stop.
Load(s) ==
    /\ loaded' = Extend(loaded, s, result[s])
    /\ conv' = Converge(s)
    /\ early' = (early \/ conv'.stop)
    /\ stop_at' = IF conv'.stop THEN conv'.stop_at ELSE stop_at

Harvest(s) ==
    /\ pc = "harvest" /\ s \in done /\ result[s] # Failed
    /\ in_flight' = in_flight \ {s} /\ done' = done \ {s}
    /\ completed' = completed \cup {s}
    /\ IF result[s] = NoFile THEN UNCHANGED <<loaded, conv, early, stop_at>>
                             ELSE Load(s)
    /\ UNCHANGED <<pc, next, result, failed>>

\* A slip: the loop goes on while shards are pending, also when stopping.
EndRoundWhilePending ==
    /\ pc = "harvest" /\ done = {}
    /\ IF early THEN UNCHANGED <<next, in_flight>> ELSE Schedule(in_flight)
    /\ pc' = IF in_flight' = {} /\ next' > NumShards THEN "returned" ELSE "wait"
    /\ UNCHANGED <<result, done, completed, failed, loaded, conv, early, stop_at>>

\* A slip: the loop is left as soon as it stops early.
EndRoundLeaving ==
    /\ pc = "harvest" /\ done = {}
    /\ IF early THEN UNCHANGED <<next, in_flight>> ELSE Schedule(in_flight)
    /\ pc' = IF in_flight' = {} \/ early THEN "returned" ELSE "wait"
    /\ UNCHANGED <<result, done, completed, failed, loaded, conv, early, stop_at>>

\* The for loop is over: submit more unless stopping, and wait again.
EndRound ==
    /\ pc = "harvest" /\ done = {}
    /\ IF early THEN UNCHANGED <<next, in_flight>> ELSE Schedule(in_flight)
    /\ pc' = IF in_flight' = {} THEN "returned" ELSE "wait"
    /\ UNCHANGED <<result, done, completed, failed, loaded, conv, early, stop_at>>

Raise ==
    /\ pc = "raising" /\ in_flight \subseteq DOMAIN result
    /\ pc' = "raised"
    /\ UNCHANGED <<next, in_flight, result, done, completed, failed, loaded,
                   conv, early, stop_at>>

Main == Wait \/ EndRound \/ Raise \/ \E s \in Shards : Harvest(s) \/ HarvestFailed(s)

Next == Main \/ \E s \in Shards : EndShard(s)

Spec == Init /\ [][Next]_vars

\* The main thread goes on when it can, and every shard's process ends.
FairSpec == Spec /\ WF_vars(Main) /\ \A s \in Shards : WF_vars(EndShard(s))

-----------------------------------------------------------------------------
(* What convergence means, of the set of loaded shards: no reference to the *)
(* order they ended in, nor to how the state is accumulated.                *)

Gathered(shards) == UNION { loaded[s] : s \in shards }
UpTo(s)          == { t \in DOMAIN loaded : t <= s }
Chosen(cases)    == IF TopK = 0 THEN {}
                    ELSE Selected(Largest(TopK, cases), BestByRegion(cases))
RegionsOf(cases) == { c.region : c \in cases }

StableAt(s) ==
    LET before == Gathered(UpTo(s) \ {s})
        after  == Gathered(UpTo(s))
    IN /\ Cardinality(RegionsOf(after) \ RegionsOf(before)) <= MaxNewRegions
       /\ HitOf(after) - HitOf(before) <= MaxHitGain
       /\ ChurnIsLow(Chosen(before), Chosen(after))

ConvergedAt(s) ==
    /\ Cardinality(UpTo(s)) >= MinCompleted
    /\ Cardinality({ t \in UpTo(s) : \A u \in UpTo(s) : u >= t => StableAt(u) })
           >= StableShards

(* The stop recommended at any moment is at the first shard, in index order *)
(* over all that are loaded, where the last stable_shards shards changed    *)
(* nothing: ending order does not matter, accumulating the top-k and the    *)
(* best cases shard by shard loses nothing, and advancing in place agrees   *)
(* with rebuilding (:704-719, :936-1053).                                   *)
StopIsWhereConverged ==
    LET stops == { s \in DOMAIN loaded : ConvergedAt(s) }
    IN /\ conv.stop = (stops # {})
       /\ conv.stop_at = IF stops = {} THEN None ELSE Min(stops)
       /\ conv.shards = Cardinality(DOMAIN loaded)
       /\ TopK > 0 => conv.topk = Largest(TopK, Gathered(DOMAIN loaded))

(* A recommended stop stays where it is until a shard of a lower index than *)
(* the recommended one is harvested after it: later shards never move or    *)
(* revoke it (:704-723, :996-1007).                                         *)
OnlyStragglersMoveTheStop ==
    [][ conv.stop /\ conv'.stop_at # conv.stop_at =>
            \E s \in DOMAIN loaded' \ DOMAIN loaded : s < conv.stop_at ]_vars

(* When the campaign returns, every shard has completed or never ran, none  *)
(* has failed, what was in flight at the early stop is harvested too, and   *)
(* some never ran only if it stopped early (:686-743).                      *)
ReturnAccountsForAll ==
    pc = "returned" =>
        /\ \A s \in Shards : s \in completed <=> s < next
        /\ \A s \in DOMAIN result : result[s] # Failed
        /\ DOMAIN result = completed
        /\ next <= NumShards => early

\* The campaign ends, in a return or an exception.
CampaignEnds == <>(pc \in {"returned", "raised"})
=============================================================================
