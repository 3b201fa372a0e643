-------------------------------- MODULE XuanTie --------------------------------
(***************************************************************************)
(* What the tools from the XuanTie breadth to the C910 runtime gate write: *)
(* E906 as the breadth of the accepted seed, then another design of the    *)
(* family or the fallback family, then C906, and at last C910, whose       *)
(* runtime is debugged or given up for VeeR.                               *)
(*                                                                         *)
(* Of the evidence e they read e.e906, the audits of E906's cases and      *)
(* thresholds; e.surface, the comparisons of the designs; e.faster, the    *)
(* design first in the order of speedup; e.fallback_runner, whether the    *)
(* fallback family has a family runner; and e.c910, what the runs of C910  *)
(* left.                                                                   *)
(***************************************************************************)
EXTENDS SurfaceGates, Naturals, Sequences, Functions

\* raw_family_dirs of XuanTie, in the order of their names: the order in which
\* every list of its designs is written, so that a set stands for the list.
Members == <<"XuanTie-C906", "XuanTie-C910", "XuanTie-E902", "XuanTie-E906">>

\* e.e906.blocked: the default gate fails in every known case; two: the
\* comparison at threshold 2; strongest: 2 is the strongest threshold reached.
\* Where a family pilot could still be run the code says so in the status.
BreadthStatus(goal, readiness, override, e) ==
  LET x == e.e906
      two == x.blocked /\ x.two = "hybrid"
  IN  [status |-> IF goal.status # "accepted_checkpoint_and_seed" THEN "blocked_accept_checkpoint_and_seed_first"
                  ELSE IF override.recommended # "XuanTie-E902" THEN "blocked_unexpected_seed_order"
                  ELSE IF override.fallback # "XuanTie-E906" THEN "blocked_unexpected_e906_fallback_order"
                  ELSE IF two /\ x.strongest THEN "decide_threshold2_promotion"
                  ELSE IF two THEN "decide_e906_candidate_only"
                  ELSE IF x.blocked THEN "define_new_e906_default_gate"
                  ELSE "advance_e906_default_gate",
       blocked |-> x.blocked, two |-> x.two, readiness |-> readiness.status]

BreadthOutcome(name, status) ==
  CASE name = "e906_default_gate_hold" -> IF status.blocked THEN "default_gate_hold" ELSE "default_gate_ready"
    [] name = "e906_candidate_only_threshold2" ->
         IF status.status \in {"decide_threshold2_promotion", "decide_e906_candidate_only"} /\ status.two = "hybrid"
         THEN "candidate_only_ready" ELSE "candidate_only_blocked"
    [] name = "xuantie_family_pilot_recovery" ->
         IF status.readiness = "ready_to_run_pilot" THEN "family_pilot_ready" ELSE "family_pilot_blocked"

BreadthGate(name, status) ==
  [profile |-> name, status |-> BreadthOutcome(name, status),
   design |-> IF name = "xuantie_family_pilot_recovery" THEN "" ELSE "XuanTie-E906"]

BreadthMatrix(current, status) ==
  LET profiles == <<"e906_candidate_only_threshold2", "e906_default_gate_hold", "xuantie_family_pilot_recovery">>
  IN  Matrix(current, [p \in Range(profiles) |-> BreadthOutcome(p, status)], profiles,
             ReadyStatuses \cup {"family_pilot_ready"}, {"default_gate_hold"})

BreadthAcceptanceStatus(name, goal, gate) ==
  AcceptanceStatus(goal.status = "accepted_checkpoint_and_seed", name = "accept",
                   gate.status, ReadyStatuses \cup {"family_pilot_ready"})

BreadthAcceptance(name, goal, gate) ==
  AcceptanceReport(name, BreadthAcceptanceStatus(name, goal, gate), gate)

BreadthAcceptanceMatrix(current, goal, gate) ==
  Matrix(current, [p \in {"accept", "hold"} |-> BreadthAcceptanceStatus(p, goal, gate)],
         <<"accept", "hold">>, {"accepted"}, {"hold"})

\* The family after the recommended one in the inventory.
FallbackFamily(axes) ==
  LET at == {i \in 1..Len(axes.inventory) : axes.inventory[i] = axes.family /\ i < Len(axes.inventory)}
  IN  IF at = {} THEN "" ELSE axes.inventory[(CHOOSE i \in at : TRUE) + 1]

BreadthAxes(goal, acceptance, axes) ==
  LET remaining == IF axes.family = "XuanTie" THEN Range(Members) \ {goal.design, acceptance.design} ELSE {}
  IN  [status |-> IF goal.status # "accepted_checkpoint_and_seed" THEN "blocked_checkpoint_seed_not_accepted"
                  ELSE IF acceptance.status # "accepted" THEN "blocked_breadth_not_accepted"
                  ELSE IF axes.family # "XuanTie" THEN "blocked_unexpected_family"
                  ELSE IF remaining # {} THEN "decide_continue_vs_fallback"
                  ELSE "decide_move_to_fallback_family",
       family |-> axes.family, fallback |-> FallbackFamily(axes), remaining |-> remaining]

BranchOutcome(name, axes) ==
  LET decide == axes.status = "decide_continue_vs_fallback"
  IN  CASE name = "hold_post_e906_branch" -> "hold_post_e906_branch"
        [] name = "xuantie_continue_same_family" ->
             IF decide /\ axes.family = "XuanTie" /\ axes.remaining # {}
             THEN "continue_same_family_ready" ELSE "continue_same_family_blocked"
        [] name = "open_veer_fallback_family" ->
             IF decide /\ axes.fallback = "VeeR"
             THEN "open_fallback_family_ready" ELSE "open_fallback_family_blocked"

BranchGate(name, axes) == [profile |-> name, status |-> BranchOutcome(name, axes)]

BranchReady(axes) ==
  {p \in {"xuantie_continue_same_family", "open_veer_fallback_family"} :
     BranchOutcome(p, axes) \in {"continue_same_family_ready", "open_fallback_family_ready"}}

\* audit_campaign_non_opentitan_breadth_profiles.
BranchProfiles(current, axes) ==
  LET ready == BranchReady(axes)
  IN  [status |-> IF ready = {} THEN "repair_profiles"
                  ELSE IF ready = {current} THEN "accept_current" ELSE "choose_named",
       ready |-> ready]
-----------------------------------------------------------------------------
\* The comparisons of a design that is measured at its default gate and at one
\* candidate threshold, and the threshold of its best win.
LineKind(s) ==
  IF s.default = "hybrid" THEN "default_gate_hybrid_win"
  ELSE IF s.candidate = "hybrid" THEN "candidate_only_hybrid_win"
  ELSE IF s.default # "none" \/ s.candidate # "none" THEN "comparison_exists_but_not_ready"
  ELSE "no_comparison_artifact"

\* Default wins before candidate wins before the rest, then by speedup.
FirstDesign(designs, e) ==
  LET kind(k) == {d \in designs : LineKind(e.surface[d]) = k}
      rest == IF kind("default_gate_hybrid_win") # {} THEN kind("default_gate_hybrid_win")
              ELSE IF kind("candidate_only_hybrid_win") # {} THEN kind("candidate_only_hybrid_win")
              ELSE designs
  IN  IF e.faster \in rest THEN e.faster ELSE CHOOSE d \in rest : TRUE

BranchCandidates(axes, profiles, e) ==
  LET continue == "xuantie_continue_same_family" \in profiles.ready /\ axes.remaining # {}
      open == "open_veer_fallback_family" \in profiles.ready /\ e.fallback_runner
      first == IF continue THEN FirstDesign(axes.remaining, e) ELSE ""
  IN  [status |-> IF continue /\ open THEN "recommend_same_family_first"
                  ELSE IF continue THEN "recommend_same_family_only_ready_branch"
                  ELSE IF open THEN "recommend_fallback_family_first"
                  ELSE "blocked_no_ready_branch",
       first |-> first,
       designs |-> IF continue THEN axes.remaining ELSE {},
       kind |-> IF continue THEN LineKind(e.surface[first]) ELSE "",
       value |-> IF continue THEN e.surface[first].value ELSE 0,
       fallback |-> IF continue /\ open THEN "VeeR" ELSE ""]

SameFamilyStep(gate, candidates) ==
  LET step(status, design) == [status |-> status, design |-> design, value |-> candidates.value]
  IN  IF gate.status # "continue_same_family_ready" THEN step("blocked_branch_not_active", "")
      ELSE IF candidates.designs = {} THEN step("blocked_candidates_missing", "")
      ELSE step([default_gate_hybrid_win |-> "ready_to_accept_default_gate",
                 candidate_only_hybrid_win |-> "decide_candidate_only",
                 comparison_exists_but_not_ready |-> "default_gate_unresolved",
                 no_comparison_artifact |-> "run_trio"][candidates.kind], candidates.first)

SameFamilyProfile ==
  [c906_candidate |-> Candidate("XuanTie-C906", 5), c906_hold |-> Hold("XuanTie-C906")]

\* Any status of a step but the three HoldStatus knows is one it blocks.
SameFamilyGate(name, step) == PolicyReport(name, SameFamilyProfile[name], step)

SameFamilyMatrix(current, step) ==
  Matrix(current, [p \in {"c906_candidate", "c906_hold"} |-> PolicyStatus(SameFamilyProfile[p], step)],
         <<"c906_candidate", "c906_hold">>, ReadyStatuses, {"default_gate_hold"})

SameFamilyAcceptanceStatus(name, branch, gate) ==
  AcceptanceStatus(branch.status = "continue_same_family_ready", name = "accept", gate.status, ReadyStatuses)

SameFamilyAcceptance(name, branch, gate) ==
  AcceptanceReport(name, SameFamilyAcceptanceStatus(name, branch, gate), gate)

SameFamilyAcceptanceMatrix(current, branch, gate) ==
  Matrix(current, [p \in {"accept", "hold"} |-> SameFamilyAcceptanceStatus(p, branch, gate)],
         <<"accept", "hold">>, {"accepted"}, {"hold"})

SameFamilyNextAxes(candidates, acceptance) ==
  LET remaining == candidates.designs \ {acceptance.design}
  IN  [status |-> IF acceptance.status # "accepted" THEN "blocked_step_not_accepted"
                  ELSE IF remaining # {} THEN "decide_continue_vs_fallback"
                  ELSE "decide_move_to_fallback_family",
       design |-> IF acceptance.status = "accepted" THEN FirstIn(Members, remaining) ELSE "",
       fallback |-> candidates.fallback]
-----------------------------------------------------------------------------
\* e.c910: baseline and hybrid ok; killed; stalled (the trace of the O1 build
\* ends before the module is loaded); probe, of the cubin; split, of the trial.
C910Status(e) ==
  LET c == e.c910
  IN  [status |-> IF c.baseline /\ c.killed THEN "decide_debug_vs_open_veer"
                  ELSE IF c.baseline /\ c.hybrid THEN "ready_to_compare"
                  ELSE "repair",
       stuck |-> c.stalled /\ c.probe \in {"timed_out", "killed"}]

C910Outcome(name, status, axes) ==
  IF axes.status # "decide_continue_vs_fallback" THEN "blocked_branch_not_active"
  ELSE IF axes.design # "XuanTie-C910" THEN "blocked_design_is_not_c910"
  ELSE CASE name = "hold_c910_runtime_branch" -> "hold_c910_runtime_branch"
         [] name = "debug_c910_hybrid_runtime" ->
              [decide_debug_vs_open_veer |-> "debug_ready", ready_to_compare |-> "recovered",
               repair |-> "blocked_debug_not_ready"][status.status]
         [] name = "open_veer_fallback_family" ->
              IF axes.fallback = "VeeR" THEN "open_fallback_family_ready" ELSE "blocked_fallback_not_ready"

\* Mutation: the accepted C906 before C910 is not asked for.
C910GateOfFallback(name, status, axes) ==
  [profile |-> name,
   status |-> IF name = "open_veer_fallback_family" /\ axes.fallback = "VeeR" THEN "open_fallback_family_ready"
              ELSE C910Outcome(name, status, axes)]

C910Gate(name, status, axes) == [profile |-> name, status |-> C910Outcome(name, status, axes)]

C910Split(e) ==
  [status |-> IF e.c910.split = "timed_out" THEN "timed_out_before_load"
              ELSE IF e.c910.split = "ok" THEN "progressed" ELSE "inconclusive"]

\* Mutation: the tactics look at the runtime whatever profile is selected.
C910TacticsOfStatus(status, gate, split) ==
  [status |-> IF status.status = "decide_debug_vs_open_veer" /\ status.stuck /\ split.status = "timed_out_before_load"
              THEN "open_veer_fallback_family" ELSE "deeper_debug"]

C910Tactics(status, gate, split) ==
  [status |-> IF gate.profile # "debug_c910_hybrid_runtime" THEN "choose_profile"
              ELSE IF gate.status # "debug_ready" THEN "repair"
              ELSE IF status.status = "decide_debug_vs_open_veer" /\ status.stuck
              THEN IF split.status = "timed_out_before_load"
                   THEN "open_veer_fallback_family" ELSE "try_kernel_split"
              ELSE IF status.status = "ready_to_compare" THEN "compare"
              ELSE "deeper_debug"]

\* audit_campaign_xuantie_c910_runtime_profiles.
C910Profiles(current, status, axes, tactics) ==
  LET ready == {p \in {"debug_c910_hybrid_runtime", "open_veer_fallback_family"} :
                  C910Outcome(p, status, axes) \in {"debug_ready", "recovered", "open_fallback_family_ready"}}
      recommended ==
        IF ready = {} THEN ""
        ELSE IF \/ "debug_c910_hybrid_runtime" \notin ready
                \/ /\ Present(tactics) /\ tactics.status = "open_veer_fallback_family"
                   /\ "open_veer_fallback_family" \in ready
        THEN "open_veer_fallback_family"
        ELSE "debug_c910_hybrid_runtime"
  IN  [status |-> IF ready = {} THEN "repair_profiles"
                  ELSE IF current = recommended THEN "accept_current" ELSE "choose_named",
       recommended |-> recommended]
=============================================================================
