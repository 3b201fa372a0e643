---------------------------- MODULE ThresholdPolicy ----------------------------
(***************************************************************************)
(* What the tools from the threshold policy to the real goal write: which  *)
(* comparisons make up the active line, whether they are a checkpoint, on  *)
(* which axis the campaign goes on, with which family, entry mode and      *)
(* design, and whether checkpoint and seed are accepted.                   *)
(*                                                                         *)
(* e is the evidence: e.line[p], the comparison in file p, as [key,        *)
(* winner, strong] (its threshold, its winner, and whether its speedup is  *)
(* at least 2.0); e.pool, the designs ready for the campaign; e.inventory, *)
(* the families with a testbench that are not of OpenTitan, best first;    *)
(* e.shape, the runners of the recommended family; e.pilot, what its old   *)
(* family run left and the programs it needs; e.boot, its designs that     *)
(* were bootstrapped, with whether that succeeded; e.surface, their        *)
(* comparisons.                                                            *)
(***************************************************************************)
EXTENDS SurfaceGates, Naturals, Sequences, FiniteSets, Functions

\* minimum_ready_surfaces of the next KPI and of the checkpoint.
KpiSurfaces == 2
CheckpointSurfaces == 5

\* config/campaign_threshold_policies: scenarios, extra_comparison_paths, profiles.
Scenarios == [v1 |-> {"socket", "fifo"}, t5 |-> {"socket5", "fifo5"}, ds |-> {"socket5", "fifo24"}]
Extras == {"loopback", "err", "sink", "socket_1n", "fifo_async", "xbar_main", "xbar_peri"}
Lines == Extras \cup UNION Range(Scenarios)

Policies ==
  [per_target_ready   |-> [allow |-> TRUE,  match |-> FALSE],
   per_target_blocked |-> [allow |-> TRUE,  match |-> TRUE],
   common_v1_hold     |-> [allow |-> FALSE, match |-> TRUE]]

\* _family_for_target: socket_m1 is a family of its own.
LineFamily(p) ==
  CASE p \in {"socket", "socket5"}       -> "socket"
    [] p \in {"xbar_main", "xbar_peri"}  -> "OpenTitan.XBAR"
    [] OTHER                             -> "OpenTitan.TLUL"

\* build_scoreboard: a row for each comparison file, and what its summary says.
Scoreboard(paths, e) == [p \in paths |-> e.line[p]]
ReadyRows(board) == {p \in DOMAIN board : board[p].winner \in {"hybrid", "baseline"}}
HybridRows(board) == {p \in DOMAIN board : board[p].winner = "hybrid"}
AllHybrid(board) == HybridRows(board) = ReadyRows(board)
WeakestIsStrong(board) == HybridRows(board) # {} /\ \A p \in HybridRows(board) : board[p].strong
KeysMatch(board) == Cardinality({board[p].key : p \in DOMAIN board}) <= 1
StrongLine(board) == AllHybrid(board) /\ WeakestIsStrong(board)

PolicyOptions(e) ==
  LET common == Scoreboard(Scenarios.t5, e)
      specific == Scoreboard(Scenarios.ds, e)
  IN  [status |-> IF KeysMatch(common) /\ StrongLine(common) THEN "promote_common_threshold_v2"
                  ELSE IF StrongLine(specific) THEN "decide_if_design_specific"
                  ELSE "keep_common_v1",
       strong |-> StrongLine(specific)]

\* The gate of a selection [allow, match, extra].
PolicyOutcome(options, s) ==
  LET scenario ==
        CASE options.status = "promote_common_threshold_v2" -> "t5"
          [] options.status = "decide_if_design_specific" /\ s.allow /\ options.strong -> "ds"
          [] OTHER -> "v1"
  IN  [status |-> [t5 |-> "promote_common_v2", ds |-> "promote_design_specific_v2",
                   v1 |-> "hold_current_v1"][scenario],
       match |-> s.match,
       paths |-> Scenarios[scenario] \cup s.extra]

SelectedPolicy(name) == [allow |-> Policies[name].allow, match |-> Policies[name].match, extra |-> Extras]

\* Mutation: the gate names what it promotes instead of the profile.
PolicyGateOfStatus(name, options) ==
  LET o == PolicyOutcome(options, SelectedPolicy(name))
  IN  [profile |-> o.status, status |-> o.status, match |-> o.match, paths |-> o.paths]

PolicyGate(name, options) ==
  LET o == PolicyOutcome(options, SelectedPolicy(name))
  IN  [profile |-> name, status |-> o.status, match |-> o.match, paths |-> o.paths]

ActiveScoreboard(gate, e) ==
  [status |-> gate.status, profile |-> gate.profile, rows |-> Scoreboard(gate.paths, e)]

Kpi(board, match) ==
  [status |-> IF Cardinality(ReadyRows(board)) < KpiSurfaces \/ (match /\ ~KeysMatch(board))
              THEN "stabilize_existing_surfaces"
              ELSE IF ~AllHybrid(board) THEN "repair_existing_surfaces"
              ELSE IF ~WeakestIsStrong(board) THEN "stronger_thresholds"
              ELSE "broader_design_count"]

\* With --policy-gate: the board is computed anew, not read.
NextKpi(gate, e) == Kpi(Scoreboard(gate.paths, e), gate.match)

\* The policies side by side: each is judged without the extra comparisons that
\* its setter would keep.
PolicyMatrix(current, options, e) ==
  LET alone(p) == PolicyOutcome(options, [SelectedPolicy(p) EXCEPT !.extra = {}])
      kpi(p) == Kpi(Scoreboard(alone(p).paths, e), alone(p).match).status
  IN  [status |-> CASE kpi(current) = "broader_design_count" -> "ready"
                    [] kpi(current) = "stabilize_existing_surfaces" -> "blocked"
                    [] OTHER -> IF alone(current).status = "hold_current_v1" THEN "active_like" ELSE "unknown",
       ready |-> {p \in DOMAIN Policies : kpi(p) = "broader_design_count"}]

Checkpoint(board, e) ==
  LET rows == board.rows
      enough == Cardinality(ReadyRows(rows)) >= CheckpointSurfaces
      diverse == Cardinality({LineFamily(p) : p \in DOMAIN rows}) >= 2
  IN  [status |-> CASE ~enough -> "insufficient_active_surfaces"
                    [] enough /\ ~AllHybrid(rows) -> "not_all_hybrid_wins"
                    [] enough /\ AllHybrid(rows) /\ ~WeakestIsStrong(rows) -> "weakest_margin_below_threshold"
                    [] enough /\ StrongLine(rows) /\ diverse -> "cross_family_checkpoint_ready"
                    [] enough /\ StrongLine(rows) /\ ~diverse -> "single_family_checkpoint_ready",
       exhausted |-> e.pool > 0 /\ Cardinality(ReadyRows(rows)) >= e.pool]

PostCheckpointAxes(checkpoint, kpi, e) ==
  LET axis == IF checkpoint.status # "cross_family_checkpoint_ready" THEN "stabilize_current_checkpoint"
              ELSE IF kpi.status # "broader_design_count" THEN "follow_current_active_kpi"
              ELSE IF ~checkpoint.exhausted THEN "finish_current_ready_pool"
              ELSE IF e.inventory = <<>> THEN "choose_between_thresholds_and_promotion"
              ELSE "broaden_non_opentitan_family"
  IN  [status |-> axis,
       family |-> IF axis = "broaden_non_opentitan_family" THEN e.inventory[1] ELSE "",
       inventory |-> e.inventory]
-----------------------------------------------------------------------------
\* _entry_mode_for_family; the families of the inventory have several designs.
EntryMode(shape) ==
  IF shape.stock THEN "single_surface"
  ELSE IF shape.family \/ ~shape.single THEN "family_pilot"
  ELSE "single_surface"

Entry(axes, e) ==
  IF axes.status # "broaden_non_opentitan_family"
  THEN [status |-> "stay", family |-> "", mode |-> ""]
  ELSE [status |-> "choose", family |-> axes.family, mode |-> EntryMode(e.shape)]

PilotReadiness(pilot, bootstrapped) ==
  CASE pilot.left = "unreadable" -> "legacy_artifact_unreadable"
    [] pilot.left = "success"    -> "pilot_artifact_present"
    [] pilot.left = "no_bench" /\ bootstrapped  -> "override_ready"
    [] pilot.left = "no_bench" /\ ~bootstrapped -> "legacy_pilot_failed"
    [] pilot.left = "failed"     -> "legacy_pilot_failed"
    [] pilot.left = "none" /\ ~pilot.bench /\ bootstrapped -> "override_ready"
    [] pilot.left = "none" /\ ~pilot.bench /\ ~bootstrapped -> "blocked_by_missing_tool"
    [] pilot.left = "none" /\ pilot.bench /\ ~pilot.tools -> "blocked_by_missing_tool"
    [] pilot.left = "none" /\ pilot.bench /\ pilot.tools -> "ready_to_run_pilot"

\* Two names of the code are one here, override_ready: a failed pilot and a
\* pilot that lacks its bench, both with a bootstrapped design.
Readiness(entry, e) ==
  LET boot == IF entry.family = "XuanTie" THEN e.boot ELSE <<>>
  IN  [family |-> entry.family, mode |-> entry.mode, boot |-> boot,
       status |-> IF entry.family = "" THEN "no_recommended_entry"
                  ELSE IF entry.mode = "family_pilot"
                       THEN PilotReadiness(e.pilot, \E d \in DOMAIN boot : boot[d])
                  ELSE "needs_entry_mode_specific_runner"]

\* Designs in the order of their source counts.
BySize == <<"XuanTie-E902", "XuanTie-E906", "XuanTie-C906", "XuanTie-C910">>

\* The order of build_override_candidates, the best first.
OverrideRank(d, e, boot) ==
  LET s == e.surface[d]
      wins == <<s.default = "hybrid", s.candidate = "hybrid", s.default \in {"hybrid", "baseline"},
                s.candidate \in {"hybrid", "baseline"}, boot[d]>>
  IN  <<[i \in 1..5 |-> IF wins[i] THEN 0 ELSE 1], CHOOSE i \in 1..4 : BySize[i] = d>>

Ahead(a, b) ==
  \/ \E i \in 1..5 : a[1][i] < b[1][i] /\ \A j \in 1..(i - 1) : a[1][j] = b[1][j]
  \/ a[1] = b[1] /\ a[2] < b[2]

Best(designs, e, boot) ==
  IF designs = {} THEN ""
  ELSE CHOOSE d \in designs : \A x \in designs \ {d} : Ahead(OverrideRank(d, e, boot), OverrideRank(x, e, boot))

OverrideCandidates(readiness, e) ==
  LET boot == readiness.boot
      first == Best(DOMAIN boot, e, boot)
      advise == /\ readiness.mode = "family_pilot" /\ readiness.status = "override_ready"
                /\ DOMAIN boot # {}
  IN  [status |-> CASE readiness.family = "" \/ readiness.mode # "family_pilot" -> "no_family_override_context"
                    [] advise -> "recommend_single_surface"
                    [] OTHER -> "override_not_recommended",
       rows |-> [d \in DOMAIN boot |-> [wins |-> e.surface[d].default = "hybrid", ready |-> boot[d]]],
       recommended |-> IF advise THEN first ELSE "",
       fallback |-> IF advise THEN Best(DOMAIN boot \ {first}, e, boot) ELSE ""]

EntryOutcome(name, entry, readiness, override) ==
  LET rows == override.rows
      design == "XuanTie-E902"
  IN  IF entry.family \notin {"", "XuanTie"} THEN "blocked_wrong_family"
      ELSE IF name = "xuantie_family_pilot_hold"
           THEN IF readiness.status \in {"ready_to_run_pilot", "pilot_artifact_present"}
                THEN "family_pilot_ready" ELSE "family_pilot_blocked"
      ELSE IF design \in DOMAIN rows /\ rows[design].wins THEN "single_surface_trio_ready"
      ELSE IF design \in DOMAIN rows /\ rows[design].ready THEN "single_surface_ready"
      ELSE "single_surface_blocked"

EntryGate(name, entry, readiness, override) ==
  [profile |-> name, status |-> EntryOutcome(name, entry, readiness, override),
   design |-> IF name = "xuantie_family_pilot_hold" THEN "" ELSE "XuanTie-E902"]

EntryMatrix(current, entry, readiness, override) ==
  Matrix(current,
         [p \in {"xuantie_family_pilot_hold", "xuantie_single_surface_e902"} |->
            EntryOutcome(p, entry, readiness, override)],
         <<"xuantie_family_pilot_hold", "xuantie_single_surface_e902">>,
         {"single_surface_ready", "single_surface_trio_ready", "family_pilot_ready"}, {})

SeedStatus(checkpoint, axes, gate) ==
  [status |-> IF checkpoint.status # "cross_family_checkpoint_ready" THEN "blocked_checkpoint_not_ready"
              ELSE IF axes.status # "broaden_non_opentitan_family" THEN "blocked_wrong_expansion_axis"
              ELSE CASE gate.status = "single_surface_trio_ready" -> "ready_to_accept_selected_seed"
                     [] gate.status = "single_surface_ready" -> "ready_to_implement_selected_seed_trio"
                     [] gate.status = "family_pilot_ready" -> "ready_to_run_selected_family_pilot"
                     [] OTHER -> "blocked_on_selected_entry_profile",
   design |-> gate.design]

GoalOutcome(name, checkpoint, seed) ==
  IF name = "hold_checkpoint_and_seed" THEN "hold_checkpoint_and_seed"
  ELSE IF checkpoint.status # "cross_family_checkpoint_ready" THEN "blocked_checkpoint_not_ready"
  ELSE IF name = "accept_checkpoint_only" THEN "checkpoint_accepted_seed_pending"
  ELSE IF seed.status # "ready_to_accept_selected_seed" THEN "blocked_selected_seed_not_ready"
  ELSE "accepted_checkpoint_and_seed"

\* Mutation: the checkpoint that the seed was held against is taken for granted.
GoalGateOfCheckpoint(name, checkpoint, seed) ==
  LET status == GoalOutcome(name, checkpoint, [status |-> "ready_to_accept_selected_seed"])
  IN  [profile |-> name, status |-> status,
       design |-> IF status = "accepted_checkpoint_and_seed" THEN seed.design ELSE ""]

GoalGate(name, checkpoint, seed) ==
  LET status == GoalOutcome(name, checkpoint, seed)
  IN  [profile |-> name, status |-> status,
       design |-> IF status = "accepted_checkpoint_and_seed" THEN seed.design ELSE ""]

\* audit_campaign_real_goal_acceptance_profiles.
GoalMatrix(current, checkpoint, seed) ==
  LET names == <<"accept_checkpoint_and_seed", "accept_checkpoint_only", "hold_checkpoint_and_seed">>
      having(s) == {p \in Range(names) : GoalOutcome(p, checkpoint, seed) = s}
      accepted == having("accepted_checkpoint_and_seed")
      partial == having("checkpoint_accepted_seed_pending")
  IN  IF current \in accepted THEN [status |-> "accept_current", recommended |-> current]
      ELSE IF accepted # {} THEN [status |-> "choose_named", recommended |-> FirstIn(names, accepted)]
      ELSE IF partial # {} THEN [status |-> "accept_checkpoint_before_seed", recommended |-> FirstIn(names, partial)]
      ELSE [status |-> "repair_profiles", recommended |-> "hold_checkpoint_and_seed"]
=============================================================================
