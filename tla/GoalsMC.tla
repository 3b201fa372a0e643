-------------------------------- MODULE GoalsMC --------------------------------
(* Instances of Goals for TLC. *)
EXTENDS Goals, TLC

Choose(open) == [c \in Chains |-> IF c \in open THEN ProfilesOf[c] ELSE {}]

Strong(key) == [key |-> key, winner |-> "hybrid", strong |-> TRUE]
Weak(key) == [key |-> key, winner |-> "hybrid", strong |-> FALSE]
Lost(key) == [key |-> key, winner |-> "baseline", strong |-> FALSE]
Unready(key) == [key |-> key, winner |-> "unready", strong |-> FALSE]

\* What the checked-in selections were made for: thresholds per design are
\* strong where the common one is not, E902 wins at its default gate, E906 and
\* C906 only at lower thresholds, and the hybrid run of C910 is killed.
Repository ==
  [line |-> [p \in Lines |-> CASE p = "fifo5"   -> Weak(5)
                               [] p = "fifo24"  -> Strong(24)
                               [] p = "socket5" -> Strong(5)
                               [] OTHER         -> Strong(8)],
   pool |-> 9, inventory |-> <<"XuanTie", "VeeR", "XiangShan">>,
   shape |-> [stock |-> FALSE, family |-> TRUE, single |-> FALSE],
   pilot |-> [left |-> "no_bench", bench |-> FALSE, tools |-> TRUE],
   boot |-> [d \in Range(Members) |-> TRUE],
   surface |-> [d \in Range(Members) |->
                  CASE d = "XuanTie-E902" -> Surface("hybrid", "none", 0)
                    [] d = "XuanTie-E906" -> Surface("unready", "hybrid", 2)
                    [] d = "XuanTie-C906" -> Surface("unready", "hybrid", 5)
                    [] d = "XuanTie-C910" -> Surface("none", "none", 0)],
   e906 |-> [blocked |-> TRUE, two |-> "hybrid", strongest |-> TRUE],
   faster |-> "XuanTie-C906", fallback_runner |-> TRUE,
   c910 |-> [baseline |-> TRUE, hybrid |-> FALSE, killed |-> TRUE, stalled |-> TRUE,
             probe |-> "timed_out", split |-> "timed_out"]]

\* The lines of the threshold policy, one after another in another state; C906 and
\* C910 differ where the policies whose lines win reach them.
OtherLines ==
  {[Repository EXCEPT !.line["socket_1n"] = Lost(8)],
   [Repository EXCEPT !.line["err"] = Unready(8), !.pool = 8, !.c910.split = "ok"],
   [Repository EXCEPT !.line["fifo24"] = Lost(24), !.surface["XuanTie-C906"] = Surface("unready", "hybrid", 4)]}

OtherSeeds ==
  {[Repository EXCEPT !.inventory = <<"XuanTie", "XiangShan", "VeeR">>],
   [Repository EXCEPT !.surface["XuanTie-E902"] = Surface("baseline", "hybrid", 4)]}

\* E906 is blocked no more: with its candidate selected the campaign ends there,
\* with its default gate it comes to a C910 that is not killed.
OtherDesigns == {[Repository EXCEPT !.e906.blocked = FALSE, !.c910.killed = FALSE]}

\* Every tool in an order in which each finds its files.
MCOrder ==
  <<"options", "policy_gate", "active_scoreboard", "next_kpi", "checkpoint", "axes", "entry",
    "readiness", "override", "entry_gate", "seed", "goal_gate", "breadth_status", "breadth_gate",
    "breadth_acceptance_gate", "breadth_axes", "branch_gate", "branch_profiles", "branch_candidates",
    "same_step", "same_gate", "same_acceptance_gate", "same_next_axes", "c910_status", "c910_gate",
    "c910_split", "c910_tactics", "c910_profiles",
    "policy_matrix", "entry_matrix", "goal_matrix", "breadth_matrix", "breadth_acceptance_matrix",
    "same_matrix", "same_acceptance_matrix">>

MCChoices ==
  [Choose({"policy"}) EXCEPT !["c910"] = {"open_veer_fallback_family", "debug_c910_hybrid_runtime"},
                             !["breadth"] = {"e906_candidate_only_threshold2", "e906_default_gate_hold"}]
MCEvidence == {Repository} \cup OtherLines \cup OtherSeeds \cup OtherDesigns
MCNone == {}
=============================================================================
