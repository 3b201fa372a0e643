------------------------------ MODULE BranchesMC ------------------------------
(* Instances of Branches for TLC. *)
EXTENDS Branches, TLC

Choose(open) ==
  [c \in Chains |-> IF c \in open THEN ProfilesOf[c] ELSE {}]

\* The probes of Caliptra as README.md reports them: every probe was run.
Faulting ==
  HelperProbes \cup
  {"prefix331", "ret_only", "rd3_ret_only", "rd3_shr12_ret_only", "rd3_small_nonzero_ret_only",
   "rd3_small_aligned_nonzero_ret_only", "b64_synth16_ret_only", "rd4_ret_only", "rd7_ret_only", "first_store",
   "branch1_load", "branch1_load_mask1", "branch1_predicated01", "selp_const1", "masked_data", "mask1_shl8"}
Running ==
  {"prefix330", "noarg_ret_only", "b64_zero_ret_only", "b64_synth16_trunc_ret_only", "rd4_trunc_ret_only",
   "rd7_trunc_ret_only", "ret_only_trunc", "ldptr_ret", "high_offset_load_ret", "first_branch_merge_ret",
   "zero_data", "one_data", "branch1_load_zero_store", "dead_mask_const1", "selp_same_const1", "param_only"}
Probed ==
  [seen |-> Facts,
   link |-> [p \in Probes |-> IF p \in Faulting \cup Running THEN "linked" ELSE "timed_out"],
   smoke |-> [p \in Probes \cup Kernels |->
                CASE p \in Faulting \cup {"split_cubin", "nba_comb", "nba_comb_block1", "nba_comb_block8"} ->
                       "illegal_memory_access"
                  [] p \in Running \cup {"ico", "nba_sequent"} -> "ok"
                  [] p = "cubin" -> "stack_limit_invalid_argument"
                  [] OTHER -> ""]]

\* Before the probes of names were run, and before the files of facts were there.
Unprobed(names) == [Probed EXCEPT !.link = [p \in names \cap Probes |-> ""] @@ @, !.smoke = [p \in names |-> ""] @@ @]
Unseen(facts) == [Probed EXCEPT !.seen = @ \ facts]
Loads == SourceProbes \cup LoadedByteProbes
MCProbings ==
  [all |-> Probed, no_loads |-> Unprobed(Loads),
   no_zero |-> Unprobed({"b64_imm1_ret_only", "b64_zero_ret_only"}),
   no_param |-> Unprobed({"b64_imm1_ret_only", "param_only"}),
   no_prefix |-> Unprobed({"prefix330"}), no_cubin |-> Unseen({"official_cubin"})]

\* What README.md reports of the two branches before XiangShan's module loads:
\* every build of Vortex fails at TLS, the smoke run of XiangShan stalls, its
\* ptxas probe times out.
Repository ==
  [exhaustion |-> [family |-> "XiangShan", fallback |-> "OpenPiton"],
   families |-> <<"BlackParrot", "Vortex", "XiangShan">>,
   later |-> <<"Caliptra", "Example">>,
   vortex |-> [runs |-> TRUE, built |-> FALSE, tls |-> {"default", "O0", "O1"}, bypass |-> "none"],
   xiangshan |-> [boot |-> TRUE, base |-> TRUE, trace |-> "stalled", ptxas |-> "failed", probes |-> "linked"],
   caliptra |-> "decide_debug_vs_open_example", probes |-> "all",
   surface |-> [d \in {"OpenPiton", "BlackParrot", "Vortex", "XiangShan"} |->
                  CASE d = "OpenPiton"   -> Surface("hybrid", "none", 8)
                    [] d = "BlackParrot" -> Surface("baseline", "baseline", 5)
                    [] d = "Vortex"      -> Surface("unready", "hybrid", 4)
                    [] d = "XiangShan"   -> Surface("unready", "hybrid", 2)]]

VortexBuilt == [Repository EXCEPT !.vortex.built = TRUE, !.vortex.tls = {}]

\* Twice round the cycle, so that every file is up to date.
Round ==
  <<"xiangshan_status", "xiangshan_tactics", "openpiton_step", "openpiton_gate", "openpiton_acceptance_gate",
    "post_openpiton_axes", "blackparrot_step", "post_blackparrot_axes", "vortex_status", "vortex_gate",
    "vortex_step", "vortex_policy_gate", "vortex_acceptance_gate", "post_vortex_axes", "caliptra_status",
    "caliptra_tactics",
    "vortex_tactics", "vortex_profiles", "resolution", "xiangshan_deeper", "xiangshan_step", "xiangshan_gate",
    "xiangshan_acceptance_gate", "vortex_deeper">>
MCTwice == Round \o Round
MCAcceptance == [Choose({"vortex_acceptance"}) EXCEPT !["vortex"] = {Debug, Reopen}]
MCNoChoice == Choose({})
MCRepository == {Repository}

\* Vortex builds, and one thing after another differs.
Others ==
  {[VortexBuilt EXCEPT !.probes = "no_cubin"],
   [VortexBuilt EXCEPT !.vortex.runs = FALSE, !.probes = "no_loads"],
   [VortexBuilt EXCEPT !.xiangshan.trace = "loaded", !.probes = "no_zero"],
   [VortexBuilt EXCEPT !.surface["Vortex"] = Surface("unready", "hybrid", 5), !.probes = "no_param"],
   [VortexBuilt EXCEPT !.surface["Vortex"] = Surface("hybrid", "none", 0), !.probes = "no_prefix"],
   [VortexBuilt EXCEPT !.surface["BlackParrot"] = Surface("hybrid", "none", 0)],
   [VortexBuilt EXCEPT !.surface["OpenPiton"].default = "baseline"]}
MCEvidence == {Repository} \cup Others
MCNone == {}
=============================================================================
