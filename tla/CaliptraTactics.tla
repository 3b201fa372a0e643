---------------------------- MODULE CaliptraTactics ----------------------------
(***************************************************************************)
(* What audit_campaign_caliptra_debug_tactics.py advises for Caliptra, the *)
(* last family opened: how far the probes in work/ narrow the place where  *)
(* its GPU build or its kernels fail.  A probe compiles a variant of the   *)
(* PTX with nvcc, links it and runs it; split kernels are run one by one.  *)
(* A result is the triple of compile, link and linked_exists of the        *)
(* probe's file, and what the log of its smoke run says; both may be       *)
(* missing.                                                                *)
(***************************************************************************)
EXTENDS Naturals, Sequences

RuntimeFaults == {"illegal_memory_access", "unspecified_launch_failure", "misaligned_address"}

\* The tactics before the truncated probes do not know of misaligned addresses.
AccessFaults == RuntimeFaults \ {"misaligned_address"}

\* "" stands for no log or an empty one.
SmokeStatuses ==
  {"", "stack_limit_invalid_argument", "invalid_argument", "device_kernel_image_invalid",
   "named_symbol_not_found", "ok", "unknown"} \cup RuntimeFaults

\* A link is tried only if the compilation is ok, and both outputs are removed
\* first: a compilation that times out leaves no linked file.
LinkResults == {"", "failed", "timed_out", "linked"}

\* The probes by the part of the kernel they cut out, named without
\* split_nba_comb_ and m_axi_if0_, in the order in which they are read.
PrefixProbes == {"prefix330", "prefix331"}
HelperProbes == {"zero_high_offsets", "ret_after_first_store", "first_half_zero_high_offsets", "min_store_only"}
ReturnProbes ==
  {"ret_only", "noarg_ret_only", "b64_zero_ret_only", "b64_one_ret_only", "rd3_ret_only",
   "rd3_shr12_ret_only", "rd3_small_nonzero_ret_only", "rd3_small_aligned_nonzero_ret_only",
   "b64_synth16_ret_only", "b64_synth16_trunc_ret_only"}
ArgumentProbes ==
  {"rd4_ret_only", "rd4_trunc_ret_only", "rd1_ret_only", "rd6_ret_only", "rd7_ret_only",
   "rd7_trunc_ret_only", "ret_only_trunc", "ldptr_ret", "high_offset_load_ret", "first_branch_merge_ret"}

\* Of these the names go without first_store_ and _ret_trunc.
StoreProbes ==
  {"first_store", "zero_data", "one_data", "branch1_load", "branch1_load_mov",
   "branch1_load_zero_store", "branch1_load_mask1", "branch1_predicated01", "branch1_predicated11"}
SelectProbes ==
  {"branch1_predicated10", "selp_const1", "selp_const1_and255", "selp_const2", "selp_const3",
   "selp_const129", "selp_const257", "selp_const513", "selp_const0"}
MaskedDataProbes ==
  {"masked_data", "masked_dead_mask_const1", "masked_selp_same_const1", "masked_mask1",
   "masked_predicated01", "masked_force_else", "masked_selp_const1", "masked_mask1_shl8"}
DeadMaskProbes == {"dead_mask_const1", "dead_mask_zero", "selp_same_const1", "selp_same_const257"}
ShiftProbes ==
  {"mask1_shl8", "mask1_shl8_and255", "mask1_shl1", "mask1_shl4", "mask1_shl6", "mask1_shl7",
   "mask1_shl9", "mask1_shr8"}
SourceProbes == {"mask1_shl8_sep_reg", "mask1_sep_reg", "xor_self_zero", "self_load", "store_plus1"}
LoadedByteProbes == {"mask1_or1", "mask2", "maskff", "mask3", "alt_load"}
LateProbes == {"b64_imm1_ret_only", "param_only"}

Probes ==
  UNION {PrefixProbes, HelperProbes, ReturnProbes, ArgumentProbes, StoreProbes, SelectProbes,
         MaskedDataProbes, DeadMaskProbes, ShiftProbes, SourceProbes, LoadedByteProbes, LateProbes}

\* Kernels run whole: the monolithic cubin, the split one, and its kernels,
\* that of nba_comb with three block sizes.
Kernels == {"cubin", "split_cubin", "ico", "nba_comb", "nba_comb_block1", "nba_comb_block8", "nba_sequent"}

\* What the other files show, each by itself.
Facts ==
  {"bypass_ll", "official_ptx", "official_cubin",     \* the files of the build exist
   "compile_only_object",      \* ptxas -c gives an object with the kernel in it
   "full_cubin_timed_out", "stack_limits",            \* a limit accepted, one rejected
   "launch_rejected",          \* an invalid argument at the largest limit accepted
   "launch_sequence", "split_object", "zero_stack", "split_linked"}

ProbeEvidence ==
  [seen : SUBSET Facts, link : [Probes -> LinkResults], smoke : [Probes \cup Kernels -> SmokeStatuses]]

Runs(k, S) == \A p \in S : k.link[p] = "linked" /\ k.smoke[p] = "ok"
Fails(k, S, faults) == \A p \in S : k.link[p] = "linked" /\ k.smoke[p] \in faults
TimesOut(k, S) == \A p \in S : k.link[p] = "timed_out"
-----------------------------------------------------------------------------
\* The tactics, each with what it asks of the files, the shallowest first.
PtxasDebug(k, status) ==
  status.status = "decide_debug_vs_open_example" /\ {"bypass_ll", "official_ptx"} \subseteq k.seen
FullCubinDebug(k, status) ==
  PtxasDebug(k, status) /\ {"compile_only_object", "full_cubin_timed_out"} \subseteq k.seen
StackCeilingDebug(k) == k.smoke["cubin"] = "stack_limit_invalid_argument"
StackFootprintDebug(k) == StackCeilingDebug(k) /\ {"stack_limits", "launch_rejected"} \subseteq k.seen
ExecutablePathDebug(k) ==
  StackFootprintDebug(k) /\ {"launch_sequence", "split_object", "zero_stack"} \subseteq k.seen
SplitCubinDebug(k) == ExecutablePathDebug(k) /\ "split_linked" \in k.seen
SplitRuntimeDebug(k) == SplitCubinDebug(k) /\ k.smoke["split_cubin"] = "illegal_memory_access"

NbaCombDebug(k) ==
  /\ SplitCubinDebug(k)
  /\ k.smoke["ico"] = "ok" /\ k.smoke["nba_sequent"] = "ok"
  /\ \A b \in {"nba_comb", "nba_comb_block1", "nba_comb_block8"} : k.smoke[b] \in AccessFaults
CallDebug(k) == SplitCubinDebug(k) /\ Runs(k, {"prefix330"}) /\ Fails(k, {"prefix331"}, AccessFaults)

\* The call of the helper faults in its first half, and when it does nothing.
HalvesFail(k) ==
  CallDebug(k) /\ Fails(k, {"zero_high_offsets", "ret_after_first_store", "first_half_zero_high_offsets"}, AccessFaults)
EmptyCallFails(k) == Fails(k, {"min_store_only", "ret_only"}, AccessFaults)
FirstHalfDebug(k) == HalvesFail(k) /\ ~EmptyCallFails(k)
CallEntryDebug(k) == HalvesFail(k) /\ EmptyCallFails(k) /\ Runs(k, {"noarg_ret_only", "param_only"})
LiveArgumentDebug(k) == CallEntryDebug(k) /\ Runs(k, {"b64_zero_ret_only"})
NonzeroPointerDebug(k) == LiveArgumentDebug(k) /\ Fails(k, {"rd4_ret_only", "rd7_ret_only"}, AccessFaults)
CompilablePointerDebug(k) ==
  /\ NonzeroPointerDebug(k)
  /\ TimesOut(k, {"rd1_ret_only", "rd6_ret_only", "b64_one_ret_only", "b64_imm1_ret_only"})

\* Cut after the call, everything before the first store runs.
TruncatedRuns(k) ==
  Runs(k, {"ret_only_trunc", "ldptr_ret", "high_offset_load_ret", "first_branch_merge_ret", "param_only"})
FirstStoreDebug(k) ==
  /\ SplitCubinDebug(k) /\ TruncatedRuns(k)
  /\ Runs(k, {"prefix330", "noarg_ret_only", "b64_zero_ret_only", "b64_synth16_trunc_ret_only",
              "rd4_trunc_ret_only", "rd7_trunc_ret_only"})
  /\ Fails(k, {"prefix331", "first_store"} \cup HelperProbes, RuntimeFaults)
  /\ Fails(k, {"ret_only", "rd3_ret_only", "rd3_shr12_ret_only", "rd3_small_nonzero_ret_only",
               "rd3_small_aligned_nonzero_ret_only", "b64_synth16_ret_only", "rd4_ret_only", "rd7_ret_only"},
           RuntimeFaults)
  /\ TimesOut(k, {"rd1_ret_only", "rd6_ret_only", "b64_one_ret_only", "b64_imm1_ret_only"})

\* The store itself runs with constant data and faults with the byte it loads.
StoredByteFails(k) ==
  /\ SplitCubinDebug(k) /\ TruncatedRuns(k)
  /\ Runs(k, {"prefix330", "zero_data", "one_data", "branch1_load_zero_store"})
  /\ Fails(k, {"prefix331", "first_store", "branch1_load"}, RuntimeFaults)
  /\ TimesOut(k, {"b64_imm1_ret_only"})
SourceDataDebug(k) ==
  /\ StoredByteFails(k)
  /\ k.smoke["split_cubin"] = "illegal_memory_access"
  /\ k.smoke["ico"] = "ok" /\ k.smoke["nba_sequent"] = "ok"

SelectsNarrow(k) ==
  /\ Fails(k, {"branch1_load_mask1", "branch1_predicated01", "selp_const1"}, RuntimeFaults)
  /\ TimesOut(k, SelectProbes \ {"selp_const1"})
MaskedDataNarrows(k) ==
  /\ Fails(k, {"masked_data"}, RuntimeFaults)
  /\ TimesOut(k, MaskedDataProbes \ {"masked_data"})
ShiftsNarrow(k) ==
  /\ Runs(k, {"dead_mask_const1", "selp_same_const1"})
  /\ Fails(k, {"mask1_shl8"}, RuntimeFaults)
  /\ TimesOut(k, {"dead_mask_zero", "selp_same_const257"} \cup (ShiftProbes \ {"mask1_shl8"}))
LoadedBytesNarrow(k) == TimesOut(k, SourceProbes \cup LoadedByteProbes \cup {"branch1_load_mov"})
SourceBitsDebug(k) ==
  StoredByteFails(k) /\ SelectsNarrow(k) /\ MaskedDataNarrows(k) /\ ShiftsNarrow(k) /\ LoadedBytesNarrow(k)

\* The tactics from the shallowest to the deepest; the first two are read only
\* while the cubin is not there.
Tactics ==
  <<"tls_lowering", "ptxas", "full_cubin", "launch_shape", "stack_limit_ceiling", "stack_footprint",
    "executable_path", "split_cubin_runtime", "split_runtime_illegal_access", "nba_comb", "m_axi_if0",
    "first_half_core", "call_entry_abi", "live_b64_argument", "live_nonzero_pointer", "compilable_pointer",
    "first_store", "first_store_source_data", "source_bits", "finish_trio">>

Depth(k, status) ==
  IF "official_cubin" \notin k.seen
  THEN IF FullCubinDebug(k, status) THEN 3 ELSE IF PtxasDebug(k, status) THEN 2 ELSE 1
  ELSE IF k.smoke["cubin"] = "ok" THEN 20
  ELSE IF SourceBitsDebug(k) THEN 19
  ELSE IF SourceDataDebug(k) THEN 18
  ELSE IF FirstStoreDebug(k) THEN 17
  ELSE IF CompilablePointerDebug(k) THEN 16
  ELSE IF NonzeroPointerDebug(k) THEN 15
  ELSE IF LiveArgumentDebug(k) THEN 14
  ELSE IF CallEntryDebug(k) THEN 13
  ELSE IF FirstHalfDebug(k) THEN 12
  ELSE IF CallDebug(k) THEN 11
  ELSE IF NbaCombDebug(k) THEN 10
  ELSE IF SplitRuntimeDebug(k) THEN 9
  ELSE IF SplitCubinDebug(k) THEN 8
  ELSE IF ExecutablePathDebug(k) THEN 7
  ELSE IF StackFootprintDebug(k) THEN 6
  ELSE IF StackCeilingDebug(k) THEN 5
  ELSE 4

CaliptraTactics(k, status) == [status |-> "advice", tactic |-> Tactics[Depth(k, status)]]
-----------------------------------------------------------------------------
\* Only results that were missing are added.
Extends(k, more) ==
  /\ k.seen \subseteq more.seen
  /\ \A p \in Probes : k.link[p] \in {"", more.link[p]}
  /\ \A p \in Probes \cup Kernels : k.smoke[p] \in {"", more.smoke[p]}
=============================================================================
