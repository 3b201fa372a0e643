----------------------------- MODULE ToggleInputs -----------------------------
(***************************************************************************)
(* run_rtlmeter_gpu_toggle_baseline.py: how the runner of the other RTL    *)
(* designs gets the program of a test to the kernel, and what its gate in  *)
(* front of the GPU makes of the log of a CPU run.  A file is a name; its  *)
(* content is a text and the edit the runner made of it: the number of     *)
(* iterations written into a program ("one", "many"), the contract patch   *)
(* of a staged source, or that writing it was cut short.                   *)
(***************************************************************************)

Veer == {"VeeR-EL2", "VeeR-EH1", "VeeR-EH2"}
XuanTieC9 == {"XuanTie-C906", "XuanTie-C910"}
XuanTieE9 == {"XuanTie-E902", "XuanTie-E906"}

Programs == {"program.hex", "program.bin", "mem.bin", "case.pat", "inst.pat", "data.pat", "prog.mem"}
Sources == {"SimTop.v", "FlashHelper.v", "tb.v", "wrapper.sv"}
\* Written by the runner under names of its own.
Products == {"program_entries.bin", "case_pat_preload.hex", "inst_preload.hex", "data_preload.hex",
             "openpiton_mem.bin", "prog_mem_entries.bin"}
Names == Programs \cup Sources \cup Products

Iterations == {"none", "one", "many"}
Edits == Iterations \cup {"contract", "torn"}

\* A case: the files of its test, +iterations, and whether it has +init_mem.
AnyCase == [files : SUBSET Programs, iterations : Iterations, init_mem : BOOLEAN]

\* What is torn stays so: the iterations are written into what is left of it.
Edited(content, edit) ==
  IF edit = "none" \/ content.edit = "torn" THEN content ELSE [content EXCEPT !.edit = edit]

\* How the case is lowered: the first that fits.  cov says whether the top
\* module is the gpu_cov testbench of the design; "error" ends the run.
Lowering(design, cov, case) ==
  LET has(name) == name \in case.files
      cov_only(lowering) == IF cov THEN lowering ELSE "error"
  IN  IF design = "Caliptra" THEN "by_name"
      ELSE IF design \in Veer /\ has("program.hex")
      THEN IF cov THEN "entries" ELSE "veer_hex"
      ELSE IF design \in XuanTieC9 /\ has("inst.pat") /\ has("data.pat") THEN cov_only("pats")
      ELSE IF design \in XuanTieE9 /\ has("case.pat") /\ case.iterations # "none" THEN cov_only("case_pat")
      ELSE IF design = "XiangShan" /\ has("program.bin") THEN cov_only("program_bin")
      ELSE IF design = "OpenPiton" /\ has("mem.bin") THEN cov_only("mem_bin")
      ELSE IF case.init_mem
      THEN IF design = "BlackParrot" /\ has("prog.mem") THEN cov_only("init_mem") ELSE "error"
      ELSE IF case.iterations = "none" \/ (case.iterations = "one" /\ ~has("program.hex")) THEN "as_is"
      ELSE IF has("program.hex") THEN "plain_hex" ELSE "error"

\* What has a target descriptor can be preloaded into a kernel that exists:
\* [prefix |-> the file it is made of, the test's file that one is made of].
Preloads(lowering) ==
  CASE lowering = "entries"  -> [p \in {"memory_image"} |-> [image |-> "program_entries.bin", from |-> "program.hex"]]
    [] lowering = "veer_hex" -> [p \in {"program_hex"} |-> [image |-> "program.hex", from |-> "program.hex"]]
    [] lowering = "pats"     -> [p \in {"program_hex", "memory_image"} |->
                                   IF p = "program_hex" THEN [image |-> "inst_preload.hex", from |-> "inst.pat"]
                                   ELSE [image |-> "data_preload.hex", from |-> "data.pat"]]
    [] lowering = "case_pat" -> [p \in {"program_hex"} |-> [image |-> "case_pat_preload.hex", from |-> "case.pat"]]
    [] lowering = "mem_bin"  -> [p \in {"memory_image"} |-> [image |-> "openpiton_mem.bin", from |-> "mem.bin"]]
    [] lowering = "init_mem" -> [p \in {"memory_image"} |-> [image |-> "prog_mem_entries.bin", from |-> "prog.mem"]]
    [] OTHER                 -> [p \in {} |-> {}]

\* The edit of a preload: of the two patterns of a XuanTie C9, the data only.
EditOf(lowering, prefix, case) ==
  IF lowering = "pats" /\ prefix = "program_hex" THEN "none" ELSE case.iterations

\* A program without a descriptor is lowered by the wrapper alone.
NeedsWrapper(lowering, case) ==
  \/ lowering = "plain_hex"
  \/ lowering = "as_is" /\ "program.hex" \in case.files

-----------------------------------------------------------------------------
\* What the debug log of a gpu_cov run shows.  A flag is looked for as a part of
\* the text: dbg_core_rst_l=1 shows core_rst_l and rst_l, too.
Flags == {"test_passed", "hello", "program_loaded", "rst_l", "core_rst_l", "if_req", "if_rsp",
          "lsu_req", "lsu_rsp", "trace", "wb", "mailbox"}

Activity == {"if_req", "if_rsp", "lsu_req", "lsu_rsp", "trace", "wb", "mailbox"}

\* The precheck of the gpu_cov testbench passes.
CovPasses(seen) == seen \cap {"test_passed", "hello", "trace", "wb", "lsu_req", "lsu_rsp"} # {}

\* likely_dead_reason.
DeadReason(seen) ==
  IF seen \cap Activity # {} THEN "activity_seen"
  ELSE IF "program_loaded" \notin seen THEN "program_not_loaded"
  ELSE IF "rst_l" \notin seen THEN "reset_not_released"
  ELSE IF "core_rst_l" \notin seen THEN "core_reset_held"
  ELSE IF seen \cap {"if_req", "if_rsp"} = {} THEN "no_fetch_activity"
  ELSE "fetch_without_retire_or_lsu"

\* Whether the gate is open by itself to a case: only VeeR is prechecked.
GateEnabled(mode, design, cov) ==
  IF mode = "auto" THEN design \in Veer /\ cov ELSE mode = "always"
=============================================================================
