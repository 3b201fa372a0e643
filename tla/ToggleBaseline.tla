---------------------------- MODULE ToggleBaseline ----------------------------
(***************************************************************************)
(* run_rtlmeter_gpu_toggle_baseline.py, run again and again in one build   *)
(* directory: files are staged as links into the repository, sources are   *)
(* patched, the program of the test is lowered, the gate in front of the   *)
(* GPU is asked, and the kernel is run: directly, with preloads from the   *)
(* runtime preload cache, or through the wrapper that builds it.  A run    *)
(* may be killed at any time; the repository is edited between runs.       *)
(* What a run leaves is named by the number of the run.                    *)
(***************************************************************************)
EXTENDS ToggleInputs, Naturals

CONSTANTS
  Design, Cov,     \* of the build directory; Cov: the top module is <design>_gpu_cov_tb
  Cases,           \* cases run in it
  Jobs,            \* options runs are started with
  Texts,           \* texts a file of the repository may have
  Nothing          \* no content

VARIABLES
  pc,
  job, case, run,  \* options, case and number of the run
  exit,            \* its exit status
  repo,            \* [program or source |-> its content in the repository]
  links,           \* names in the build directory that are links into the repository
  own,             \* [name |-> what a file that is no link holds, or Nothing]
  kernel,          \* run that built bench_kernel, or 0
  layout,          \* run that wrote its vars.tsv, or 0
  wrapped,         \* history: how the last wrapper in the build directory ended
  log,             \* [precheck |-> run whose pass its log shows, or 0]
  gate,            \* pre_gpu_gate.json: its run and status
  cache,           \* entries of the runtime preload cache: what is held under a key
  out,             \* runtime_preload_materialized: [prefix |-> what its files are]
  given,           \* preloads the kernel gets: [prefix |-> what they hold]
  compact,         \* [engine |-> run that dumped its outputs, or 0]
  summary          \* --json-out: its run and kind, and the run whose outputs it tells

options == <<job, case, run>>
inputs == <<repo, links, own>>
built == <<kernel, layout, wrapped>>
preloads == <<cache, out, given>>
prechecks == <<log, gate>>
outputs == <<compact, summary>>
vars == <<pc, options, exit, inputs, built, prechecks, preloads, outputs>>

Staged == Programs \cup Sources
Content == [text : Texts, edit : Edits]
Prefixes == {"program_hex", "memory_image"}
Prechecks == {"standard", "gpu_cov"}
Engines == {"gpu", "cpu"}

Exists(name) == name \in links \/ own[name] # Nothing

\* What the file a name leads to holds.
Read(name) == IF name \in links THEN repo[name] ELSE own[name]

\* The files are opened for writing: what is a link leads to the repository.
Write(content) ==
  /\ repo' = [n \in Staged |-> IF n \in links \cap DOMAIN content THEN content[n] ELSE repo[n]]
  /\ own' = [n \in Names |-> IF n \in DOMAIN content \ links THEN content[n] ELSE own[n]]
  /\ UNCHANGED links

\* What is there is unlinked first, or is a copy of what it was a link to.
Replace(content) ==
  /\ links' = links \ DOMAIN content
  /\ own' = [n \in Names |-> IF n \in DOMAIN content THEN content[n] ELSE own[n]]
  /\ UNCHANGED repo

Link(names) ==
  /\ links' = links \cup names
  /\ own' = [n \in Names |-> IF n \in names THEN Nothing ELSE own[n]]
  /\ UNCHANGED repo

lowering == Lowering(Design, Cov, case)
wanted == Preloads(lowering)
gated == GateEnabled(job.gate, Design, Cov)

NoFiles == [n \in Names |-> Nothing]
NoLog == [p \in Prechecks |-> 0]
NoGate == [run |-> 0, status |-> "none"]
NoOut == [p \in Prefixes |-> [at |-> "nowhere"]]
NoPreloads == [p \in {} |-> Nothing]
NoCompact == [e \in Engines |-> 0]
NoSummary == [run |-> 0, kind |-> "none", of |-> 0]

Init ==
  /\ pc = "idle" /\ run = 0 /\ exit = "none"
  /\ job \in Jobs /\ case \in Cases
  /\ repo \in [Staged -> [text : Texts, edit : {"none"}]]
  /\ links = {} /\ own = NoFiles
  /\ kernel = 0 /\ layout = 0 /\ wrapped = "ok" /\ log = NoLog /\ gate = NoGate
  /\ cache = {} /\ out = NoOut /\ given = NoPreloads
  /\ compact = NoCompact /\ summary = NoSummary

-----------------------------------------------------------------------------
\* Someone edits a file of the repository between two runs.
Edit ==
  /\ pc = "idle"
  /\ \E n \in Staged, t \in Texts : repo' = [repo EXCEPT ![n] = [text |-> t, edit |-> "none"]]
  /\ UNCHANGED <<pc, options, exit, links, own, built, prechecks, preloads, outputs>>

\* --rebuild empties the build directory, where the validation runners keep the
\* summary too; the cache is elsewhere.
Start ==
  /\ pc = "idle"
  /\ pc' = "stage" /\ job' \in Jobs /\ case' \in Cases /\ run' = run + 1
  /\ exit' = "none" /\ given' = NoPreloads
  /\ IF job'.rebuild
     THEN /\ links' = {} /\ own' = NoFiles /\ log' = NoLog /\ gate' = NoGate
          /\ kernel' = 0 /\ layout' = 0 /\ wrapped' = "ok"
          /\ out' = NoOut /\ compact' = NoCompact /\ summary' = NoSummary
     ELSE UNCHANGED <<links, own, built, prechecks, out, outputs>>
  /\ UNCHANGED <<repo, cache>>

\* The run ends with an error: a SystemExit, an exception, a kill.
Fail ==
  /\ pc # "idle"
  /\ pc' = "idle" /\ exit' = "failed"
  /\ UNCHANGED <<options, inputs, built, prechecks, preloads, outputs>>

\* The sources of the descriptor; those an earlier run staged stay.
StageFilelist ==
  /\ pc = "stage"
  /\ \E present \in SUBSET Sources : Link(present)
  /\ pc' = "patch"
  /\ UNCHANGED <<options, exit, built, prechecks, preloads, outputs>>

\* The staged files become copies, and some of them are patched.
Localize(copies, patched) ==
  Replace([n \in copies |-> IF n \in patched THEN Edited(Read(n), "contract") ELSE Read(n)])

PatchesXiangShan == Design = "XiangShan" /\ Cov /\ Exists("SimTop.v") /\ Exists("FlashHelper.v")
PatchesTestbench(designs) == Design \in designs /\ Cov /\ Exists("tb.v")
Testbench == {"tb.v"} \cup { n \in {"wrapper.sv"} : Exists(n) }

\* Both files, or none if SimTop.v has no such memory, which is seen in its copy.
PatchXiangShan ==
  /\ PatchesXiangShan
  /\ \/ Localize({"SimTop.v", "FlashHelper.v"}, {"SimTop.v", "FlashHelper.v"})
     \/ Localize({"SimTop.v"}, {})

\* The wrapper is written before the blocks of tb.v are looked for: without
\* them the run goes on with the old testbench under a patched wrapper.
PatchC906 ==
  /\ PatchesTestbench({"XuanTie-C906"})
  /\ \E patched \in SUBSET Testbench : Localize(Testbench, patched)

\* The same order; a wrapper that has no instance to patch ends the patch.
PatchE90x ==
  /\ PatchesTestbench(XuanTieE9)
  /\ \E patched \in SUBSET Testbench : Localize(Testbench, patched)

NoPatch ==
  /\ ~PatchesXiangShan /\ ~PatchesTestbench({"XuanTie-C906"} \cup XuanTieE9)
  /\ UNCHANGED inputs

Patch ==
  /\ pc = "patch"
  /\ PatchXiangShan \/ PatchC906 \/ PatchE90x \/ NoPatch
  /\ pc' = "execute_files"
  /\ UNCHANGED <<options, exit, built, prechecks, preloads, outputs>>

StageExecuteFiles ==
  /\ pc = "execute_files"
  /\ Link(case.files)
  /\ pc' = "lower"
  /\ UNCHANGED <<options, exit, built, prechecks, preloads, outputs>>

-----------------------------------------------------------------------------
\* _materialize_execute_runtime_inputs; an image that is malformed or too large fails.
Program(name) == Edited(Read(name), case.iterations)

LowerEntries ==
  /\ lowering = "entries"
  /\ Write([n \in {"program_entries.bin"} |-> Program("program.hex")])

LowerVeerHex ==
  /\ lowering = "veer_hex"
  /\ IF case.iterations = "none" THEN UNCHANGED inputs
     ELSE Replace([n \in {"program.hex"} |-> Program("program.hex")])

LowerPats ==
  /\ lowering = "pats"
  /\ Write([n \in {"inst_preload.hex", "data_preload.hex"} |->
              IF n = "inst_preload.hex" THEN Read("inst.pat") ELSE Program("data.pat")])

LowerCasePat ==
  /\ lowering = "case_pat"
  /\ Replace([n \in {"case.pat", "case_pat_preload.hex"} |-> Program("case.pat")])

\* program.bin is not unlinked before it is written, with or without iterations.
LowerProgramBin ==
  /\ lowering = "program_bin"
  /\ Write([n \in {"program.bin"} |-> Program("program.bin")])

\* A run that is killed while it writes has truncated the file, link or not.
TearProgramBin ==
  /\ pc = "lower" /\ lowering = "program_bin"
  /\ Write([n \in {"program.bin"} |-> [Read(n) EXCEPT !.edit = "torn"]])
  /\ pc' = "idle" /\ exit' = "failed"
  /\ UNCHANGED <<options, built, prechecks, preloads, outputs>>

LowerMemBin ==
  /\ lowering = "mem_bin"
  /\ Write([n \in {"openpiton_mem.bin"} |-> Program("mem.bin")])

LowerInitMem ==
  /\ lowering = "init_mem"
  /\ Write([n \in {"prog_mem_entries.bin"} |-> Program("prog.mem")])

LowerPlainHex ==
  /\ lowering = "plain_hex"
  /\ Replace([n \in {"program.hex"} |-> Program("program.hex")])

LowerNothing ==
  /\ lowering \in {"as_is", "by_name"}
  /\ UNCHANGED inputs

\* The lowering of program.bin returns nothing, and the gate that asks it fails.
Lower ==
  /\ pc = "lower"
  /\ \/ LowerEntries \/ LowerVeerHex \/ LowerPats \/ LowerCasePat \/ LowerProgramBin
     \/ LowerMemBin \/ LowerInitMem \/ LowerPlainHex \/ LowerNothing
  /\ pc' = IF lowering = "program_bin" THEN "unlowered" ELSE "standard"
  /\ UNCHANGED <<options, exit, built, prechecks, preloads, outputs>>

-----------------------------------------------------------------------------
\* The exit status of a precheck and its timeout are not looked at, only the log
\* in its work directory: a run that does not get as far leaves the one there was.
Precheck(p) == \E shown \in {0, log[p], run} : log' = [log EXCEPT ![p] = shown]

StandardPrecheck ==
  /\ pc = "standard"
  /\ IF gated THEN Precheck("standard") ELSE UNCHANGED log
  /\ pc' = "gpu_cov"
  /\ UNCHANGED <<options, exit, inputs, built, gate, preloads, outputs>>

CovPrecheck ==
  /\ pc = "gpu_cov"
  /\ IF gated /\ Cov THEN Precheck("gpu_cov") ELSE UNCHANGED log
  /\ pc' = "gate"
  /\ UNCHANGED <<options, exit, inputs, built, gate, preloads, outputs>>

GatePasses == gated => log["standard"] # 0 /\ (Cov => log["gpu_cov"] # 0)

\* Below a gate that fails, or behind --pre-gpu-gate-only, nothing is run.
Gate ==
  /\ pc = "gate"
  /\ gate' = [run |-> run, status |-> IF GatePasses THEN "pass" ELSE "fail"]
  /\ IF GatePasses /\ ~job.gate_only THEN pc' = "choose" /\ UNCHANGED exit
     ELSE pc' = "idle" /\ exit' = IF GatePasses THEN "ok" ELSE "failed"
  /\ summary' = IF job.gate_only THEN [run |-> run, kind |-> "gate", of |-> 0] ELSE summary
  /\ UNCHANGED <<options, inputs, built, log, preloads, compact>>

\* A kernel that is there beside a vars.tsv is run again, whatever they were built of.
CanReuseKernel == kernel # 0 /\ layout # 0 /\ ~NeedsWrapper(lowering, case)

Choose ==
  /\ pc = "choose"
  /\ pc' = IF job.reuse /\ CanReuseKernel THEN "preload" ELSE "wrapper"
  /\ UNCHANGED <<options, exit, inputs, built, prechecks, preloads, outputs>>

\* The digests of the image and of vars.tsv; those of the descriptor and of the
\* helper do not change here.
Key(p) == [prefix |-> p, image |-> Read(wanted[p].image), layout |-> layout]

Give(p, held) == given' = [q \in DOMAIN given \cup {p} |-> IF q = p THEN held ELSE given[q]]

\* Under --no-compile-cache the helper writes to the output files themselves,
\* through the links an earlier run left into the cache, and each is then
\* replaced by a link to itself: there is nothing to give to the kernel.
Uncached(p) ==
  /\ out[p].at # "itself"
  /\ cache' = { IF out[p] = [at |-> "cache", key |-> e.key] THEN [e EXCEPT !.held = Key(p)] ELSE e : e \in cache }
  /\ out' = [out EXCEPT ![p] = [at |-> "itself"]]
  /\ Give(p, Nothing)

\* An entry is made aside and renamed.
Cached(p) ==
  /\ cache' = IF \E e \in cache : e.key = Key(p) THEN cache ELSE cache \cup {[key |-> Key(p), held |-> Key(p)]}
  /\ out' = [out EXCEPT ![p] = [at |-> "cache", key |-> Key(p)]]
  /\ \E e \in cache' : e.key = Key(p) /\ Give(p, e.held)

Preload ==
  /\ pc = "preload"
  /\ \E p \in DOMAIN wanted \ DOMAIN given :
       /\ p = "memory_image" => "program_hex" \notin DOMAIN wanted \ DOMAIN given
       /\ IF job.cached THEN Cached(p) ELSE Uncached(p)
  /\ UNCHANGED <<pc, options, exit, inputs, built, prechecks, outputs>>

Launch ==
  /\ pc = "preload" /\ DOMAIN wanted = DOMAIN given
  /\ pc' = "direct"
  /\ UNCHANGED <<options, exit, inputs, built, prechecks, preloads, outputs>>

\* An engine that is not asked for dumps nothing, and what it dumped before stays.
Dumped ==
  [e \in Engines |-> IF (e = "gpu" /\ job.gpu) \/ (e = "cpu" /\ job.cpu) THEN run ELSE compact[e]]

RunDirect ==
  /\ pc = "direct"
  /\ \/ pc' = "summarize" /\ compact' = Dumped
     \/ pc' = "wrapper" /\ compact' \in {compact, Dumped}
  /\ UNCHANGED <<options, exit, inputs, built, prechecks, preloads, summary>>

\* The wrapper is given the images and the descriptors, and builds the kernel.
RunWrapper ==
  /\ pc = "wrapper"
  /\ kernel' = run /\ layout' = run /\ wrapped' = "ok" /\ compact' = Dumped
  /\ given' = [p \in DOMAIN wanted |-> [Key(p) EXCEPT !.layout = run]]
  /\ pc' = "summarize"
  /\ UNCHANGED <<options, exit, inputs, prechecks, cache, out, summary>>

\* The new vars.tsv may be there before the kernel is: the old kernel beside it
\* will do for the next run.
FailWrapper ==
  /\ pc = "wrapper"
  /\ layout' \in {0, layout, run} /\ kernel' \in {0, kernel, run}
  /\ kernel' = run => layout' = run
  /\ wrapped' = "failed" /\ compact' \in {compact, Dumped}
  /\ pc' = "idle" /\ exit' = "failed"
  /\ UNCHANGED <<options, inputs, prechecks, preloads, summary>>

\* The outputs of the GPU, if there are any, or else those of the CPU.
Active == IF compact["gpu"] # 0 THEN compact["gpu"] ELSE compact["cpu"]

Summarize ==
  /\ pc = "summarize" /\ Active # 0
  /\ summary' = [run |-> run, kind |-> "baseline", of |-> Active]
  /\ pc' = "idle" /\ exit' = "ok"
  /\ UNCHANGED <<options, inputs, built, prechecks, preloads, compact>>

Next ==
  \/ Edit \/ Start \/ Fail \/ StageFilelist \/ Patch \/ StageExecuteFiles \/ Lower
  \/ TearProgramBin
  \/ StandardPrecheck \/ CovPrecheck \/ Gate \/ Choose \/ Preload \/ Launch
  \/ RunDirect \/ RunWrapper \/ FailWrapper \/ Summarize

Spec == Init /\ [][Next]_vars
-----------------------------------------------------------------------------
Job == [rebuild : BOOLEAN, cached : BOOLEAN, reuse : BOOLEAN, gpu : BOOLEAN, cpu : BOOLEAN,
        gate : {"auto", "always", "never"}, gate_only : BOOLEAN]

BaselineAssumption ==
  /\ Jobs \subseteq Job /\ Cases \subseteq AnyCase /\ Cov \in BOOLEAN
  /\ Nothing \notin Content

\* A run changes no file of the repository it tests, in spite of the links it
\* works on.  XiangShan is the exception: its program.bin is written in its place,
\* with or without iterations, and a run that is killed there leaves it torn.
SourcesAreKept ==
  [][pc # "idle" => \A n \in Staged : repo'[n] # repo[n] => n = "program.bin" /\ lowering = "program_bin"]_vars

\* A kernel is run with the programs of its own case, as the repository has
\* them now and with the iterations of the case, whatever is left in the build
\* directory and in the cache, laid out by the vars.tsv there is.  That is the
\* kernel's own unless the last wrapper has failed in this directory.
KernelGetsItsPrograms ==
  pc \in {"direct", "summarize"} =>
    /\ given = [p \in DOMAIN wanted |->
                  [prefix |-> p, layout |-> layout,
                   image |-> Edited(repo[wanted[p].from], EditOf(lowering, p, case))]]
    /\ layout = kernel \/ wrapped = "failed"

\* Success means that the summary is of this run and, if the run is on the GPU
\* or has rebuilt, that it tells the outputs of this run.
SuccessIsOfThisRun ==
  exit = "ok" =>
    /\ summary.run = run
    /\ summary.kind = "baseline" /\ (job.gpu \/ job.rebuild) => summary.of = run

\* A kernel is run behind a gate that a precheck has passed, one of this run if
\* the run has rebuilt.
RunsAreGated ==
  pc \in {"choose", "preload", "direct", "wrapper", "summarize"} =>
    /\ gate = [run |-> run, status |-> "pass"]
    /\ gated /\ job.rebuild => log["standard"] = run /\ (Cov => log["gpu_cov"] = run)
=============================================================================
