# TLA+ models of the GPU toggle-coverage campaign tools

This directory holds a verification development for the repository: TLA+
modules translated from the source, TLC configurations that check them on small
instances, and proofs, checked by TLAPS, that some of the properties hold for
every value of the constants. Paths below are relative to `src/`; a line number
after a colon is a line of the file named.

Run a model with `tlc -config X.cfg M` and a proof with `tlapm M_proofs.tla`,
in this directory.

## 1. What the system is

The repository measures toggle coverage of hardware designs on a GPU. A design
is compiled by Verilator to C++, the C++ to LLVM IR by clang, the IR to a CUDA
module (`src/tools/build_vl_gpu.py`, `src/passes/`), and the module is run for
many states at once (`src/hybrid/run_vl_hybrid.c`). Above this stand runners that
sweep traces over a design and its slices, and scripts that turn their summaries
into gates and decisions. An older backend, *sim-accel*, builds a benchmark
binary from fused kernels and offers a debug mailbox.

### Inventory

| Component | State it keeps | Operations | What is hard |
|---|---|---|---|
| Mailbox rings, `include/sim_accel/HYBRID_DEBUG_MAILBOX_RUNTIME.h` | producer and consumer index, overflow count, entries | push, pop, reset, validate | wrap of the indices, full against empty |
| Mailbox session and main loop, `..._EPOCH_RUNTIME.h`, `..._LOOP_RUNTIME.h` | three rings, `last_fault`, `dispatch_busy`, hooks | push and pop by the host; Dispatch, Serve, ServeUntilEvent, RunLoop | backpressure in the middle of a dispatch, calls back from hooks, faults that stay, order of event and response |
| Run engine, `..._LOOP_RUNTIME.h:78-260` | cycle count, PC, breakpoint, stop reason | RUN_CYCLES, RUN_UNTIL_EVENT | which of several stop conditions is reported, wrap of the counters, a step that fails |
| Mailbox mock, CSR, faults, preload, bench script | registers, memory, watchpoint | immediate opcodes, drain, script client | an answer lost when its ring is full |
| GPU build, `src/tools/build_vl_gpu.py` | files of one `mdir` | full build, `--reuse-gpu-patched-ll`, `--reuse-ptx` | what is cached by existence, a build that died, `meta.json` and marker against artefacts |
| Sweep campaign, `src/runners/run_opentitan_tlul_slice_trace_gpu_sweep_campaign.py` | shards pending, in flight and completed, convergence state | schedule, harvest, converge, stop, merge | shards ending out of order, stop while others run, a shard that fails |
| Bundle cache, `src/runners/run_opentitan_tlul_slice_gpu_baseline.py:3130-3528` | generated directory, bundle directories, markers, two locks | ensure, look up, build, mark, run | several processes, kills, use after unlock |
| Slice sweep, `src/runners/run_opentitan_tlul_slice_trace_gpu_sweep.py` | cases pending, cases retained, their files, two summaries | prepare, launch, retain, clean up, resume | what is retained must not depend on shards and batches; clean-up and restarts share directories |
| Hybrid host, `src/hybrid/run_vl_hybrid.c`, `src/tools/run_vl_hybrid.py` | device storage, patches | patch, launch, synchronise, dump | order of asynchronous launches and copies |
| Probes and slice flows, `src/hybrid/*_host_probe.cpp`, `src/tools/run_tlul_slice_host_gpu_flow.py` | root image, edge phase | reset, clock, hand over | parity of host and device edges |
| Validation, comparison and trio, `src/runners/*_common.py`, `run_*_{stock_hybrid_validation,cpu_baseline_validation,time_to_threshold_comparison}.py`, `src/tools/run_design_enrollment_trio.py` | files of fixed names in the design's build directory and in `output/validation` | probe, replay, summarise, judge, compare, probe a lower threshold | two processes on one design, files of an earlier run read back, a stage that fails, a design built anew |
| Campaign tools, `src/tools/audit_campaign_*.py`, `set_campaign_*.py` | one JSON report per tool in `work/`, `selection.json` and gate per chain | audit, apply a profile | nothing orders the tools: reports of different ages, cycles among the files, setters killed between their files |
| RTLMeter toggle baseline, `src/runners/run_rtlmeter_gpu_toggle_baseline.py` | links into the repository, patched copies, lowered programs, kernel, preload cache, logs of prechecks, outputs | stage, patch, lower, gate, preload, run, fall back, summarise | a build directory used again and again: stale files, writing through links, a cache that is poisoned |
| Toggle validation runners, `src/runners/run_*_gpu_toggle_validation.py` | one report over the summaries of several baselines | run each target, report | summaries left by an earlier session |
| LLVM passes, `src/passes/*.cpp` | classification of functions | classify, rewrite | closure over the call graph |
| Bundle builders, fuser, RTLMeter adapter, policies, GRPO, generators, ROCm, meta scripts | files | batch | mostly conversions of text and JSON |

Interactions: a campaign starts one process per shard; each builds or reuses the
slice's generated directory and bundle (shared files, two `flock`s), runs the
binary and leaves a JSON summary, which the campaign's main thread harvests. A
build leaves a module and `meta.json` in `mdir`, which the hybrid runner reads. A
host talks to a running bench through the mailbox: it pushes commands, calls a
dispatch function, pops responses and events; a command may call back through a
dispatch hook. The validation
runners leave comparisons, the comparisons and the inventory of testbenches are the
measurements the campaign tools read, and the selections made with the setters say
which design is measured next: first the OpenTitan slices (threshold policy), then the
XuanTie family, VeeR, XiangShan with OpenPiton as its fallback, BlackParrot, Vortex, and
Caliptra. The toggle validation runners start the toggle baseline, once per target.

### What makes each component correct

* rings: FIFO, nothing lost or repeated, refusal exactly when full;
* main loop: each accepted command is answered once, in order; each event is
  handed out once, in order; a dispatch ends and says why it ended;
* run engine: the reported reason is true; the run ends;
* build: the module a runner loads is the one `meta.json` describes, and after a
  full build it is the current design at the level asked for;
* campaign: the decision to stop depends on the shards' results and not on the
  order they ended in; no shard is lost;
* bundle cache: whoever releases the locks leaves the bundle it asked for; the
  locks are always released;
* slice sweep: each candidate is run once, what is retained is the best of all
  that were run, and the retained files are of this run;
* validation: a comparison that names a winner rests on two measures of one
  threshold; exit code 0 means artifacts of this run;
* campaign tools: a gate tells of the selection on disk; once the files are up to
  date, what is accepted or opened rests on measurements that are still there;
  refreshing and following the advice comes to an end;
* toggle baseline: of the repository under test only XiangShan's `program.bin` is
  written to; a kernel runs with the program of its own case; success tells of this run's outputs.

## 2. Modules

| Module | Models | Checked by | Proofs |
|---|---|---|---|
| `MailboxQueue` | abstract: a bounded FIFO queue with refusals | as a property of `MailboxRing` | |
| `MailboxRing` | the ring | `MailboxRing.cfg` | `Mailbox_proofs` |
| `MailboxLoop` | session and main loop | `MailboxLoop.cfg` | `MailboxLoop_proofs` |
| `MailboxRun` | run engine | `MailboxRun.cfg` | `Mailbox_proofs` |
| `BuildVlGpu`, `BuildVlGpuMC` | GPU build | `BuildVlGpu.cfg`, `BuildLevelClaim.cfg` | `Builds_proofs` |
| `SweepCampaign` | sweep campaign | `SweepCampaign.cfg` | `SweepCampaign_proofs` |
| `BundleCache` | generated directory, bundle, locks | `BundleCache.cfg` | `Builds_proofs` |
| `SliceSelection` | which cases a shard retains, and the merge | used by `SweepCampaign` | `SweepCampaign_proofs` |
| `SliceSweep` | one shard of the slice sweep, killed and restarted | proofs only | `SweepCampaign_proofs` |
| `ValidationDesigns`, `Validation`, `ValidationMC` | the validation runners of 21 designs, their flows, comparison, trio | `Validation.cfg` | `Validation_proofs` |
| `CampaignFiles` | the tools and setters over their files, without what they compute | in the three below | with each of the three |
| `SurfaceGates` | the step, gate and acceptance every surface repeats | in the three below | with each of the three |
| `ThresholdPolicy`, `XuanTie`, `Goals`, `GoalsMC` | from the threshold policy to C910's runtime: 35 tools, 9 setters | `Goals.cfg` | `Goals_proofs` |
| `VeerLadder`, `VeerLadderMC` | the VeeR family: 13 tools, 6 setters | `VeerLadder.cfg` | `Campaign_proofs` |
| `Branches`, `BranchesMC` | OpenPiton, BlackParrot, Vortex, XiangShan: 24 tools, 7 setters | `Branches.cfg`, `BranchesLoopClaim.cfg` | `Branches_proofs` |
| `CaliptraTactics` | the ladder of debug tactics for Caliptra | in `Branches` | `Campaign_proofs` |
| `ToggleInputs`, `ToggleBaseline` | the toggle baseline in one build directory | proofs only | `Validation_proofs` |
| `ToggleValidation` | the six toggle validation runners | proofs only | `Validation_proofs` |

Composition: `MailboxLoop` works on the queue that `MailboxRing` is shown to implement;
`SweepCampaign` takes the merge of `SliceSelection`, which `SliceSweep` retains with;
`VeerLadder`, `Branches` and `Goals` each instantiate `CampaignFiles` with what their
tools compute, in the terms of `SurfaceGates`; `Branches` runs `CaliptraTactics` as one
of its tools; `ToggleValidation` takes from `ToggleBaseline` only when a summary is
written.

In a module an operator whose comment begins with "Mutation" or "A slip" is a
plausible bug of the definition that follows it; it is not used by the
specification. Each property was seen to fail when the definition is replaced
by the slip (see `mutants` in `PROJECT.json`). `map` in the same file names the
lines each definition is translated from.

### MailboxQueue and MailboxRing

The variables of `MailboxRing` are the fields of the C structure, with the array
of entries and the buffer of the caller. `generation` is a history variable: a
reset flips it, so that a ring that loses all entries cannot pass for one that
was reset. `PushStored` and `PushRefused` are the two outcomes of
`ring_push_bytes`, `Pop` is `ring_pop_bytes`, `ResetQueue` is
`RuntimeSessionResetQueues` for one ring. `ImplementsQueue` says that the
entries between the indices, oldest first, behave as `MailboxQueue` does.

### MailboxLoop

The rings are taken as the queues they implement, with `Room = capacity - 1`
entries. The loop is a program counter `phase`: `check` (the conditions at the
head of the loop, :362-393), `execute`, `reply` (the two pushes and the optional
pop, :407-438) and `finish` (the end of the main loop and `RunLoop`'s decision to
call it again). Everything is on one thread, but between `TakeCommand` and
`ExecuteCommand` a hook may call back into the session, so the push of a command
is enabled there as well, and refused by `dispatch_busy`. What a command does is
reduced to the event it raises, the fault it leaves and the id of its answer.
`accepted`, `collected`, `raised` and `taken` are history counters.

### MailboxRun

Counters are modulo `Word` (2^64 in the code). One loop models both commands:
`RUN_UNTIL_EVENT` counts epochs, `RUN_CYCLES` compares elapsed cycles. `Step`
takes an arbitrary number of cycles, movement of the PC and stop reason from the
step function; `ran` and `last_delta` are history variables the properties need to
say what really happened while the counter wrapped. Between runs the other commands
and the host change what a run starts from and what is on record: breakpoint and
watchpoint, the PC, a watchpoint hit by a memory command, which overwrites the last
stop reason and keeps the fault, a fault of a full ring, a cleared fault, a new seed with
any stop reason. Of memory only the hit is modelled.

### BuildVlGpu

A file is its provenance: which version of the design and which clang level the
IR in it comes from, the storage size it was generated with (identified with the
version it was probed from), and whether the kernels are split. The variables are
the files of `mdir`; an action is a step of `build_vl_gpu`. `Die` may end a build
at any step: a tool fails, an input is missing, or the process is killed, in which
case a text file being written may be torn. LLVM tools and `ptxas` are external
and taken to replace their output whole or not at all. `trust` is a history
variable: it holds `"ir"` while no build that touches IR has died, and no new
version was verilated, since the last build that redid everything, and `"module"`
while the same holds of the module and `meta.json`.

### SweepCampaign

The main thread of `run_shards_locally` and its worker threads. A shard that
ends leaves a payload, no file, or an error. A round of the main loop harvests the
futures that `wait` returned, in any order: `done` is a Python set. The
convergence state is advanced in place when the shard has the highest index so
far, and rebuilt otherwise, exactly as `:704-718` does. `StopIsWhereConverged`
compares it with a definition over the set of loaded shards that mentions neither
accumulation nor order.

### BundleCache

Processes run `_run_bundle_backend` on one slice. `gen` is the generation of the
generated files every lane needs, `native` that of these with the two files only
`rocm_llvm` needs, `extras` whether the marker and the native files are there; a lane finds
the directory complete by the files it needs (`Needed`) and fingerprints them (`InputsOf`). A
directory that is complete for the CUDA lanes is generated again in its place for the
first `rocm_llvm` request, with marker and old files still there. When the generation is
killed, fails, or fails without saying so (the generator exits with 0 when one of its tools
failed, `FailureMissed`), old and new files are left that may pass for the next request;
and a generation for a CUDA lane passes over native files that are there. Such a directory
is a member of the history variable `cut` until the next complete generation, and
`ReleasedBundleIsRight` exempts the wholeness of what is built from it, by name.
`bundle` is what each bundle directory holds: the binary
(for which lane, from which generation, complete or not) and the two markers. The
fingerprint over path, size and mtime is the generation, renumbered so that only
numbers still in use are kept; `FreshGen` takes one of the others, which always exists
(`FreshGenIsFresh`: each bundle, marker and process uses at most one). A kill ends a
process together with the tools it runs; the kernel then drops its locks, and a removal,
a generation or a build that was going on leaves any part of the directory.

### SliceSelection and SliceSweep

A case is its index, its score (the tuple of `score_prefilter_case` as one number) and
its target region. `SliceSelection` says which cases `_selected_prefilter_cases` retains:
the `keep_top_k` best and, of each region, as many as its budget allows, equals broken by
index as `heapq.nlargest` breaks them. `SliceSweep` is `main` over one shard: candidates
prepared into a batch of `cases_per_launch`, a launch that succeeds or fails, the pools
updated batch by batch, files of dropped cases and launches deleted, the two summaries;
a kill at any step and a restart, with other seeds, in the same work directory. A file is
named by the run that wrote it.

The campaign keeps `keep_top_k = 16` per shard and merges to `global_top_k = 128`: the
theorem `MergedTopIsGlobal` holds for the first 16 of the merged list only. Seen and not
stated as properties: `_ensure_candidate_batch_json` (`:1806`) keeps a stale `batch.json`
when nothing is persisted; `_load_shard_campaign_payload` (`..._sweep_campaign.py:885`)
prefers a stale merge view; a campaign that only merges takes shard files left by another.

### Validation

One record of `ValidationDesigns` stands for the three runners of a design, with what
tells them apart: the default threshold, the cycles and edges run, the program put into the
build directory, the gate of the hybrid verdict, whose verdict the exit code is, and whether
the trio tool can run it. `ASSUME DefaultsAgree` checks that both sides of all 21 designs run the
design for the same number of cycles. `files` holds every file the processes share,
`job[p]` where a process is. A step is one tool: it writes its file from the build of
the design it found and from the files it reads; a tool that fails leaves what its code
leaves, and a kill may tear the file that was being written. Two reads of one step are
taken together where no write of another process comes between them that makes a
difference. A file's content is reduced to the build it was made from and the number of
coverage bits and edges it shows; outputs that are no build's may cover nothing. A wall
time is anything: one that is missing or not positive rejects the comparison, and leaves the
probe without a candidate, as no coverage does. `clean` is a history variable: it says whether the run
had the design to itself.

A comparison that is ready may mix two builds of the design, and is not withdrawn when
one of its sides is measured anew: nothing in the files tells the build.

### CampaignFiles and SurfaceGates

`CampaignFiles` is what all campaign tools do: read the files named in `Needs` (fatal when
absent or torn) and `Optional` (fatal when torn), the selection of the chain and of
those it `Consults`, compute `Report`, overwrite one file. `Apply` is a setter: it computes
the gate from the profile it is about to write, writes `selection.json`, then the gate.
`AuditKilled` and `ApplyKilled` are kills: `write_text` truncates before it writes.
`cut` is a history variable, the chains whose setter was killed. `Fragile` is a bound: the
tools that may be killed in an instance. `Attended`, the tools that are run, are all of them.
`RunInOrder` computes the files after each tool has run once in an order, the state in
which `Goals` and `Branches` begin.
`SurfaceGates` is the decision that the tools copy from surface to surface: a step reads
the two comparisons of a design, a gate holds it against the selected profile, an
acceptance judges step and gate.

### Goals, ThresholdPolicy, XuanTie

`ThresholdPolicy` and `XuanTie` say what each of the 35 tools writes, `Goals` puts them on
the files. The setter of the threshold policy is an action of its own: it reads the
selection it replaces and writes four files one after the other, each computed from the
one before, and may be killed after any of them. Bounds: the tools are run in the order
`Order` but for `MaxSkipped` = 1 out-of-date files a tool may run ahead of, selections
change only once the files have settled, and runs that would change nothing are left out.

Seen and not stated: the matrix of the threshold policy evaluates its profiles without
`extra_comparison_paths`, which the setter keeps; a default win of C906 makes the order of
the override candidates wrong and takes E906's breadth away; with stock hybrid runners in
place the entry refresh says `single_surface`, which withdraws the XuanTie chain that
`README.md:120` recommends; `docs/status_surfaces.md:244-250` documents a state only stale
files have.

### VeerLadder

Three designs accepted one after the other, in any order of tools and setters, over twenty-eight
states of the measurements, one of which may be replaced while it runs. `won` is a history
variable: the designs for which a win was ever measured. The gate of C910, which opens
the family, is an input. The exhaustion of the family with fewer than three bootstrapped
designs is judged differently by two tools; `LeavingIsBacked` states what the later one asks.

### Branches and CaliptraTactics

The files of the branches form cycles. `Follow` is the operator who does what
`..._branch_resolution` says, once all files are up to date. `CaliptraTactics` is the ladder
of `audit_campaign_caliptra_debug_tactics.py`: which tactic is advised, from which probe
built, linked and ran and with what fault. It was compared with the Python function on
20,000 random evidences. The lower tactics do not count `misaligned_address` as a fault
(`AccessFaults`), the truncated ones do.

### ToggleInputs and ToggleBaseline

`ToggleInputs` is the dispatch: how a case of a design is lowered (`Lowering`), which
preloads that gives (`Preloads`), when the wrapper must build (`NeedsWrapper`), what the gate
makes of a log. `ToggleBaseline` is `main`, run again and again in one build directory with
any of its options. A name is a link into the repository or a file of its own; `Write` goes
through a link, `Replace` unlinks it first: the difference is what the code gets right
or wrong. Each phase of `main` is an action: `StageFilelist`, `Patch` (three patches),
`StageExecuteFiles`, `Lower` (nine ways), the two prechecks, `Gate`, `Choose`, `Preload` per
prefix, `Launch`, `RunDirect`, `RunWrapper`, `Summarize`; `Fail` ends a run anywhere. What a run
leaves is named by its number. Bounds: the repository is edited between runs only, and the
build directory is that of one design and top module; the digests of descriptors and of the
helper in the cache's key do not change.

What a proof needed a hypothesis for, and what happens without it:

* `AllCached`. Under `--no-compile-cache` the helper writes through the links that an
  earlier run left into the cache (`:2078`), which changes the entry of another key, and
  each output is then replaced by a link to itself (`:2129-2132`): nothing is given
  to the kernel, and a later cached run gets the wrong program. Seen by running `:1966-2185`
  with a helper in place of the materialiser.

What the properties exempt by name, because the code does it:

* `program.bin` of XiangShan is written without its link being removed, with or without
  iterations (`:1107-1116`), so the test's file in the repository gets the iterations, and a run
  that is killed while it writes leaves it torn (`TearProgramBin`). `SourcesAreKept` says
  that no other file is ever changed. That function then returns nothing and the gate
  fails on it; the `return` it lacks stands after that of another function (`:1278-1294`).
* A wrapper that fails may have written a new `vars.tsv` beside the `bench_kernel` of an
  earlier run, and `_can_reuse_bench_kernel` looks only whether both are there
  (`:1946-1951`): the next run lays out its preloads by the one for the other.
  `KernelGetsItsPrograms` says that `layout` and `kernel` are of one run otherwise.

Seen and not stated: the plusargs of a test (`sim_args` of `_parse_execute_args`) never
reach the kernel; a precheck passes on the log of an earlier run, as its return code and its
timeout are not looked at; a CPU run without `--rebuild` summarises the GPU's outputs of an
earlier run (`:2698`); the kernel is used again whatever it was built from; a patch of a
XuanTie testbench that finds only the wrapper goes on with half of it; flags are looked
for as parts of the text, so `dbg_core_rst_l=1` shows `core_rst_l` as well.

### ToggleValidation

The six runners differ in their targets, in whether the test can be chosen, and in whether
an entry says `success`; `OpenPiton` to `VeerFamily` are those records. The return codes of a
baseline are a constant set, negative for a signal: `overall_rc = max(...)` hides a signal,
so `ExitTellsFailures` is about the others. The build directory of the VeeR runner has no
test in its name: the entry of a run that failed may report the summary of another test,
which is why `SuccessIsReportedFresh` is about return code 0.

## 3. Runs

| Run | Bounds | States | Shows |
|---|---|---|---|
| `ring` | 4 slots, 3 values, counter modulo 3 | 8 thousand | indices wrap, ring fills and empties, resets |
| `loop` | 2 entries per queue, 3 commands, limits 0..2 | 200 thousand | all exits of the loop, all callers, hooks, stale faults |
| `run` | counters modulo 8, limits up to 2, steps up to 2 cycles | 449 thousand | wrap within a run, every tie of two limits, memory commands, faults and seeds between runs |
| `build` | 2 classes, 2 versions, 2 levels, split kernels and PTX | 3.2 million | deaths and regeneration between builds of every mode |
| `build_level_claim` | as `build`, 1 version, plain builds | | the first finding below |
| `sweep` | 5 shards, 2 workers, top-1, 2 regions, scores 0 and 1 | 400 thousand | stragglers, early stop, failure |
| `bundle` | 2 processes, 1 launch backend, 3 lanes (one native, one unbound), 2 requests each | 359 thousand | kills at every step, regeneration in place, use after unlock |
| `validation` | 2 processes and 2 requests, 5 kinds of design, 2 builds of each | 1.4 million | each tool failing or killed, files of earlier runs, a rebuild in between |
| `goals` | 7 states of the measurements, all policies, 2 profiles of E906 and of C910, one setter killed | 130 thousand | what an accepted goal, the opening of VeeR and a matrix's advice rest on |
| `veer` | 28 states of the measurements, one that arrives later, 2 chains chosen anew, one acceptance killed | 120 thousand | tools and setters in any order |
| `branches` | 8 states of the measurements and of Caliptra's probes, Vortex's branch and acceptance chosen anew | 150 thousand | cycles among the files, files of different ages |
| `branches_loop_claim` | the repository's measurements, no choice but to follow | | the second finding below |

The safety properties of the campaign runs. `GateTellsSelection`: gate and `selection.json`
differ only after a setter was killed. `AcceptedWasWon`: nothing is accepted that was never
won. `LeavingIsBacked`, `DecisionsAreBacked`, `AcceptedVortexIsBacked`: when all files are up to
date, an acceptance, the opening of a family or a matrix that says to go on agrees with
what is measured and selected then. `LoopSeenOnlyInStaleFiles`, `AcceptedXiangShanIsStale` and
`VeerAdviceIsStale` state what the code can say only from files of different ages: the
loop of two branches, XiangShan's acceptance, and C910's matrix recommending VeeR while
debugging is still possible. `ComparisonsAreBacked` and `SuccessIsFresh` say of the
validation what a ready comparison, a candidate threshold and exit code 0 rest on.

Why these bounds are enough to be of use: a queue of two entries has the states
empty, partly full and full; three commands fill it and leave one over. Counters
modulo 8 with seeds 0 and 6 make a run of three cycles wrap. Two versions, two
levels and two classes give every mixture of old and new IR. Five shards with
`stable_shards = 2` are the fewest for which a straggler moves a recommendation
that was made over earlier shards. Three lanes give two processes that differ in
lane and one lane that can never be built. Two validations on one design give every
order of their writes, and the five designs are one of each kind that the runners tell
apart. The measurements of the campaign runs are those of the repository with one or two
things changed, so that the conditions that open and close a gate hold in one state and
fail in another; `veer` leaves the order of the tools free, `goals`, with 35 tools,
lets them overtake each other by one file, which makes every single file stale in
turn.

`CHECK_DEADLOCK FALSE` is set where the system ends: a campaign returns or
raises, the processes of `bundle` and `validation` have a bounded number of requests, and
campaign tools that would change nothing need not be run. The symmetry of
`BuildVlGpuMC` permutes clang levels and that of `ValidationMC` processes, which no action
distinguishes; it is used only for safety properties.

### Fairness

`MailboxLoop` and `MailboxRun` assume that the thread that made a call goes on
with it: hooks and step functions return. `SweepCampaign` assumes that the main
thread goes on when it can and that every shard's process ends; the code sets
no timeout on a shard, so if one hangs the campaign hangs. `BundleCache` assumes
that a process that can make a step makes it, and that a build or run ends.
Only weak fairness is used, for a lock too: with a bounded number of requests a
lock that is released stays free in the end. The host's calls, kills and
failures are never fair. `VeerLadder` and `Branches` assume of the operator who refreshes
that no tool with something new to write is forgotten for ever (weak fairness of each
`Audit`); choices, measurements and kills are not fair, and `RefreshSettles` is about
what happens once they stop. `branches_loop_claim` adds that the operator follows the
resolution when the files stay up to date again and again (strong fairness of following
settled files), which is what the sentence it refutes tells the reader to do. `BuildVlGpu`,
`Validation`, `Goals` and the toggle modules state no liveness.

### Findings

* **A change of clang level that re-emits nothing** (`build_level_claim`,
  `LevelChangeReemits`). The README (`README.md:832`) promises that `--clang-O O3`
  re-emits the `.ll` files and that the level is tracked in a marker. The marker is
  written only at the end of a build (`build_vl_gpu.py:526-527`), and without a
  marker nothing counts as changed (`:346`). When the first build of a directory
  dies after it emitted its `.ll` files, a build at another level links them as
  cached, and `meta.json` records the level that was asked for.
* **A branch resolution that loops** (`branches_loop_claim`, `FollowingSettles`). The README
  (`README.md:216`) says that the resolution turns the loop between XiangShan and Vortex
  into one stable next tactic. Each of the two tactics recommends to leave only while the
  gate is on its own branch, so with all files up to date the two never recommend each
  other, the loop is not detected
  (`audit_campaign_xiangshan_vortex_branch_resolution.py:69`), and an operator who follows
  the resolution and refreshes the files changes the branch for ever.

Behaviour that no text contradicts, most of it recorded as hazards: the stale
`last_fault` that a dispatch reports again (`LOOP_RUNTIME.h:440`), `return -1` from
a `bool` function which makes a failed hook a successful empty answer (`:297`), the
retry of a bundle build whose working directory the failed attempt removed
(`run_opentitan_tlul_slice_gpu_baseline.py:3446`), a straggler that leaves the
summary with two accounts of the stop (`..._sweep_campaign.py:720`), a `meta.json`
cut short that makes every later build fail, with `--force` too
(`build_vl_gpu.py:525`), and the preloads of a toggle baseline run without the compile cache
(`run_rtlmeter_gpu_toggle_baseline.py:2125`).

## 4. Proofs

The theorems hold for all values of the constants that satisfy the named assumptions
(`CapacityAssumption`, `RoomAssumption` and so on), which say no more than that the
constants are numbers or sets of the kind the code uses. Those of `SliceSweep` and of the
toggle modules have their assumptions as hypotheses.

* `Mailbox_proofs`, the ring: `RingTypeCorrect` and `RingImplementsQueue`. The refinement
  needs what a push and a pop do to the sequence of entries between the indices;
  that is arithmetic modulo `Capacity`, put in lemmas of its own, and each action
  of the ring is then mapped to one of the queue.
* `MailboxLoop_proofs`: `AnsweredOnceInOrder` and `EventsInOrder` are not inductive
  alone. They need that a reply's pushes succeed (`RepliesHaveRoom`), which needs
  that a command being executed has left room in both rings, that nothing but
  the loop pushes answers, that `dispatch_busy` is set exactly while a command
  executes, and that the answer in hand carries the id of the command in hand.
  The invariant `Inv` is the conjunction of `TypeOK`, `ResponseMatches`,
  `BusyWhileExecuting`, `RepliesHaveRoom`, `LoopProgress`, `AnsweredOnceInOrder` and
  `EventsInOrder`. Each of its parts is preserved by each action, and the theorems
  `TypeCorrect`, `ReplyRoom`, `AnsweredOnce` and `EventOrder` follow. `OnlyDrains`
  and `SilentMeansDone` are action properties that follow from `Inv` and one step.
* `Mailbox_proofs`, the run engine: `RunTypeCorrect`, `FaultTold` and `ReasonTrue`, for every
  `Word`. `ReasonTellsWhy` speaks of a run that is over; the invariant
  `LoopInvariant` says what is true while it goes on: the cycle count is the start and
  the cycles run, wrapped at most once (`CyclesCounted`), and no limit has been passed by
  more than the last step. `LimitAssumption` is needed: it says that one step from below
  the largest limit does not run a whole word, for otherwise the code would compare
  elapsed cycles that have started again from 0. That a run's fault on record is
  that of the last run needs the invariant to say where the fault is while the run is
  still in its loop (`FaultWhere`). The last stop reason alone does not tell: a memory
  command that hits the watchpoint replaces it and leaves the fault, so `FaultIsCurrent`
  speaks of the reply of the last run and of the two reasons that can stand beside it.

* `Builds_proofs`, the GPU build: `BuildTypeCorrect`, `MetaIsTrue` and `FullBuilds`, for any versions, levels,
  classes and IR passes. `trust` says between builds that the module on disk is the one
  `meta.json` describes, or that the IR is that of the marker; a build that may be killed at
  any step needs to know what it means in the middle. `Inv` therefore has one conjunct for
  what a directory keeps while no step disturbs it (`IrKept`, `ModuleKept`), one for what a
  full build has made so far (`IrMade`, `ModuleMade`) and one for a module made again from
  what was trusted (`ModuleReused`). `ContentAssumption` says that a missing and a torn file are
  told apart from what a file can hold.
* `Builds_proofs`, the bundle cache: `BundleTypeCorrect`, `ReleasedRight` and `UndisturbedRight`, for any set of
  processes, launches and kills. Only the process that holds `gen_lock` works on the sources
  and the bundles, and what it read of them is still so (`Owned`); a marker that is there tells
  the truth of the binary beside it (`MarkersTrue`), which is why finding both markers is
  enough; what a builder has made so far is of its lane and what that lane finds generated (`BundleMade`); and
  what happened to a bundle since the locks were let go, nobody disturbed it or it was only
  built again the same (`RunKept`). A new generation's number must be that of no marker,
  binary or process, or an old marker would be taken for a new one: `FreshGenIsFresh` counts
  what is in use.
* `Campaign_proofs`: `TypeCorrect`, `GateTells`, `AcceptedWins` and `LeavingRestsOnTheLadder` of the
  VeeR family, the last by the argument of the next paragraph. `AcceptedWins` is the case of
  files of any age: the invariant says of every step, gate and acceptance in `work/` that
  names a design as won that the design is in `won`, and each report is computed from
  reports of which that holds already, or from the measurements, whose wins are in `won`.
  `ProbesDeepenTheAdvice` of the Caliptra tactics: results that were missing and are added
  never make the advised tactic shallower, so an operator who runs what is advised is not
  sent back. The exception, which the theorem names, is the first half of the helper's core:
  its rule asks that results are missing (`audit_campaign_caliptra_debug_tactics.py:3804`).
* The three campaign models, once the files are up to date: `LeavingRestsOnTheLadder`
  (`Campaign_proofs`), `LoopIsStale`, `XiangShanIsStale` and `VortexIsBacked` (`Branches_proofs`),
  `DecisionsRestOnMeasurements` and `VeerAdvice` (`Goals_proofs`). They hold for every set of
  choices, measurements and fragile tools, and for every order of the tools at the start
  (`ChoicesAssumption`, `EvidenceAssumption`, `OrderAssumption`, and `ProbingsAssumption` of
  `Branches`). The properties speak of states with `Settled` and `cut = {}`. The difficulty is that
  `Settled` says only of a tool that *can* run that its file is what it would write now; a tool
  stopped by a torn or missing file, or by a torn selection, may leave any old report behind.
  The invariant `TInv` has what excludes it: a selection is torn only if its chain is in
  `cut`, and the names a report carries are those of the code (`WellNamed`). From it and
  `UpToDate` follows, along the order in which the files need each other, that every file a decision
  depends on is there and is the report of its tool on the state of now (`SettledIsCurrent`,
  `AllAreFresh`, `GoalFilesAreFresh`, `FamilyFilesAreFresh`, `MatricesAreFresh`). The rest is a chain
  of lemmas back through the tools, each about one report: what it must have read to say what it
  says (`C910Opens`, `BreadthAccepted`, `EntryWins`, `GoalNeedsAll`; `AcceptingVortexNeedsAll`;
  `LeavingNeedsAll`). `DecisionsAreBacked` follows nineteen files from C910's gate to the comparisons.
  In `Branches` the files need each other in a cycle: the gate of Vortex reads the status of XiangShan
  if it is there, and that status reads the gate. Were both torn neither tool could run, and
  everything above them would stay as it was; `CycleIsOpen`, that they never both are, is the second
  part of the inductive invariant. It is kept because a tool is killed only while it writes, so after
  it has read the other file whole. `RunInOrder` is a recursive function: that the files it
  returns are well named (`OrderNamed`) is proved, as `ReplayIs` below, by the least place in the order
  where they would not be.
* `TypeCorrect` of `Goals` and `Branches` are corollaries of `TInv`. In `Goals` the setter of the
  threshold policy has a case for each of its four files (`PolicyFilesNamed`).
* `SweepCampaign_proofs`, the selection: `MergedTopIsGlobal`: a case among the n best of all, n
  at most `keep_top_k`, is among the best of its own shard. The sweep: `CandidatesRunOnce`,
  `BatchesDoNotMatter` and `RetainedFilesAreFresh` are one argument over the loop: the cases
  run, pending and to come are the shard's candidates and disjoint; what is retained so
  far is what `SliceSelection` retains of the cases run so far, because dropping a case that
  is beaten never changes what is retained later; and a retained case's files are of this run.
  The sweep is an instance `S` of `SliceSweep` in this module, beside the campaign.
* `SweepCampaign_proofs`, the campaign: `CampaignTyped`, `StopsWhereConverged`, `ReturnsAccounted` and
  `StragglersMoveTheStop`, for any number of shards and workers, in whatever order shards end.
  `Accounted` says where every submitted shard is. `Converged` says that the accumulated state
  is `StateOf(loaded)`, a closed form: the merged pool is that of the union, the plateau is
  counted from the last shard that changed it, and the stop is the first shard at which the
  plateau was long enough. Advancing the state by a shard with the highest index keeps it
  (`AdvancedIs`, which rests on `RankedOfUnion`: the pool of a pool and new cases is the pool
  of all). The rebuild after a straggler is the recursive function `Replay`; that it computes
  the closed form at every shard (`ReplayIs`) is proved without induction over data: the
  least shard where it did not would have a predecessor where it does.
* `Validation_proofs`, the measured design: `TypeCorrect`, `Backed` and `Fresh`, for any of the
  designs (`DesignsAssumption`), any set of processes and any number of builds
  (`BoundsAssumption`). The invariant has two parts. `Files` says of each file what holds whoever
  wrote it last: a state or report shows some version, a final state shows one at the right
  clock edge or nothing a host shows, a measure is satisfied only if it passes its gate and
  reaches its bits, a comparison is of two such measures. `Undisturbed` says what a job that
  has had the design for itself knows besides: the state is of the version it probed, a flow
  that ended well left a summary of that version, and each artifact of the trio made so far is
  ok, of its threshold and of this version. A step keeps the first part by writing a file that
  fits, and the second because it makes every other job disturbed (`StepKeeps`); what earlier
  runs left behind needs only fit (`EarlierFits`). That a hybrid measure is backed needs that
  the gate of each design asks for it: of the 21 designs the proof uses `IsDesign`, which is
  checked for each.
* `Validation_proofs`, the toggle runners, instances `B` and `V` there. `RepositoryIsKept`: products are never links (`ProductsAreFiles`), patches and
  programs are unlinked first, so only `LowerProgramBin` and `TearProgramBin` write through a
  link, and only through that of `program.bin`. `RunsTellOfThemselves`: what is in a directory that was emptied is of this run
  (`OwnDumps`). `KernelsGetTheirPrograms`: the images are what the repository and the case say
  (`LowerMakesImages`), every entry of the cache holds what its key says, and what is given
  so far is the key of this image and kernel (`Programmed`); hypothesis `AllCached`.
  `FetchesAreActivity`: the diagnosis `fetch_without_retire_or_lsu`
  (`run_rtlmeter_gpu_toggle_baseline.py:309`) is never made. `ReportsTellTheirSession`: the
  entries made so far are of the targets done so far and of this session, and `overall` is
  no less than any of their return codes.

Of the theorems, those with a property in `PROJECT.json` state what a run checks; the others
are about modules no run of the project instantiates (`SliceSweep`, `ToggleBaseline`,
`ToggleValidation`) or about operators (`SliceSelection`, `CaliptraTactics`, `ToggleInputs`) that
runs only evaluate.

Every invariant and every safety property of steps that a passing run checks is a theorem. Only
model-checked is liveness (`CallReturns`, `RunEnds`, `CampaignEnds`, `RequestsEnd`, `RefreshSettles`),
which needs fairness and `ENABLED`. The two claims that a run refutes, `LevelChangeReemits` and
`FollowingSettles`, are false. `Goals.cfg` leaves the
entry, goal, breadth-acceptance, branch and same-family chains as they are checked in, and C910's
branch is never held: those choices are covered by the proofs only.

## 5. What is not modelled, and what could come next

Left out on purpose: formatting of summaries, logs, digests of results, LLVM and
CUDA themselves. The components that are not modelled are listed with their
reason in `PROJECT.json`; the largest are the bundle builders and the fuser (generators of
text), the GRPO scripts, and the parts of
`run_opentitan_tlul_slice_gpu_baseline.py` that prepare the inputs and digest the results of
one run. What would add most next:

1. a run of `ToggleBaseline` and `SliceSweep` on small instances, beside the theorems;
2. the mock's `process_one` and drain, and the epoch interface of the session, composed
   with `MailboxQueue`;
3. a flag for the CPU reference in the requests of `BundleCache`;
4. the hybrid host's order of patches, launches and dumps against an abstract "steps
   applied in order", and the object cache of `build_bench_bundle.py`.
