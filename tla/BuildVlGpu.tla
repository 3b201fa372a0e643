----------------------------- MODULE BuildVlGpu -----------------------------
(***************************************************************************)
(* src/src/tools/build_vl_gpu.py: one Verilator output directory (mdir),   *)
(* the files a build leaves in it, and builds run one after the other.     *)
(*                                                                         *)
(*   cpp --clang--> .ll per class --llvm-link--> merged.ll --vlgpugen,opt  *)
(*   --> vl_batch_gpu_patched.ll --opt,llc--> .ptx --ptxas--> .cubin       *)
(*                                                                         *)
(* A build decides what to redo from what lies in mdir: a .ll is cached by *)
(* existence, the clang level of the last completed build is in the marker *)
(* .vl_gpu_clang_opt, and vl_batch_gpu.meta.json tells the runner what the *)
(* module is. Any tool may fail and the process may be killed; what was    *)
(* written stays. The content of a file is abstracted to its provenance:   *)
(* the design version and clang level of each .ll it is made of, the       *)
(* storage size (identified with the design version it was probed from),   *)
(* and whether the kernels are split by phase. The tools are external and  *)
(* replace their output whole or not at all.                               *)
(***************************************************************************)
EXTENDS Integers, FiniteSets, FiniteSetsExt

CONSTANTS
    NumClasses,     \* classes in *_classes.mk, in list order
    MaxVersion,     \* bound: how often the design is verilated
    Opts,           \* clang levels asked for (--clang-O)
    Flags,          \* bound: the <<--force, --kernel-split-phases,
                    \* --emit-ptx-module>> explored, per version of the design
    Parallel,       \* jobs > 1: the .ll files are compiled by a thread pool
    Missing,        \* no such file
    Torn,           \* a text file cut short by a kill
    NoJob           \* no build is running

ASSUME BuildAssumption ==
    /\ NumClasses \in Nat \ {0}
    /\ MaxVersion \in Nat \ {0}
    /\ Opts # {} /\ Missing \notin Opts /\ Torn \notin Opts
    /\ Missing # Torn
    /\ Flags \in [1..MaxVersion -> SUBSET (BOOLEAN \X BOOLEAN \X BOOLEAN)] /\ Parallel \in BOOLEAN

VARIABLES
    cpp,            \* version of the Verilator output
    ll,             \* per class: the .ll file
    merged,         \* merged.ll
    patched,        \* vl_batch_gpu_patched.ll
    ptx,            \* vl_batch_gpu.ptx
    cubin,          \* vl_batch_gpu.cubin
    meta,           \* vl_batch_gpu.meta.json
    marker,         \* .vl_gpu_clang_opt
    stage,          \* where the running build is
    job,            \* its arguments
    pending,        \* classes it has still to compile
    any_ll_rebuilt, \* it had some to compile
    failed,         \* a parallel compilation has failed
    storage,        \* its storage_size
    trust           \* history: what no death and no stale reuse has touched

disk  == <<ll, merged, patched, ptx, cubin, meta, marker>>
local == <<pending, any_ll_rebuilt, failed, storage>>
buildVars  == <<cpp, disk, stage, job, local, trust>>

Classes  == 1..NumClasses
Versions == 1..MaxVersion
Modes    == {"full", "reuse_gpu_patched_ll", "reuse_ptx"}

Ir      == [version : Versions, opt : Opts]
Module  == [from : SUBSET Ir, storage : Versions, split : BOOLEAN]
Meta    == [opt : Opts, storage : Versions, split : BOOLEAN, file : {"cubin", "ptx"}]
Jobs    == { j \in [mode : Modes, opt : Opts, force : BOOLEAN, split : BOOLEAN,
                    emit : BOOLEAN] :
                 /\ <<j.force, j.split, j.emit>> \in Flags[cpp]
                 /\ j.split => j.mode = "full" }    \* else ValueError

\* That there is no file, or a torn one, is no content of a file.
ASSUME ContentAssumption == Missing \notin Module \cup Meta /\ Torn \notin Meta

BuildTypeOK ==
    /\ cpp \in Versions
    /\ ll \in [Classes -> Ir \cup {Missing}]
    /\ merged \in SUBSET Ir                      \* {}: no merged.ll
    /\ patched \in Module \cup {Missing}
    /\ ptx \in Module \cup {Missing}
    /\ cubin \in Module \cup {Missing}
    /\ meta \in Meta \cup {Missing, Torn}
    /\ marker \in Opts \cup {Missing, Torn}
    /\ stage \in {"idle", "load", "compile", "link", "gen", "lower", "asm", "meta", "mark"}
    /\ job \in Jobs \cup {NoJob}
    /\ pending \subseteq Classes
    /\ any_ll_rebuilt \in BOOLEAN
    /\ failed \in BOOLEAN
    /\ storage \in Versions \cup {0}
    /\ trust \subseteq {"ir", "module"}

-----------------------------------------------------------------------------
(* The decisions. *)

clang_changed == marker # Missing /\ marker # job.opt

\* A slip: the change of level is noticed but the .ll files stay cached.
NeedsEmitIgnoringLevel(c) == job.force \/ ll[c] = Missing

NeedsEmit(c) == job.force \/ clang_changed \/ ll[c] = Missing

NeedsLink == job.force \/ clang_changed \/ any_ll_rebuilt \/ merged = {}

\* A slip: existing meta is used without asking whether there is one.
ResolveStorageUnchecked(reuse) ==
    IF ~reuse THEN cpp ELSE IF meta = Missing THEN 0 ELSE meta.storage

\* existing_meta's storage_size, or the probe of the current root header.
ResolveStorage(reuse) == IF reuse /\ meta # Missing THEN meta.storage ELSE cpp

\* A slip: meta always records the level asked for.
MetaOptAsAsked == job.opt

MetaOpt ==
    IF job.mode = "reuse_ptx" /\ meta # Missing THEN meta.opt ELSE job.opt

\* launch_sequence: from the manifest of this build, or from existing meta.
MetaSplit ==
    IF job.mode = "full" THEN job.split
    ELSE IF meta = Missing THEN FALSE ELSE meta.split

-----------------------------------------------------------------------------
(* What the properties ask of a module. *)

Loaded == IF meta.file = "ptx" THEN ptx ELSE cubin

\* The module the runner would load is what meta says, built for one layout.
Described(module, m) ==
    /\ module # Missing
    /\ module.split = m.split
    /\ module.storage = m.storage
    /\ module.from = {[version |-> m.storage, opt |-> m.opt]}

\* A build that redoes every step whatever lies in mdir.
RebuildsAll == job.mode # "reuse_ptx" /\ (job.force \/ clang_changed)

\* The .ll files, merged.ll and the marker agree with cpp once it completes.
IrTrusted == RebuildsAll \/ "ir" \in trust

\* So do the patched IR, the PTX and the meta.json it is about to write.
ModuleTrusted ==
    CASE job.mode = "full" -> IrTrusted
      [] job.mode = "reuse_gpu_patched_ll" ->
             "module" \in trust /\ meta.opt = job.opt
      [] OTHER -> "module" \in trust

-----------------------------------------------------------------------------
BuildInit ==
    /\ cpp = 1
    /\ ll = [c \in Classes |-> Missing]
    /\ merged = {}
    /\ patched = Missing /\ ptx = Missing /\ cubin = Missing
    /\ meta = Missing /\ marker = Missing
    /\ stage = "idle" /\ job = NoJob
    /\ pending = {} /\ any_ll_rebuilt = FALSE /\ failed = FALSE /\ storage = 0
    /\ trust = {"ir"}

\* Verilator writes a new version of the design (external).
Verilate ==
    /\ stage = "idle" /\ cpp < MaxVersion
    /\ cpp' = cpp + 1
    /\ trust' = trust \ {"ir"}
    /\ UNCHANGED <<disk, stage, job, local>>

StartBuild(j) ==
    /\ stage = "idle"
    /\ stage' = "load" /\ job' = j
    /\ UNCHANGED <<cpp, disk, local, trust>>

\* The build is over: its locals go out of scope.
Ends ==
    /\ stage' = "idle" /\ job' = NoJob
    /\ pending' = {} /\ any_ll_rebuilt' = FALSE /\ failed' = FALSE /\ storage' = 0

CannotLoad == meta = Torn \/ (job.mode = "reuse_ptx" /\ ptx = Missing)

Refuse ==
    /\ stage = "load" /\ CannotLoad
    /\ Ends
    /\ UNCHANGED <<cpp, disk, trust>>

Load ==
    /\ stage = "load" /\ ~CannotLoad
    /\ IF job.mode = "reuse_ptx"
       THEN /\ stage' = "asm"
            /\ storage' = ResolveStorage(TRUE)
            /\ pending' = {}
       ELSE /\ stage' = "compile"
            /\ storage' = storage
            /\ pending' = { c \in Classes : NeedsEmit(c) }
    /\ any_ll_rebuilt' = (pending' # {})
    /\ UNCHANGED <<cpp, disk, job, failed, trust>>

\* jobs = 1 compiles in list order, a pool in any order.
Compile(c) ==
    /\ stage = "compile" /\ c \in pending
    /\ Parallel \/ c = Min(pending)
    /\ ll' = [ll EXCEPT ![c] = [version |-> cpp, opt |-> job.opt]]
    /\ pending' = pending \ {c}
    /\ UNCHANGED <<cpp, merged, patched, ptx, cubin, meta, marker, stage, job,
                   any_ll_rebuilt, failed, storage, trust>>

\* future.result() raises, but leaving the executor waits for the others.
CompileFails(c) ==
    /\ stage = "compile" /\ c \in pending /\ Parallel
    /\ pending' = pending \ {c}
    /\ failed' = TRUE
    /\ UNCHANGED <<cpp, disk, stage, job, any_ll_rebuilt, storage, trust>>

Link ==
    /\ stage = "compile" /\ pending = {} /\ ~failed
    /\ merged' = IF NeedsLink THEN { ll[c] : c \in Classes } ELSE merged
    /\ storage' = ResolveStorage(job.mode = "reuse_gpu_patched_ll")
    /\ stage' = "gen"
    /\ UNCHANGED <<cpp, ll, patched, ptx, cubin, meta, marker, job, pending,
                   any_ll_rebuilt, failed, trust>>

\* vlgpugen and the pass pipeline, or the patched IR of an earlier build.
GenerateModule ==
    /\ stage = "gen"
    /\ IF job.mode = "full"
       THEN patched' = [from |-> merged, storage |-> storage, split |-> job.split]
       ELSE patched # Missing /\ patched' = patched
    /\ stage' = "lower"
    /\ UNCHANGED <<cpp, ll, merged, ptx, cubin, meta, marker, job, local, trust>>

Lower ==
    /\ stage = "lower"
    /\ ptx' = patched
    /\ stage' = "asm"
    /\ UNCHANGED <<cpp, ll, merged, patched, cubin, meta, marker, job, local, trust>>

Assemble ==
    /\ stage = "asm"
    /\ cubin' = IF job.emit THEN cubin ELSE ptx
    /\ stage' = "meta"
    /\ UNCHANGED <<cpp, ll, merged, patched, ptx, meta, marker, job, local, trust>>

WriteMeta ==
    /\ stage = "meta"
    /\ meta' = [opt |-> MetaOpt, storage |-> storage, split |-> MetaSplit,
                file |-> IF job.emit THEN "ptx" ELSE "cubin"]
    /\ trust' = (trust \ {"module"}) \cup (IF ModuleTrusted THEN {"module"} ELSE {})
    /\ stage' = "mark"
    /\ UNCHANGED <<cpp, ll, merged, patched, ptx, cubin, marker, job, local>>

Finish ==
    /\ stage = "mark"
    /\ marker' = IF job.mode = "reuse_ptx" THEN marker ELSE job.opt
    /\ trust' = trust \cup (IF IrTrusted THEN {"ir"} ELSE {})
    /\ Ends
    /\ UNCHANGED <<cpp, ll, merged, patched, ptx, cubin, meta>>

(* A tool fails, an input of the mode is missing, a compilation of the pool *)
(* has failed, or the process is killed. A text file being written may stay *)
(* torn.                                                                    *)
Die ==
    /\ stage \notin {"idle", "load"}
    /\ meta' \in {meta} \cup (IF stage = "meta" THEN {Torn} ELSE {})
    /\ marker' \in {marker} \cup
          (IF stage = "mark" /\ job.mode # "reuse_ptx" THEN {Torn} ELSE {})
    /\ trust' = IF job.mode # "reuse_ptx" THEN {}
                ELSE IF meta' = Torn THEN trust \ {"module"} ELSE trust
    /\ Ends
    /\ UNCHANGED <<cpp, ll, merged, patched, ptx, cubin>>

BuildNext ==
    \/ Verilate
    \/ \E j \in Jobs : StartBuild(j)
    \/ Refuse \/ Load
    \/ \E c \in Classes : Compile(c) \/ CompileFails(c)
    \/ Link \/ GenerateModule \/ Lower \/ Assemble \/ WriteMeta \/ Finish \/ Die

BuildSpec == BuildInit /\ [][BuildNext]_buildVars

-----------------------------------------------------------------------------
(* A full build that completes leaves what it was asked for: the module the *)
(* runner loads is the current design at the requested clang level, split   *)
(* as asked, and meta.json says so. So it is with a forced build, or one    *)
(* that changes the recorded level, over whatever earlier builds left; and  *)
(* with a cached build if no build died and the design was not regenerated  *)
(* since such a one (build_vl_gpu.py:342-409).                              *)
FullBuildIsCurrent ==
    [][ Finish /\ job.mode = "full" /\ (RebuildsAll \/ "ir" \in trust) =>
            /\ meta.opt = job.opt
            /\ meta.storage = cpp
            /\ meta.split = job.split
            /\ Described(Loaded, meta) ]_buildVars

(* Between builds meta.json tells the runner the truth about the module it  *)
(* names, its clang level, storage size and kernels, through any number of  *)
(* reuse builds at any level, deaths of --reuse-ptx builds and new versions *)
(* of the design, until a build that rewrites IR dies or a reuse of the     *)
(* patched IR claims another level (build_vl_gpu.py:497-525).               *)
MetaDescribesModule ==
    stage = "idle" /\ "module" \in trust =>
        /\ meta \notin {Missing, Torn}
        /\ Described(Loaded, meta)

-----------------------------------------------------------------------------
(* A claim of the documentation the code does not keep. *)

(* README.md:832: --clang-O re-emits the .ll files, the level is tracked in *)
(* the marker. A completed full build of an unchanged design uses no .ll of *)
(* another level than the one it was asked for.                             *)
LevelChangeReemits ==
    [][ Finish /\ job.mode = "full" => \A i \in Loaded.from : i.opt = job.opt ]_buildVars

=============================================================================
