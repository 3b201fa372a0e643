--------------------------- MODULE Builds_proofs ---------------------------
(***************************************************************************)
(* Proofs about what builds leave behind.  A build of the GPU module       *)
(* leaves what it was asked for, and meta.json describes the module; a     *)
(* released bundle of the cache is the one asked for, and so is one run    *)
(* undisturbed.                                                            *)
(***************************************************************************)
EXTENDS BuildVlGpu, BundleCache, FiniteSetTheorems, TLAPS

-----------------------------------------------------------------------------
(* The build directory of the GPU module. *)

AfterLink == {"gen", "lower", "asm", "meta", "mark"}

\* What the running build has read and made so far has its type.
WellTyped ==
  /\ BuildTypeOK
  /\ stage = "idle" => job = NoJob
  /\ stage # "idle" => job \in Jobs
  /\ stage \notin {"idle", "load"} => meta # Torn
  /\ stage \in AfterLink => storage \in Versions
  /\ stage \in {"compile", "gen", "lower"} => job.mode # "reuse_ptx"
  /\ stage = "compile" /\ ~failed => \A c \in Classes \ pending : ll[c] \in Ir

\* The .ll files and merged.ll are those of one level, which the marker names,
\* or there are none.
IrClean ==
  \/ marker = Missing /\ merged = {} /\ \A c \in Classes : ll[c] = Missing
  \/ /\ marker \in Opts
     /\ merged = {[version |-> cpp, opt |-> marker]}
     /\ \A c \in Classes : ll[c] = [version |-> cpp, opt |-> marker]

IrKept ==
  "ir" \in trust /\ (stage \in {"idle", "load"} \/ job.mode = "reuse_ptx") => IrClean

AskedIr == [version |-> cpp, opt |-> job.opt]

\* What a trusted build has compiled and linked is what it was asked for.
IrMade ==
  stage \notin {"idle", "load"} /\ job.mode # "reuse_ptx" /\ IrTrusted =>
    /\ stage = "compile" /\ ~failed =>
         /\ \A c \in Classes \ pending : ll[c] = AskedIr
         /\ NeedsLink \/ merged = {AskedIr}
    /\ stage \in AfterLink => merged = {AskedIr} /\ \A c \in Classes : ll[c] = AskedIr

\* The module that meta.json describes.
Promised(m) ==
  [from |-> {[version |-> m.storage, opt |-> m.opt]}, storage |-> m.storage, split |-> m.split]

HasMeta == meta \in Meta /\ meta # Missing /\ meta # Torn

ModuleKept ==
  "module" \in trust /\ (stage \in {"idle", "load", "mark"} \/ job.mode = "reuse_ptx") =>
    /\ HasMeta /\ patched = Promised(meta) /\ ptx = Promised(meta)
    /\ meta.file = "cubin" => cubin = Promised(meta)

\* A build that reuses a trusted module makes it again.
ModuleReused ==
  "module" \in trust /\ stage \notin {"idle", "load", "mark"} /\ job.mode # "full" =>
    /\ HasMeta /\ patched = Promised(meta)
    /\ stage # "compile" => storage = meta.storage
    /\ stage \in {"asm", "meta"} => ptx = Promised(meta)
    /\ stage = "meta" /\ ~job.emit => cubin = Promised(meta)

AskedModule == [from |-> {AskedIr}, storage |-> cpp, split |-> job.split]

\* What a trusted full build has generated so far is what it was asked for.
ModuleMade ==
  stage \in AfterLink /\ job.mode = "full" /\ IrTrusted =>
    /\ storage = cpp
    /\ stage # "gen" => patched = AskedModule
    /\ stage \notin {"gen", "lower"} => ptx = AskedModule
    /\ stage \in {"meta", "mark"} /\ ~job.emit => cubin = AskedModule
    /\ stage = "mark" => meta = [opt |-> job.opt, storage |-> cpp, split |-> job.split,
                              file |-> IF job.emit THEN "ptx" ELSE "cubin"]

BuildInv == WellTyped /\ IrKept /\ IrMade /\ ModuleKept /\ ModuleReused /\ ModuleMade

-----------------------------------------------------------------------------
LEMMA JobTyped ==
  ASSUME WellTyped, stage # "idle"
  PROVE  /\ job.mode \in Modes /\ job.opt \in Opts /\ job.force \in BOOLEAN
         /\ job.split \in BOOLEAN /\ job.emit \in BOOLEAN
         /\ job.split => job.mode = "full"
BY DEF WellTyped, Jobs

LEMMA WellTypedInit == ASSUME BuildAssumption, BuildInit PROVE WellTyped
<1>. USE DEF BuildInit, WellTyped, AfterLink
<1>1. cpp \in Versions /\ ll \in [Classes -> Ir \cup {Missing}]
  BY DEF Versions, BuildAssumption
<1>2. merged \in SUBSET Ir /\ trust \subseteq {"ir", "module"}
  OBVIOUS
<1>3. BuildTypeOK
  BY <1>1, <1>2 DEF BuildTypeOK
<1>. QED
  BY <1>3

LEMMA WriteMetaTyped ==
  ASSUME WellTyped, WriteMeta
  PROVE  meta' \in Meta
<1>. USE DEF WellTyped, BuildTypeOK, AfterLink
<1>1. MetaOpt \in Opts /\ MetaSplit \in BOOLEAN
  BY JobTyped DEF WriteMeta, MetaOpt, MetaSplit, Meta
<1>2. storage \in Versions
  BY DEF WriteMeta
<1>. QED
  BY <1>1, <1>2 DEF WriteMeta, Meta

LEMMA WellTypedStep ==
  ASSUME BuildAssumption, ContentAssumption, WellTyped, [BuildNext]_buildVars
  PROVE  WellTyped'
<1>. USE DEF WellTyped, BuildTypeOK, AfterLink
<1>1. CASE UNCHANGED buildVars
  <2>1. UNCHANGED <<cpp, ll, merged, patched, ptx, cubin, meta, marker, stage, job, pending,
                    any_ll_rebuilt, failed, storage, trust, Jobs>>
    BY <1>1 DEF buildVars, disk, local, Jobs
  <2>. QED
    BY <2>1
<1>2. CASE Verilate
  BY <1>2 DEF Verilate, disk, local, Versions, BuildAssumption
<1>3. ASSUME NEW j \in Jobs, StartBuild(j) PROVE WellTyped'
  <2>1. Jobs' = Jobs
    BY <1>3 DEF StartBuild, Jobs
  <2>. QED
    BY <1>3, <2>1 DEF StartBuild, disk, local
<1>4. CASE Refuse
  BY <1>4 DEF Refuse, Ends, disk
<1>5. CASE Load
  <2>1. Jobs' = Jobs
    BY <1>5 DEF Load, Jobs
  <2>2. meta \in Meta \cup {Missing}
    BY <1>5 DEF Load, CannotLoad
  <2>3. CASE job.mode = "reuse_ptx"
    <3>1. ResolveStorage(TRUE) \in Versions
      BY <2>2 DEF ResolveStorage, Meta
    <3>. QED
      BY <1>5, <2>1, <2>2, <2>3, <3>1 DEF Load, disk, CannotLoad
  <2>4. CASE job.mode # "reuse_ptx"
    <3>1. \A c \in Classes \ pending' : ll[c] \in Ir
      BY <1>5, <2>4 DEF Load, NeedsEmit
    <3>. QED
      BY <1>5, <2>1, <2>2, <2>4, <3>1 DEF Load, disk, CannotLoad
  <2>. QED
    BY <2>3, <2>4
<1>6. ASSUME NEW c \in Classes, Compile(c) PROVE WellTyped'
  <2>1. Jobs' = Jobs /\ [version |-> cpp, opt |-> job.opt] \in Ir
    BY <1>6, JobTyped DEF Compile, Jobs, Ir
  <2>. QED
    BY <1>6, <2>1 DEF Compile
<1>7. ASSUME NEW c \in Classes, CompileFails(c) PROVE WellTyped'
  <2>1. Jobs' = Jobs
    BY <1>7 DEF CompileFails, Jobs
  <2>. QED
    BY <1>7, <2>1 DEF CompileFails, disk
<1>8. CASE Link
  <2>1. Jobs' = Jobs
    BY <1>8 DEF Link, Jobs
  <2>2. { ll[c] : c \in Classes } \subseteq Ir
    BY <1>8 DEF Link
  <2>3. ResolveStorage(job.mode = "reuse_gpu_patched_ll") \in Versions
    BY <1>8 DEF Link, ResolveStorage, Meta
  <2>. QED
    BY <1>8, <2>1, <2>2, <2>3 DEF Link
<1>9. CASE GenerateModule
  <2>1. Jobs' = Jobs
    BY <1>9 DEF GenerateModule, Jobs, local
  <2>2. patched' \in Module \cup {Missing}
    BY <1>9, JobTyped DEF GenerateModule, Module
  <2>. QED
    BY <1>9, <2>1, <2>2 DEF GenerateModule, local
<1>10. CASE Lower \/ Assemble
  <2>1. Jobs' = Jobs
    BY <1>10 DEF Lower, Assemble, Jobs, local
  <2>. QED
    BY <1>10, <2>1 DEF Lower, Assemble, local
<1>11. CASE WriteMeta
  <2>1. Jobs' = Jobs
    BY <1>11 DEF WriteMeta, Jobs, local
  <2>. QED
    BY <1>11, <2>1, WriteMetaTyped DEF WriteMeta, local, ContentAssumption
<1>12. CASE Finish
  BY <1>12, JobTyped DEF Finish, Ends
<1>13. CASE Die
  BY <1>13 DEF Die, Ends
<1>. QED
  BY <1>1, <1>2, <1>3, <1>4, <1>5, <1>6, <1>7, <1>8, <1>9, <1>10, <1>11, <1>12, <1>13 DEF BuildNext
-----------------------------------------------------------------------------
LEMMA IrKeptStep ==
  ASSUME BuildAssumption, WellTyped, IrKept, IrMade, [BuildNext]_buildVars
  PROVE  IrKept'
<1>. USE DEF IrKept
<1>1. CASE UNCHANGED buildVars
  BY <1>1 DEF buildVars, disk, IrClean
<1>2. CASE Verilate
  BY <1>2 DEF Verilate
<1>3. ASSUME NEW j \in Jobs, StartBuild(j) PROVE IrKept'
  BY <1>3 DEF StartBuild, disk, IrClean
<1>4. CASE Refuse \/ Load
  BY <1>4 DEF Refuse, Load, disk, IrClean, Ends
<1>5. ASSUME NEW c \in Classes, Compile(c) \/ CompileFails(c) PROVE IrKept'
  BY <1>5 DEF Compile, CompileFails, disk, IrClean, WellTyped
<1>6. CASE Link \/ GenerateModule \/ Lower
  BY <1>6 DEF Link, GenerateModule, Lower, IrClean, local, WellTyped
<1>7. CASE Assemble \/ WriteMeta
  BY <1>7 DEF Assemble, WriteMeta, IrClean, local
<1>8. CASE Finish
  <2>1. CASE job.mode = "reuse_ptx"
    BY <1>8, <2>1 DEF Finish, IrClean, IrTrusted, RebuildsAll
  <2>2. CASE job.mode # "reuse_ptx" /\ IrTrusted
    <3>1. merged = {AskedIr} /\ \A c \in Classes : ll[c] = AskedIr
      BY <1>8, <2>2 DEF Finish, IrMade, AfterLink
    <3>2. job.opt \in Opts
      BY <1>8, JobTyped DEF Finish
    <3>. QED
      BY <1>8, <2>2, <3>1, <3>2 DEF Finish, IrClean, AskedIr
  <2>3. CASE job.mode # "reuse_ptx" /\ ~IrTrusted
    BY <1>8, <2>3 DEF Finish, IrTrusted
  <2>. QED
    BY <2>1, <2>2, <2>3
<1>9. CASE Die
  <2>1. CASE job.mode = "reuse_ptx"
    BY <1>9, <2>1 DEF Die, IrClean
  <2>2. CASE job.mode # "reuse_ptx"
    BY <1>9, <2>2 DEF Die
  <2>. QED
    BY <2>1, <2>2
<1>. QED
  BY <1>1, <1>2, <1>3, <1>4, <1>5, <1>6, <1>7, <1>8, <1>9 DEF BuildNext

\* A trusted build begins with everything to compile, or with the files it wants.
LEMMA LoadTrusts ==
  ASSUME WellTyped, IrKept, Load, job.mode # "reuse_ptx", IrTrusted
  PROVE  /\ \A c \in Classes \ pending' : ll[c] = AskedIr
         /\ NeedsLink' \/ merged = {AskedIr}
<1>1. pending' = { c \in Classes : NeedsEmit(c) } /\ any_ll_rebuilt' = (pending' # {})
  BY DEF Load
<1>2. UNCHANGED <<job, marker, merged>>
  BY DEF Load, disk
<1>3. CASE RebuildsAll
  BY <1>1, <1>2, <1>3 DEF RebuildsAll, NeedsEmit, NeedsLink, clang_changed
<1>4. CASE ~RebuildsAll
  <2>1. IrClean /\ ~job.force /\ ~clang_changed
    BY <1>4 DEF IrTrusted, IrKept, Load, RebuildsAll
  <2>2. CASE marker = Missing /\ merged = {} /\ \A c \in Classes : ll[c] = Missing
    BY <1>1, <1>2, <2>2 DEF NeedsEmit, NeedsLink
  <2>3. CASE /\ marker \in Opts /\ merged = {[version |-> cpp, opt |-> marker]}
             /\ \A c \in Classes : ll[c] = [version |-> cpp, opt |-> marker]
    <3>1. marker = job.opt
      BY <2>1, <2>3, BuildAssumption DEF clang_changed
    <3>. QED
      BY <2>3, <3>1 DEF AskedIr
  <2>. QED
    BY <2>1, <2>2, <2>3 DEF IrClean
<1>. QED
  BY <1>3, <1>4

LEMMA IrMadeStep ==
  ASSUME BuildAssumption, WellTyped, IrKept, IrMade, [BuildNext]_buildVars
  PROVE  IrMade'
<1>. DEFINE trusts == UNCHANGED <<IrTrusted, AskedIr>>
<1>. USE DEF IrMade, AfterLink
<1>1. CASE UNCHANGED buildVars
  <2>1. UNCHANGED <<IrTrusted, AskedIr, NeedsLink, stage, failed, pending, ll, merged, job>>
    BY <1>1 DEF buildVars, disk, local, IrTrusted, RebuildsAll, clang_changed, AskedIr, NeedsLink
  <2>. QED
    BY <2>1
<1>2. CASE Verilate \/ Refuse \/ Finish \/ Die
  BY <1>2 DEF Verilate, Refuse, Finish, Die, Ends
<1>3. ASSUME NEW j \in Jobs, StartBuild(j) PROVE IrMade'
  BY <1>3 DEF StartBuild
<1>4. CASE Load
  <2>1. trusts /\ UNCHANGED <<ll, merged, job>>
    BY <1>4 DEF Load, disk, IrTrusted, RebuildsAll, clang_changed, AskedIr
  <2>2. stage' \in {"compile", "asm"} /\ (stage' = "asm" => job.mode = "reuse_ptx")
    BY <1>4 DEF Load
  <2>. QED
    BY <1>4, <2>1, <2>2, LoadTrusts
<1>5. ASSUME NEW c \in Classes, Compile(c) PROVE IrMade'
  <2>1. trusts /\ UNCHANGED <<NeedsLink, merged, job, stage, failed>>
    BY <1>5 DEF Compile, IrTrusted, RebuildsAll, clang_changed, AskedIr, NeedsLink
  <2>2. ll' = [ll EXCEPT ![c] = AskedIr] /\ pending' = pending \ {c} /\ stage = "compile"
    BY <1>5 DEF Compile, AskedIr
  <2>3. ll \in [Classes -> Ir \cup {Missing}]
    BY DEF WellTyped, BuildTypeOK
  <2>. QED
    BY <2>1, <2>2, <2>3
<1>6. ASSUME NEW c \in Classes, CompileFails(c) PROVE IrMade'
  BY <1>6 DEF CompileFails
<1>7. CASE Link
  <2>1. UNCHANGED <<cpp, job, ll, marker, trust>> /\ stage = "compile" /\ pending = {} /\ ~failed
    BY <1>7 DEF Link
  <2>2. trusts
    BY <2>1 DEF IrTrusted, RebuildsAll, clang_changed, AskedIr
  <2>3. SUFFICES ASSUME IrTrusted, job.mode # "reuse_ptx"
                 PROVE  merged' = {AskedIr} /\ \A c \in Classes : ll[c] = AskedIr
    BY <1>7, <2>1, <2>2 DEF Link
  <2>4. \A c \in Classes : ll[c] = AskedIr
    BY <2>1, <2>3
  <2>5. CASE NeedsLink
    <3>1. 1 \in Classes
      BY DEF Classes, BuildAssumption
    <3>. QED
      BY <1>7, <2>4, <2>5, <3>1 DEF Link
  <2>6. CASE ~NeedsLink
    BY <1>7, <2>1, <2>3, <2>4, <2>6 DEF Link
  <2>. QED
    BY <2>5, <2>6
<1>8. CASE GenerateModule \/ Lower \/ Assemble
  <2>1. UNCHANGED <<cpp, job, ll, merged, marker, trust>>
    BY <1>8 DEF GenerateModule, Lower, Assemble
  <2>2. trusts
    BY <2>1 DEF IrTrusted, RebuildsAll, clang_changed, AskedIr
  <2>3. stage \in AfterLink /\ stage' \in AfterLink
    BY <1>8 DEF GenerateModule, Lower, Assemble
  <2>. QED
    BY <2>1, <2>2, <2>3
<1>9. CASE WriteMeta
  <2>1. UNCHANGED <<cpp, job, ll, merged, marker>> /\ ("ir" \in trust' <=> "ir" \in trust)
    BY <1>9 DEF WriteMeta
  <2>2. IrTrusted' = IrTrusted /\ AskedIr' = AskedIr
    BY <2>1 DEF IrTrusted, RebuildsAll, clang_changed, AskedIr
  <2>3. stage \in AfterLink /\ stage' \in AfterLink
    BY <1>9 DEF WriteMeta
  <2>. QED
    BY <2>1, <2>2, <2>3
<1>. QED
  BY <1>1, <1>2, <1>3, <1>4, <1>5, <1>6, <1>7, <1>8, <1>9 DEF BuildNext
-----------------------------------------------------------------------------
\* A file that a module is promised to be in is there.
LEMMA PromisedIsModule ==
  ASSUME ContentAssumption, NEW m \in Meta
  PROVE  Promised(m) \in Module /\ Promised(m) # Missing
<1>1. Promised(m) \in Module
  BY DEF Promised, Module, Meta, Ir
<1>. QED
  BY <1>1 DEF ContentAssumption

\* What the meta.json of a trusted build promises is what the build has made.
LEMMA WriteMetaKeepsItsWord ==
  ASSUME BuildAssumption, ContentAssumption, WellTyped, IrMade,
         ModuleKept, ModuleReused, ModuleMade, WriteMeta, ModuleTrusted
  PROVE  /\ HasMeta' /\ patched = Promised(meta') /\ ptx = Promised(meta')
         /\ meta'.file = "cubin" => cubin = Promised(meta')
<1>1. /\ stage = "meta" /\ job.mode \in Modes /\ job.emit \in BOOLEAN
      /\ meta' = [opt |-> MetaOpt, storage |-> storage, split |-> MetaSplit,
                  file |-> IF job.emit THEN "ptx" ELSE "cubin"]
  BY JobTyped DEF WriteMeta
<1>2. HasMeta'
  BY WriteMetaTyped DEF HasMeta, ContentAssumption
<1>3. CASE job.mode = "full"
  <2>1. IrTrusted
    BY <1>3 DEF ModuleTrusted
  <2>2. /\ storage = cpp /\ patched = AskedModule /\ ptx = AskedModule
        /\ ~job.emit => cubin = AskedModule
    BY <1>1, <1>3, <2>1 DEF ModuleMade, AfterLink
  <2>3. Promised(meta') = AskedModule
    BY <1>1, <1>3, <2>2 DEF Promised, AskedModule, AskedIr, MetaOpt, MetaSplit
  <2>. QED
    BY <1>1, <1>2, <2>2, <2>3
<1>4. CASE job.mode # "full"
  <2>1. "module" \in trust /\ (job.mode = "reuse_gpu_patched_ll" => meta.opt = job.opt)
    BY <1>1, <1>4 DEF ModuleTrusted, Modes
  <2>2. /\ HasMeta /\ patched = Promised(meta) /\ ptx = Promised(meta) /\ storage = meta.storage
        /\ ~job.emit => cubin = Promised(meta)
    BY <1>1, <1>4, <2>1 DEF ModuleReused
  <2>3. MetaOpt = meta.opt /\ MetaSplit = meta.split
    BY <1>1, <1>4, <2>1, <2>2 DEF MetaOpt, MetaSplit, HasMeta, Modes
  <2>4. Promised(meta') = Promised(meta)
    BY <1>1, <2>2, <2>3 DEF Promised
  <2>. QED
    BY <1>1, <1>2, <2>2, <2>4
<1>. QED
  BY <1>3, <1>4

LEMMA ModuleKeptStep ==
  ASSUME BuildAssumption, ContentAssumption, WellTyped, IrMade,
         ModuleKept, ModuleReused, ModuleMade, [BuildNext]_buildVars
  PROVE  ModuleKept'
<1>. USE DEF ModuleKept, HasMeta
<1>1. CASE UNCHANGED buildVars
  BY <1>1 DEF buildVars, disk
<1>2. CASE Verilate
  BY <1>2 DEF Verilate, disk
<1>3. ASSUME NEW j \in Jobs, StartBuild(j) PROVE ModuleKept'
  BY <1>3 DEF StartBuild, disk
<1>4. CASE Refuse \/ Load
  BY <1>4 DEF Refuse, Load, Ends, disk
<1>5. ASSUME NEW c \in Classes, Compile(c) \/ CompileFails(c) PROVE ModuleKept'
  BY <1>5 DEF Compile, CompileFails, disk, WellTyped
<1>6. CASE Link \/ GenerateModule \/ Lower
  BY <1>6 DEF Link, GenerateModule, Lower, local, WellTyped
<1>7. CASE Assemble
  <2>1. UNCHANGED <<patched, ptx, meta, job, trust>> /\ stage = "asm" /\ stage' = "meta"
    BY <1>7 DEF Assemble, local
  <2>2. cubin' = IF job.emit THEN cubin ELSE ptx
    BY <1>7 DEF Assemble
  <2>. QED
    BY <2>1, <2>2
<1>8. CASE WriteMeta
  <2>1. UNCHANGED <<patched, ptx, cubin>> /\ ("module" \in trust' => ModuleTrusted)
    BY <1>8 DEF WriteMeta
  <2>. QED
    BY <1>8, <2>1, WriteMetaKeepsItsWord
<1>9. CASE Finish
  BY <1>9 DEF Finish, Ends
<1>10. CASE Die
  <2>1. SUFFICES ASSUME "module" \in trust' PROVE ModuleKept'
    OBVIOUS
  <2>2. job.mode = "reuse_ptx" /\ meta' # Torn /\ "module" \in trust /\ meta' = meta
    BY <1>10, <2>1 DEF Die
  <2>. QED
    BY <1>10, <2>2 DEF Die, Ends
<1>. QED
  BY <1>1, <1>2, <1>3, <1>4, <1>5, <1>6, <1>7, <1>8, <1>9, <1>10 DEF BuildNext

LEMMA ModuleReusedStep ==
  ASSUME WellTyped, ModuleKept, ModuleReused, [BuildNext]_buildVars
  PROVE  ModuleReused'
<1>. USE DEF ModuleReused, HasMeta
<1>1. CASE UNCHANGED buildVars
  BY <1>1 DEF buildVars, disk, local
<1>2. CASE Verilate \/ Refuse \/ WriteMeta \/ Finish \/ Die
  BY <1>2 DEF Verilate, Refuse, WriteMeta, Finish, Die, Ends
<1>3. ASSUME NEW j \in Jobs, StartBuild(j) PROVE ModuleReused'
  BY <1>3 DEF StartBuild
<1>4. CASE Load
  BY <1>4 DEF Load, disk, ModuleKept, ResolveStorage
<1>5. ASSUME NEW c \in Classes, Compile(c) \/ CompileFails(c) PROVE ModuleReused'
  BY <1>5 DEF Compile, CompileFails, disk
<1>6. CASE Link
  <2>1. UNCHANGED <<patched, meta, job, trust>> /\ stage = "compile" /\ stage' = "gen"
        /\ storage' = ResolveStorage(job.mode = "reuse_gpu_patched_ll")
    BY <1>6 DEF Link
  <2>2. job.mode # "full" => job.mode = "reuse_gpu_patched_ll"
    BY <2>1, JobTyped DEF WellTyped, Modes
  <2>. QED
    BY <2>1, <2>2 DEF ResolveStorage
<1>7. CASE GenerateModule \/ Lower \/ Assemble
  BY <1>7 DEF GenerateModule, Lower, Assemble, local
<1>. QED
  BY <1>1, <1>2, <1>3, <1>4, <1>5, <1>6, <1>7 DEF BuildNext

LEMMA ModuleMadeStep ==
  ASSUME BuildAssumption, WellTyped, IrMade, ModuleMade, [BuildNext]_buildVars
  PROVE  ModuleMade'
<1>. USE DEF ModuleMade, AfterLink
<1>1. CASE UNCHANGED buildVars
  <2>1. UNCHANGED <<IrTrusted, AskedModule, stage, job, cpp, storage, patched, ptx, cubin, meta>>
    BY <1>1 DEF buildVars, disk, local, IrTrusted, RebuildsAll, clang_changed, AskedIr, AskedModule
  <2>. QED
    BY <2>1
<1>2. CASE Verilate \/ Refuse \/ Finish \/ Die
  BY <1>2 DEF Verilate, Refuse, Finish, Die, Ends
<1>3. ASSUME NEW j \in Jobs, StartBuild(j) PROVE ModuleMade'
  BY <1>3 DEF StartBuild
<1>4. CASE Load
  BY <1>4 DEF Load, disk
<1>5. ASSUME NEW c \in Classes, Compile(c) \/ CompileFails(c) PROVE ModuleMade'
  BY <1>5 DEF Compile, CompileFails
<1>6. CASE Link
  BY <1>6 DEF Link, ResolveStorage
<1>7. CASE GenerateModule \/ Lower \/ Assemble
  <2>1. UNCHANGED <<cpp, job, merged, marker, trust, storage, meta>>
    BY <1>7 DEF GenerateModule, Lower, Assemble, local
  <2>2. UNCHANGED <<IrTrusted, AskedIr, AskedModule>>
    BY <2>1 DEF IrTrusted, RebuildsAll, clang_changed, AskedIr, AskedModule
  <2>3. CASE GenerateModule
    BY <2>1, <2>2, <2>3 DEF GenerateModule, IrMade, AskedModule
  <2>4. CASE Lower
    BY <2>1, <2>2, <2>4 DEF Lower
  <2>5. CASE Assemble
    BY <2>1, <2>2, <2>5 DEF Assemble
  <2>. QED
    BY <1>7, <2>3, <2>4, <2>5
<1>8. CASE WriteMeta
  <2>1. UNCHANGED <<cpp, job, marker, patched, ptx, cubin, storage>> /\ ("ir" \in trust' <=> "ir" \in trust)
    BY <1>8 DEF WriteMeta, local
  <2>2. IrTrusted' = IrTrusted /\ AskedModule' = AskedModule
    BY <2>1 DEF IrTrusted, RebuildsAll, clang_changed, AskedIr, AskedModule
  <2>3. job.mode = "full" => MetaOpt = job.opt /\ MetaSplit = job.split
    BY DEF MetaOpt, MetaSplit
  <2>. QED
    BY <1>8, <2>1, <2>2, <2>3 DEF WriteMeta
<1>. QED
  BY <1>1, <1>2, <1>3, <1>4, <1>5, <1>6, <1>7, <1>8 DEF BuildNext

LEMMA BuildInvInit == ASSUME BuildAssumption, BuildInit PROVE BuildInv
<1>1. stage = "idle" /\ trust = {"ir"} /\ IrClean
  BY DEF BuildInit, IrClean
<1>. QED
  BY <1>1, WellTypedInit
  DEF BuildInv, IrKept, IrMade, ModuleKept, ModuleReused, ModuleMade, AfterLink

LEMMA BuildInvStep ==
  ASSUME BuildAssumption, ContentAssumption, BuildInv, [BuildNext]_buildVars
  PROVE  BuildInv'
BY WellTypedStep, IrKeptStep, IrMadeStep, ModuleKeptStep, ModuleReusedStep, ModuleMadeStep DEF BuildInv

\* The files of the directory and the locals of a build keep their types, for
\* any classes, versions and levels.
THEOREM BuildTypeCorrect == BuildSpec => []BuildTypeOK
<1>1. BuildInv => BuildTypeOK
  BY DEF BuildInv, WellTyped
<1>. QED
  BY BuildInvInit, BuildInvStep, BuildAssumption, ContentAssumption, <1>1, PTL DEF BuildSpec

\* meta.json describes the module the runner loads, for any number of classes,
\* versions and levels (build_vl_gpu.py:497-525).
THEOREM MetaIsTrue == BuildSpec => []MetaDescribesModule
<1>1. BuildInv => MetaDescribesModule
  <2>. SUFFICES ASSUME BuildInv, stage = "idle", "module" \in trust
                PROVE  meta \notin {Missing, Torn} /\ Described(Loaded, meta)
    BY DEF MetaDescribesModule
  <2>1. /\ HasMeta /\ ptx = Promised(meta) /\ (meta.file = "cubin" => cubin = Promised(meta))
    BY DEF BuildInv, ModuleKept
  <2>2. Loaded = Promised(meta)
    BY <2>1 DEF Loaded, HasMeta, Meta
  <2>. QED
    BY <2>1, <2>2, PromisedIsModule, ContentAssumption DEF Described, Promised, HasMeta
<1>. QED
  BY BuildInvInit, BuildInvStep, BuildAssumption, ContentAssumption, <1>1, PTL DEF BuildSpec

\* A full build that completes has built the current design at the level asked
\* for, if it redid everything or nothing has spoiled the cached files
\* (build_vl_gpu.py:342-409).
THEOREM FullBuilds == BuildSpec => FullBuildIsCurrent
<1>1. ASSUME BuildInv, Finish, job.mode = "full", RebuildsAll \/ "ir" \in trust
      PROVE  /\ meta.opt = job.opt /\ meta.storage = cpp /\ meta.split = job.split
             /\ Described(Loaded, meta)
  <2>1. IrTrusted /\ stage = "mark" /\ job.emit \in BOOLEAN
    BY <1>1, JobTyped DEF IrTrusted, Finish, BuildInv
  <2>2. /\ ptx = AskedModule /\ (~job.emit => cubin = AskedModule)
        /\ meta = [opt |-> job.opt, storage |-> cpp, split |-> job.split,
                   file |-> IF job.emit THEN "ptx" ELSE "cubin"]
    BY <1>1, <2>1 DEF BuildInv, ModuleMade, AfterLink
  <2>3. meta \in Meta
    BY <1>1, <2>1, <2>2, JobTyped DEF BuildInv, WellTyped, BuildTypeOK, Meta
  <2>4. Loaded = AskedModule /\ AskedModule = Promised(meta)
    BY <2>1, <2>2 DEF Loaded, AskedModule, AskedIr, Promised
  <2>. QED
    BY <2>2, <2>3, <2>4, PromisedIsModule, ContentAssumption DEF Described, Promised
<1>2. BuildInv /\ [BuildNext]_buildVars =>
        [Finish /\ job.mode = "full" /\ (RebuildsAll \/ "ir" \in trust) =>
           /\ meta.opt = job.opt /\ meta.storage = cpp /\ meta.split = job.split
           /\ Described(Loaded, meta)]_buildVars
  BY <1>1
<1>. QED
  BY BuildInvInit, BuildInvStep, BuildAssumption, ContentAssumption, <1>2, PTL DEF BuildSpec, FullBuildIsCurrent

-----------------------------------------------------------------------------
(* The bundle cache. *)

InBundle  == {"lookup", "clear", "build", "version", "inputs", "unlock"}
InSources == {"ensure", "generate", "locking"} \cup InBundle

\* One process works on the sources and the bundles, and it has read what they are.
Owned ==
  /\ gen = 0 <=> native = 0
  /\ \A p \in Procs :
      /\ pc[p] # "idle" => req[p] \in Requests
      /\ pc[p] \in InSources => gen_lock = p
      /\ pc[p] \in InBundle \cup {"locking"} => gen # 0
      /\ pc[p] \in InBundle => fingerprint[p] = InputsOf(req[p].lane)
      /\ pc[p] \in InBundle \cup {"run", "report"} => fingerprint[p] # 0

\* Only what was built from files that were left incomplete may be.
Whole(l) == bundle[l].binary.whole
            \/ cut \cap ({l} \cup Parts(bundle[l].binary.lane)) # {}

\* The markers, as far as they are there, are true of the binary beside them.
MarkersTrue ==
  \A l \in Launches : bundle[l].binary # NoBinary =>
    /\ bundle[l].version \in {None, bundle[l].binary.lane}
    /\ bundle[l].inputs \in {0, bundle[l].binary.gen}
    /\ bundle[l].version # None /\ bundle[l].inputs = InputsOf(bundle[l].binary.lane) /\ gen # 0 => Whole(l)

\* Who lost the bundle of its launch when it was cleared.
AllDisturbed(l) == \A q \in Procs : pc[q] = "run" /\ req[q].launch = l => q \in disturbed

\* What the process that works on a bundle has made of it.
BundleMade ==
  \A p \in Procs :
    /\ pc[p] = "build" =>
         /\ Here(p).binary = NoBinary
         /\ IsCurrent(p) \/ (Here(p) = Empty /\ AllDisturbed(req[p].launch))
    /\ pc[p] \in {"version", "inputs", "unlock"} =>
         /\ Here(p).binary \in Binary
         /\ Here(p).binary.lane = req[p].lane /\ Here(p).binary.gen = InputsOf(req[p].lane)
         /\ Whole(req[p].launch)
    /\ pc[p] = "version" => Here(p).version = None /\ Here(p).inputs = 0
    /\ pc[p] = "inputs" => Here(p).version = req[p].lane /\ Here(p).inputs = 0
    /\ pc[p] = "unlock" => Here(p).version = req[p].lane /\ Here(p).inputs = InputsOf(req[p].lane)

\* Until it is cleared, whatever is left of a bundle is what was asked for.
RunKept ==
  \A p \in Procs : pc[p] = "run" /\ p \notin disturbed =>
    /\ Here(p).version \in {None, req[p].lane}
    /\ Here(p).inputs \in {0, fingerprint[p]}
    /\ Here(p).binary # NoBinary =>
         Here(p).binary.lane = req[p].lane /\ Here(p).binary.gen = fingerprint[p]

Inv == TypeOK /\ Owned /\ MarkersTrue /\ BundleMade /\ RunKept /\ UndisturbedRunIsRight
-----------------------------------------------------------------------------
LEMMA OneInSources ==
  ASSUME Owned, NEW p \in Procs, pc[p] \in InSources, NEW q \in Procs, pc[q] \in InSources
  PROVE  p = q
BY DEF Owned

\* What a lane finds is what the others find, or it is there with it.
LEMMA Printed ==
  ASSUME TypeOK, Owned, NEW lane
  PROVE  /\ InputsOf(lane) \in Gens \cup {0} /\ (InputsOf(lane) = 0 <=> gen = 0)
         /\ Sources \in Parts(lane)
BY DEF TypeOK, Owned, InputsOf, Parts

LEMMA BinaryIsOne ==
  ASSUME ConstantsAssumption
  PROVE  NoBinary \notin Binary
BY DEF NoBinary, Binary, ConstantsAssumption

LEMMA UnionBound ==
  ASSUME NEW S, IsFiniteSet(S), NEW T, IsFiniteSet(T), NEW m \in Nat, NEW n \in Nat,
         Cardinality(S) <= m, Cardinality(T) <= n
  PROVE  IsFiniteSet(S \cup T) /\ Cardinality(S \cup T) <= m + n
<1>1. IsFiniteSet(S \cap T)
  BY FS_Subset
<1>2. /\ Cardinality(S) \in Nat /\ Cardinality(T) \in Nat
      /\ Cardinality(S \cap T) \in Nat
  BY <1>1, FS_CardinalityType
<1>3. /\ IsFiniteSet(S \cup T)
      /\ Cardinality(S \cup T) = Cardinality(S) + Cardinality(T) - Cardinality(S \cap T)
  BY FS_Union
<1>. QED
  BY <1>2, <1>3

\* There is always a number that nothing refers to.
LEMMA FreshGenIsFresh ==
  ASSUME ConstantsAssumption, TypeOK
  PROVE  /\ FreshGen \in Gens
         /\ \A l \in Launches :
              /\ bundle[l].inputs # FreshGen
              /\ bundle[l].binary # NoBinary => bundle[l].binary.gen # FreshGen
<1>. DEFINE built   == { l \in Launches : bundle[l].binary # NoBinary }
            marked  == { bundle[l].inputs : l \in Launches }
            made    == { bundle[l].binary.gen : l \in built }
            wanted  == { fingerprint[p] : p \in Procs }
            nl == Cardinality(Launches)
            np == Cardinality(Procs)
<1>1. IsFiniteSet(Launches) /\ IsFiniteSet(Procs) /\ nl \in Nat /\ np \in Nat
  BY FS_CardinalityType DEF ConstantsAssumption
<1>2. IsFiniteSet(marked) /\ Cardinality(marked) <= nl
  <2>. DEFINE f == [l \in Launches |-> bundle[l].inputs]
  <2>1. f \in Surjection(Launches, marked)
    BY DEF Surjection
  <2>. QED
    BY <1>1, <2>1, FS_Surjection
<1>3. IsFiniteSet(made) /\ Cardinality(made) <= nl
  <2>. DEFINE f == [l \in built |-> bundle[l].binary.gen]
  <2>1. f \in Surjection(built, made)
    BY DEF Surjection
  <2>2. IsFiniteSet(built) /\ Cardinality(built) <= nl
    BY <1>1, FS_Subset
  <2>3. IsFiniteSet(made) /\ Cardinality(made) <= Cardinality(built)
    BY <2>1, <2>2, FS_Surjection
  <2>4. Cardinality(made) \in Nat /\ Cardinality(built) \in Nat
    BY <2>2, <2>3, FS_CardinalityType
  <2>. QED
    BY <1>1, <2>2, <2>3, <2>4
<1>4. IsFiniteSet(wanted) /\ Cardinality(wanted) <= np
  <2>. DEFINE f == [p \in Procs |-> fingerprint[p]]
  <2>1. f \in Surjection(Procs, wanted)
    BY DEF Surjection
  <2>. QED
    BY <1>1, <2>1, FS_Surjection
<1>. HIDE DEF marked, made, wanted, nl, np
<1>5. IsFiniteSet(marked \cup made) /\ Cardinality(marked \cup made) <= nl + nl
  BY <1>1, <1>2, <1>3, UnionBound
<1>6. /\ IsFiniteSet(marked \cup made \cup wanted)
      /\ Cardinality(marked \cup made \cup wanted) <= (nl + nl) + np
  <2>1. nl + nl \in Nat
    BY <1>1
  <2>. QED
    BY <1>1, <1>4, <1>5, <2>1, UnionBound
<1>7. Cardinality(Gens) = 2 * nl + np + 1
  <2>1. Gens = 1..(2 * nl + np + 1)
    BY DEF Gens, nl, np
  <2>. QED
    BY <1>1, <2>1, FS_Interval
<1>8. PICK g \in Gens : g \notin marked \cup made \cup wanted
  <2>1. SUFFICES ASSUME Gens \in SUBSET (marked \cup made \cup wanted) PROVE FALSE
    OBVIOUS
  <2>2. Cardinality(Gens) <= Cardinality(marked \cup made \cup wanted)
    BY <1>6, <2>1, FS_Subset
  <2>. QED
    BY <1>1, <1>6, <1>7, <2>2, FS_CardinalityType
<1>9. /\ \A l \in Launches :
           /\ bundle[l].inputs # g
           /\ bundle[l].binary # NoBinary => bundle[l].binary.gen # g
      /\ \A p \in Procs : fingerprint[p] # g
  BY <1>8 DEF marked, made, wanted
<1>. QED
  BY <1>9 DEF FreshGen

-----------------------------------------------------------------------------
\* What a removal cut short leaves is some of what was there.
LEMMA RemainsAreOld ==
  ASSUME ConstantsAssumption, NEW b \in Bundle, NEW r \in Remains(b)
  PROVE  /\ r \in Bundle /\ r.version \in {None, b.version} /\ r.inputs \in {0, b.inputs}
         /\ r.binary # NoBinary =>
              /\ b.binary # NoBinary /\ r.binary \in Binary
              /\ r.binary.lane = b.binary.lane /\ r.binary.gen = b.binary.gen
<1>1. r.binary # NoBinary =>
        b.binary \in Binary /\ r.binary \in {b.binary, [b.binary EXCEPT !.whole = FALSE]}
  BY DEF Remains, Bundle
<1>2. b.binary \in Binary => [b.binary EXCEPT !.whole = FALSE] \in Binary
  BY DEF Binary
<1>3. /\ r \in Bundle /\ r.version \in {None, b.version} /\ r.inputs \in {0, b.inputs}
  BY <1>1, <1>2 DEF Remains, Bundle
<1>. QED
  BY <1>1, <1>2, <1>3, BinaryIsOne DEF Binary

\* So does a build that is cut short, or the beginning of the bundle it makes.
LEMMA UnfinishedAreOld ==
  ASSUME ConstantsAssumption, TypeOK, Owned, NEW p \in Procs, pc[p] = "build",
         Here(p).binary = NoBinary, NEW r \in Unfinished(p)
  PROVE  /\ r \in Bundle /\ r.version \in {None, Here(p).version}
         /\ r.inputs \in {0, Here(p).inputs}
         /\ r.binary # NoBinary =>
              /\ r.binary \in Binary /\ r.version = None
              /\ r.binary.lane = req[p].lane /\ r.binary.gen = InputsOf(req[p].lane)
<1>1. req[p] \in Requests /\ gen # 0
  BY DEF Owned, InBundle
<1>2. Here(p) \in Bundle /\ InputsOf(req[p].lane) \in Gens
  BY <1>1, Printed DEF TypeOK, Here, Requests
<1>3. CASE r \in Remains(Here(p))
  BY <1>2, <1>3, RemainsAreOld
<1>4. CASE r \notin Remains(Here(p))
  <2>1. PICK b \in {NoBinary, [lane |-> req[p].lane, gen |-> InputsOf(req[p].lane), whole |-> FALSE]} :
             r = [Empty EXCEPT !.binary = b]
    BY <1>4 DEF Unfinished
  <2>. DEFINE begun == [lane |-> req[p].lane, gen |-> InputsOf(req[p].lane), whole |-> FALSE]
  <2>2. begun \in Binary /\ begun.lane = req[p].lane /\ begun.gen = InputsOf(req[p].lane)
    BY <1>1, <1>2 DEF Binary, Requests
  <2>3. r = [binary |-> b, version |-> None, inputs |-> 0]
    BY <2>1 DEF Empty
  <2>4. CASE b = NoBinary
    BY <2>3, <2>4 DEF Bundle
  <2>5. CASE b = begun
    <3>. HIDE DEF begun
    <3>. QED
      BY <2>2, <2>3, <2>5 DEF Bundle
  <2>. QED
    BY <2>1, <2>4, <2>5
<1>. QED
  BY <1>3, <1>4

LEMMA BuiltIsBundle ==
  ASSUME ConstantsAssumption, TypeOK, Owned, NEW p \in Procs, pc[p] = "build"
  PROVE  [Empty EXCEPT !.binary =
             [lane |-> req[p].lane, gen |-> InputsOf(req[p].lane),
              whole |-> Parts(req[p].lane) \cap cut = {}]] \in Bundle
<1>1. req[p] \in Requests /\ InputsOf(req[p].lane) \in Gens
  BY Printed DEF Owned, InBundle
<1>. QED
  BY <1>1 DEF Empty, Bundle, Binary, Requests

\* Nothing but the type of what a process ends with is of interest to most steps.
LEMMA OverTyped ==
  ASSUME TypeOK, Owned, NEW p \in Procs, Over(p)
  PROVE  /\ gen_lock' \in Procs \cup {None} /\ bundle_lock' \in [Launches -> Procs \cup {None}]
         /\ pc' = [pc EXCEPT ![p] = "idle"] /\ req' \in [Procs -> Requests \cup {NoReq}]
         /\ fingerprint' \in [Procs -> Gens \cup {0}] /\ ran' \in [Procs -> Binary \cup {NoBinary}]
         /\ runs' \in [Procs -> 0..MaxRuns] /\ disturbed' \subseteq Procs
BY DEF Over, Goto, TypeOK

\* What is left of the generated directory when it is not brought to an end.
LEMMA HalfTyped ==
  ASSUME ConstantsAssumption, TypeOK, Owned, NEW p \in Procs, HalfGenerated(p) \/ HalfRemoved
  PROVE  /\ gen' \in Gens \cup {0} /\ native' \in Gens \cup {0}
         /\ (gen' = 0 <=> native' = 0)
         /\ extras' \subseteq {"marker", "hsaco"}
         /\ cut' \subseteq Launches \cup {Sources, Hsaco}
         /\ cut \subseteq cut' /\ Sources \in cut'
<1>1. FreshGen \in Gens /\ FreshGen # 0
  BY FreshGenIsFresh DEF Gens
<1>2. CASE HalfGenerated(p)
  BY <1>1, <1>2 DEF HalfGenerated, Needed, TypeOK, Owned
<1>3. CASE HalfRemoved
  BY <1>1, <1>3 DEF HalfRemoved, TypeOK, Owned
<1>. QED
  BY <1>2, <1>3

LEMMA TypeOKInit == ASSUME ConstantsAssumption, Init PROVE TypeOK
BY DEF Init, TypeOK, Empty, Bundle, ConstantsAssumption

LEMMA TypeOKStep ==
  ASSUME ConstantsAssumption, TypeOK, Owned, BundleMade, [Next]_vars
  PROVE  TypeOK'
<1>. USE DEF files, sources, locks, locals, history, Goto
<1>1. CASE UNCHANGED vars
  BY <1>1 DEF vars, TypeOK
<1>2. ASSUME NEW p \in Procs, NEW r \in Requests, Start(p, r) PROVE TypeOK'
  <2>1. runs[p] + 1 \in 0..MaxRuns
    BY <1>2 DEF Start, TypeOK, ConstantsAssumption
  <2>. QED
    BY <1>2, <2>1 DEF Start, TypeOK
<1>3. ASSUME NEW p \in Procs, LockGenerated(p) \/ Ensure(p) \/ Lookup(p) PROVE TypeOK'
  BY <1>3 DEF LockGenerated, Ensure, Lookup, TypeOK
<1>4. ASSUME NEW p \in Procs, Generate(p) \/ FailureMissed(p) PROVE TypeOK'
  <2>1. CASE Generate(p)
    BY <2>1, FreshGenIsFresh DEF Generate, TypeOK, Needed
  <2>2. CASE FailureMissed(p)
    BY <2>2, HalfTyped DEF FailureMissed, TypeOK
  <2>. QED
    BY <1>4, <2>1, <2>2
<1>5. ASSUME NEW p \in Procs, GenerateFails(p) \/ RunFails(p) \/ Report(p) PROVE TypeOK'
  <2>1. CASE GenerateFails(p)
    BY <2>1, OverTyped, HalfTyped DEF GenerateFails, TypeOK
  <2>2. CASE RunFails(p) \/ Report(p)
    BY <2>2, OverTyped DEF RunFails, Report, TypeOK
  <2>. QED
    BY <1>5, <2>1, <2>2
<1>6. ASSUME NEW p \in Procs, LockBundle(p) PROVE TypeOK'
  BY <1>6, Printed DEF LockBundle, TypeOK
<1>7. ASSUME NEW p \in Procs, Clear(p) PROVE TypeOK'
  BY <1>7 DEF Clear, TypeOK, Empty, Bundle
<1>8. ASSUME NEW p \in Procs, Build(p) PROVE TypeOK'
  BY <1>8, BuiltIsBundle DEF Build, TypeOK
<1>9. ASSUME NEW p \in Procs, BuildFails(p) PROVE TypeOK'
  <2>1. Empty \in Bundle
    BY DEF Empty, Bundle
  <2>. QED
    BY <1>9, <2>1, OverTyped DEF BuildFails, TypeOK
<1>10. ASSUME NEW p \in Procs, WriteVersion(p) \/ WriteInputs(p) PROVE TypeOK'
  <2>1. req[p] \in Requests /\ Here(p) \in Bundle /\ fingerprint[p] \in Gens \cup {0}
    BY <1>10 DEF Owned, WriteVersion, WriteInputs, TypeOK, Here, Requests
  <2>2. /\ [Here(p) EXCEPT !.version = req[p].lane] \in Bundle
        /\ [Here(p) EXCEPT !.inputs = fingerprint[p]] \in Bundle
    BY <2>1 DEF Bundle, Requests
  <2>3. \/ bundle' = [bundle EXCEPT ![req[p].launch] = [Here(p) EXCEPT !.version = req[p].lane]]
        \/ bundle' = [bundle EXCEPT ![req[p].launch] = [Here(p) EXCEPT !.inputs = fingerprint[p]]]
    BY <1>10 DEF WriteVersion, WriteInputs, Here
  <2>4. bundle' \in [Launches -> Bundle]
    BY <2>1, <2>2, <2>3 DEF TypeOK
  <2>. QED
    BY <1>10, <2>4 DEF WriteVersion, WriteInputs, TypeOK
<1>11. ASSUME NEW p \in Procs, Unlock(p) PROVE TypeOK'
  BY <1>11 DEF Unlock, TypeOK
<1>12. ASSUME NEW p \in Procs, Run(p) PROVE TypeOK'
  <2>1. Here(p).binary \in Binary
    BY <1>12 DEF Owned, Run, TypeOK, Here, Requests, Bundle
  <2>. QED
    BY <1>12, <2>1 DEF Run, TypeOK
<1>13. ASSUME NEW p \in Procs, Kill(p) PROVE TypeOK'
  <2>1. req[p] \in Requests /\ Here(p) \in Bundle
    BY <1>13 DEF Owned, Kill, TypeOK, Here, Requests
  <2>2. /\ gen' \in Gens \cup {0} /\ native' \in Gens \cup {0}
        /\ extras' \subseteq {"marker", "hsaco"} /\ bundle' \in [Launches -> Bundle]
        /\ cut' \subseteq Launches \cup {Sources, Hsaco}
    <3>1. CASE pc[p] = "clear"
      BY <1>13, <2>1, <3>1, RemainsAreOld DEF Kill, TypeOK, Requests
    <3>2. CASE pc[p] = "build"
      BY <1>13, <3>2, UnfinishedAreOld DEF Kill, TypeOK, BundleMade
    <3>3. CASE pc[p] \in {"ensure", "generate"}
      BY <1>13, <3>3, HalfTyped DEF Kill, TypeOK
    <3>4. CASE pc[p] \notin {"clear", "build", "ensure", "generate"}
      BY <1>13, <3>4 DEF Kill, TypeOK
    <3>. QED
      BY <3>1, <3>2, <3>3, <3>4
  <2>. QED
    BY <1>13, <2>2, OverTyped DEF Kill, TypeOK
<1>. QED
  BY <1>1, <1>2, <1>3, <1>4, <1>5, <1>6, <1>7, <1>8, <1>9, <1>10, <1>11, <1>12, <1>13 DEF Next, Step
-----------------------------------------------------------------------------
LEMMA OwnedStep ==
  ASSUME ConstantsAssumption, TypeOK, Owned, [Next]_vars
  PROVE  Owned'
<1>. USE DEF Owned, InSources, InBundle, files, sources, locks, locals, history, Goto
<1>1. CASE UNCHANGED vars
  BY <1>1 DEF vars, Requests, InputsOf
<1>. SUFFICES ASSUME NEW p \in Procs, (\E r \in Requests : Start(p, r)) \/ Step(p) \/ Kill(p)
              PROVE  Owned'
  BY <1>1 DEF Next
<1>2. CASE \E r \in Requests : Start(p, r)
  BY <1>2 DEF Start, TypeOK, Requests, InputsOf
<1>3. CASE LockGenerated(p)
  BY <1>3 DEF LockGenerated, TypeOK, Requests, ConstantsAssumption
<1>4. CASE Ensure(p)
  BY <1>4 DEF Ensure, TypeOK, Requests
<1>5. CASE Generate(p)
  <2>1. FreshGen # 0
    BY FreshGenIsFresh DEF Gens
  <2>. QED
    BY <1>5, <2>1 DEF Generate, TypeOK, Requests
<1>6. CASE FailureMissed(p)
  BY <1>6, HalfTyped DEF FailureMissed, TypeOK, Requests
<1>7. CASE GenerateFails(p) \/ BuildFails(p) \/ RunFails(p) \/ Report(p)
  <2>1. gen' = 0 <=> native' = 0
    BY <1>7, HalfTyped DEF GenerateFails, BuildFails, RunFails, Report
  <2>2. UNCHANGED sources \/ pc[p] = "generate"
    BY <1>7 DEF GenerateFails, BuildFails, RunFails, Report
  <2>. QED
    BY <1>7, <2>1, <2>2 DEF GenerateFails, BuildFails, RunFails, Report, Over, TypeOK, Requests, InputsOf
<1>8. CASE LockBundle(p)
  BY <1>8, Printed DEF LockBundle, TypeOK, Requests, InputsOf
<1>9. CASE Lookup(p) \/ Clear(p) \/ Build(p) \/ WriteVersion(p) \/ WriteInputs(p)
  BY <1>9 DEF Lookup, Clear, Build, WriteVersion, WriteInputs, TypeOK, Requests, InputsOf
<1>10. CASE Unlock(p)
  BY <1>10 DEF Unlock, TypeOK, Requests
<1>11. CASE Run(p)
  BY <1>11 DEF Run, TypeOK, Requests, InputsOf
<1>12. CASE Kill(p)
  <2>1. gen' = 0 <=> native' = 0
    BY <1>12, HalfTyped DEF Kill
  <2>2. UNCHANGED sources \/ pc[p] \in {"ensure", "generate"}
    BY <1>12 DEF Kill
  <2>. QED
    BY <1>12, <2>1, <2>2 DEF Kill, Over, TypeOK, Requests, InputsOf
<1>. QED
  BY <1>2, <1>3, <1>4, <1>5, <1>6, <1>7, <1>8, <1>9, <1>10, <1>11, <1>12 DEF Step

\* The bundle of a process that works on one.
LEMMA HereTyped ==
  ASSUME TypeOK, Owned, NEW p \in Procs, pc[p] # "idle"
  PROVE  /\ req[p] \in Requests /\ req[p].launch \in Launches /\ req[p].lane \in Lanes
         /\ Here(p) \in Bundle /\ Here(p) = bundle[req[p].launch]
BY DEF Owned, TypeOK, Here, Requests

LEMMA MarkersStep ==
  ASSUME ConstantsAssumption, TypeOK, Owned, MarkersTrue, BundleMade, [Next]_vars
  PROVE  MarkersTrue'
<1>. USE DEF MarkersTrue, Whole, files, sources, locks, locals, history, Goto
<1>1. CASE UNCHANGED vars
  BY <1>1 DEF vars, InputsOf
<1>. SUFFICES ASSUME NEW p \in Procs, (\E r \in Requests : Start(p, r)) \/ Step(p) \/ Kill(p)
              PROVE  MarkersTrue'
  BY <1>1 DEF Next
<1>2. CASE UNCHANGED <<files, cut>>
  BY <1>2 DEF InputsOf
<1>3. CASE Ensure(p)
  <2>1. bundle' = bundle /\ cut' = cut /\ (gen' = 0 \/ UNCHANGED sources)
    BY <1>3 DEF Ensure
  <2>. QED
    BY <2>1 DEF InputsOf
<1>4. CASE Generate(p)
  <2>1. \A l \in Launches : bundle[l].inputs # FreshGen
    BY FreshGenIsFresh
  <2>2. bundle' = bundle /\ \A lane : InputsOf(lane)' = FreshGen
    BY <1>4 DEF Generate, InputsOf
  <2>. QED
    BY <2>1, <2>2
<1>5. CASE Clear(p)
  <2>1. /\ bundle' = [bundle EXCEPT ![req[p].launch] = Empty] /\ UNCHANGED sources
        /\ \A lane : \A l \in Launches \ {req[p].launch} :
             (cut' \cap ({l} \cup Parts(lane)) # {} <=> cut \cap ({l} \cup Parts(lane)) # {})
    BY <1>5, HereTyped DEF Clear, Parts, Sources, Hsaco, ConstantsAssumption
  <2>2. bundle'[req[p].launch] = Empty
    BY <1>5, <2>1, HereTyped DEF Clear, TypeOK
  <2>. QED
    BY <2>1, <2>2 DEF Empty, TypeOK, InputsOf
<1>6. CASE Build(p)
  <2>1. bundle'[req[p].launch].version = None /\ bundle'[req[p].launch].inputs = 0
    BY <1>6, HereTyped DEF Build, Empty, TypeOK
  <2>2. \A l \in Launches \ {req[p].launch} : bundle'[l] = bundle[l]
    BY <1>6 DEF Build, TypeOK
  <2>. QED
    BY <1>6, <2>1, <2>2, HereTyped DEF Build, InputsOf
<1>7. CASE BuildFails(p)
  <2>1. \A l \in Launches : bundle'[l] \in {bundle[l], Empty}
    BY <1>7 DEF BuildFails, TypeOK
  <2>. QED
    BY <1>7, <2>1 DEF BuildFails, Empty, InputsOf
<1>8. CASE WriteVersion(p)
  <2>1. /\ Here(p).binary.lane = req[p].lane /\ Whole(req[p].launch)
        /\ Here(p) = bundle[req[p].launch] /\ Here(p) \in Bundle
    BY <1>8, HereTyped DEF WriteVersion, BundleMade
  <2>2. bundle' = [bundle EXCEPT ![req[p].launch] = [Here(p) EXCEPT !.version = req[p].lane]]
    BY <1>8, <2>1 DEF WriteVersion
  <2>3. /\ bundle'[req[p].launch].binary = Here(p).binary
        /\ bundle'[req[p].launch].version = req[p].lane
        /\ bundle'[req[p].launch].inputs = Here(p).inputs
    BY <1>8, <2>1, <2>2, HereTyped DEF TypeOK, Bundle, WriteVersion
  <2>4. \A l \in Launches \ {req[p].launch} : bundle'[l] = bundle[l]
    BY <2>2 DEF TypeOK
  <2>5. /\ gen' = gen /\ cut' = cut /\ \A lane : InputsOf(lane)' = InputsOf(lane)
    BY <1>8 DEF WriteVersion, InputsOf
  <2>6. ASSUME NEW l \in Launches, bundle'[l].binary # NoBinary
        PROVE  /\ bundle'[l].version \in {None, bundle'[l].binary.lane}
               /\ bundle'[l].inputs \in {0, bundle'[l].binary.gen}
               /\ bundle'[l].version # None /\ bundle'[l].inputs = InputsOf(bundle'[l].binary.lane)
                    /\ gen # 0 => Whole(l)'
    <3>1. CASE l = req[p].launch
      BY <2>1, <2>3, <2>5, <2>6, <3>1
    <3>2. CASE l # req[p].launch
      BY <2>4, <2>5, <2>6, <3>2
    <3>. QED
      BY <3>1, <3>2
  <2>. QED
    BY <2>5, <2>6
<1>9. CASE WriteInputs(p)
  <2>1. /\ Here(p).binary.gen = fingerprint[p] /\ Whole(req[p].launch)
        /\ Here(p) = bundle[req[p].launch] /\ Here(p) \in Bundle
    BY <1>9, HereTyped DEF WriteInputs, BundleMade, Owned, InBundle
  <2>2. bundle' = [bundle EXCEPT ![req[p].launch] = [Here(p) EXCEPT !.inputs = fingerprint[p]]]
    BY <1>9, <2>1 DEF WriteInputs
  <2>3. /\ bundle'[req[p].launch].binary = Here(p).binary
        /\ bundle'[req[p].launch].version = Here(p).version
        /\ bundle'[req[p].launch].inputs = fingerprint[p]
    BY <1>9, <2>1, <2>2, HereTyped DEF TypeOK, Bundle, WriteInputs
  <2>4. \A l \in Launches \ {req[p].launch} : bundle'[l] = bundle[l]
    BY <2>2 DEF TypeOK
  <2>5. /\ gen' = gen /\ cut' = cut /\ \A lane : InputsOf(lane)' = InputsOf(lane)
    BY <1>9 DEF WriteInputs, InputsOf
  <2>6. ASSUME NEW l \in Launches, bundle'[l].binary # NoBinary
        PROVE  /\ bundle'[l].version \in {None, bundle'[l].binary.lane}
               /\ bundle'[l].inputs \in {0, bundle'[l].binary.gen}
               /\ bundle'[l].version # None /\ bundle'[l].inputs = InputsOf(bundle'[l].binary.lane)
                    /\ gen # 0 => Whole(l)'
    <3>1. CASE l = req[p].launch
      BY <2>1, <2>3, <2>5, <2>6, <3>1
    <3>2. CASE l # req[p].launch
      BY <2>4, <2>5, <2>6, <3>2
    <3>. QED
      BY <3>1, <3>2
  <2>. QED
    BY <2>5, <2>6
<1>10. ASSUME HalfGenerated(p) \/ HalfRemoved, bundle' = bundle
       PROVE  MarkersTrue'
  <2>1. Sources \in cut' /\ \A lane : Sources \in Parts(lane)
    BY <1>10, HalfTyped DEF Parts
  <2>. QED
    BY <1>10, <2>1
<1>11. CASE Kill(p)
  <2>1. CASE pc[p] = "clear"
    <3>1. PICK r \in Remains(Here(p)) : bundle' = [bundle EXCEPT ![req[p].launch] = r]
      BY <1>11, <2>1 DEF Kill
    <3>2. cut' = cut \cup {req[p].launch} /\ gen' = gen /\ \A lane : InputsOf(lane)' = InputsOf(lane)
      BY <1>11, <2>1 DEF Kill, InputsOf
    <3>3. /\ r.version \in {None, Here(p).version} /\ r.inputs \in {0, Here(p).inputs}
          /\ r.binary # NoBinary =>
               /\ Here(p).binary # NoBinary
               /\ r.binary.lane = Here(p).binary.lane /\ r.binary.gen = Here(p).binary.gen
      BY <2>1, HereTyped, RemainsAreOld
    <3>4. bundle'[req[p].launch] = r /\ \A l \in Launches \ {req[p].launch} : bundle'[l] = bundle[l]
      BY <2>1, <3>1, HereTyped DEF TypeOK
    <3>. QED
      BY <2>1, <3>2, <3>3, <3>4, HereTyped
  <2>2. CASE pc[p] = "build" /\ req[p].lane \notin UnboundLanes
    <3>1. PICK r \in Unfinished(p) : bundle' = [bundle EXCEPT ![req[p].launch] = r]
      BY <1>11, <2>2 DEF Kill
    <3>2. gen' = gen /\ cut' = cut /\ \A lane : InputsOf(lane)' = InputsOf(lane)
      BY <1>11, <2>2 DEF Kill, InputsOf
    <3>3. /\ r.version \in {None, Here(p).version} /\ r.inputs \in {0, Here(p).inputs}
          /\ r.binary # NoBinary => r.version = None /\ r.inputs \in {0, r.binary.gen}
      <4>1. Here(p).binary = NoBinary /\ Here(p).inputs \in {0, InputsOf(req[p].lane)}
        BY <2>2 DEF BundleMade, IsCurrent, Owned, InBundle, Empty
      <4>. QED
        BY <2>2, <4>1, UnfinishedAreOld
    <3>4. bundle'[req[p].launch] = r /\ \A l \in Launches \ {req[p].launch} : bundle'[l] = bundle[l]
      BY <2>2, <3>1, HereTyped DEF TypeOK
    <3>. QED
      BY <2>2, <3>2, <3>3, <3>4, HereTyped
  <2>3. CASE (pc[p] = "ensure" /\ req[p].rebuild) \/ pc[p] = "generate"
    BY <1>10, <1>11, <2>3 DEF Kill
  <2>4. CASE ~(pc[p] = "build" /\ req[p].lane \notin UnboundLanes) /\ pc[p] \notin {"clear", "generate"}
             /\ ~(pc[p] = "ensure" /\ req[p].rebuild)
    BY <1>2, <1>11, <2>4 DEF Kill
  <2>. QED
    BY <2>1, <2>2, <2>3, <2>4
<1>12. CASE GenerateFails(p) \/ FailureMissed(p)
  BY <1>10, <1>12 DEF GenerateFails, FailureMissed
<1>13. ASSUME \/ \E r \in Requests : Start(p, r)
              \/ LockGenerated(p) \/ LockBundle(p) \/ Lookup(p)
              \/ Unlock(p) \/ Run(p) \/ RunFails(p) \/ Report(p)
       PROVE  UNCHANGED <<files, cut>>
  BY <1>13 DEF Start, LockGenerated, LockBundle, Lookup, Unlock, Run, RunFails, Report
<1>. QED
  BY <1>2, <1>3, <1>4, <1>5, <1>6, <1>7, <1>8, <1>9, <1>11, <1>12, <1>13 DEF Step
-----------------------------------------------------------------------------
\* A step of a process that works on no bundle leaves those of the others alone.
LEMMA OthersKept ==
  ASSUME TypeOK, Owned, NEW p \in Procs, NEW q \in Procs, q # p,
         (\E r \in Requests : Start(p, r)) \/ Step(p) \/ Kill(p)
  PROVE  /\ pc'[q] = pc[q] /\ req'[q] = req[q] /\ fingerprint'[q] = fingerprint[q] /\ ran'[q] = ran[q]
         /\ (q \in disturbed => q \in disturbed')
         /\ ~Clear(p) => (q \in disturbed' => q \in disturbed)
         /\ pc[q] \in InSources => UNCHANGED <<sources, bundle, cut>>
<1>. USE DEF files, sources, locks, locals, history, Goto, TypeOK
<1>1. pc[q] \in InSources => pc[p] \notin InSources
  BY OneInSources
<1>2. CASE \E r \in Requests : Start(p, r)
  BY <1>2 DEF Start
<1>3. CASE LockGenerated(p) \/ Ensure(p) \/ Generate(p) \/ GenerateFails(p) \/ FailureMissed(p)
  BY <1>1, <1>3 DEF LockGenerated, Ensure, Generate, GenerateFails, FailureMissed, Over, InSources
<1>4. CASE LockBundle(p) \/ Lookup(p) \/ Clear(p) \/ Build(p) \/ BuildFails(p)
  BY <1>1, <1>4 DEF LockBundle, Lookup, Clear, Build, BuildFails, Over, InSources, InBundle
<1>5. CASE WriteVersion(p) \/ WriteInputs(p) \/ Unlock(p)
  BY <1>1, <1>5 DEF WriteVersion, WriteInputs, Unlock, InSources, InBundle
<1>6. CASE Run(p) \/ RunFails(p) \/ Report(p)
  BY <1>6 DEF Run, RunFails, Report, Over
<1>7. CASE Kill(p)
  BY <1>1, <1>7 DEF Kill, Over, InSources, InBundle
<1>. QED
  BY <1>2, <1>3, <1>4, <1>5, <1>6, <1>7 DEF Step

LEMMA UndisturbedStep ==
  ASSUME ConstantsAssumption, TypeOK, Owned, RunKept, UndisturbedRunIsRight, [Next]_vars
  PROVE  UndisturbedRunIsRight'
<1>1. CASE UNCHANGED vars
  BY <1>1 DEF vars, UndisturbedRunIsRight
<1>. SUFFICES ASSUME NEW p \in Procs, (\E r \in Requests : Start(p, r)) \/ Step(p) \/ Kill(p),
                     NEW q \in Procs, pc'[q] = "report", q \notin disturbed'
              PROVE  ran'[q].lane = req'[q].lane /\ ran'[q].gen = fingerprint'[q]
  BY <1>1 DEF Next, UndisturbedRunIsRight
<1>2. CASE q # p
  BY <1>2, OthersKept DEF UndisturbedRunIsRight
<1>3. CASE q = p
  <2>1. Run(p)
    BY <1>3 DEF Step, Start, LockGenerated, Ensure, Generate, GenerateFails, FailureMissed, LockBundle, Lookup,
        Clear, Build, BuildFails, WriteVersion, WriteInputs, Unlock, RunFails, Report, Kill, Over,
        Goto, TypeOK
  <2>2. ran'[p] = Here(p).binary /\ UNCHANGED <<req, fingerprint, disturbed>>
        /\ pc[p] = "run" /\ Here(p).binary # NoBinary
    BY <2>1 DEF Run, TypeOK, history
  <2>. QED
    BY <1>3, <2>2 DEF RunKept
<1>. QED
  BY <1>2, <1>3
-----------------------------------------------------------------------------
LEMMA LookedUp ==
  ASSUME ConstantsAssumption, TypeOK, Owned, MarkersTrue,
         NEW p \in Procs, pc[p] = "lookup", IsCurrent(p), Here(p).binary # NoBinary
  PROVE  /\ Here(p).binary \in Binary
         /\ Here(p).binary.lane = req[p].lane /\ Here(p).binary.gen = InputsOf(req[p].lane)
         /\ Whole(req[p].launch)
         /\ Here(p).version = req[p].lane /\ Here(p).inputs = InputsOf(req[p].lane)
<1>1. fingerprint[p] = InputsOf(req[p].lane) /\ gen # 0 /\ fingerprint[p] # 0
  BY DEF Owned, InBundle
<1>2. req[p].lane # None
  BY HereTyped DEF ConstantsAssumption
<1>3. Here(p).version = req[p].lane /\ Here(p).inputs = InputsOf(req[p].lane)
  BY <1>1 DEF IsCurrent
<1>4. Here(p).binary \in Binary
  BY HereTyped DEF Bundle
<1>. QED
  BY <1>1, <1>2, <1>3, <1>4, HereTyped DEF MarkersTrue

LEMMA BundleMadeStep ==
  ASSUME ConstantsAssumption, TypeOK, Owned, MarkersTrue, BundleMade, [Next]_vars
  PROVE  BundleMade'
<1>. USE DEF files, sources, locks, locals, history, Goto
<1>1. CASE UNCHANGED vars
  BY <1>1 DEF vars, BundleMade, Here, IsCurrent, AllDisturbed, Whole, InputsOf
<1>. SUFFICES ASSUME NEW p \in Procs, (\E r \in Requests : Start(p, r)) \/ Step(p) \/ Kill(p),
                     NEW q \in Procs, pc'[q] \in {"build", "version", "inputs", "unlock"}
              PROVE  (/\ pc[q] = "build" =>
                           /\ Here(q).binary = NoBinary
                           /\ IsCurrent(q) \/ (Here(q) = Empty /\ AllDisturbed(req[q].launch))
                      /\ pc[q] \in {"version", "inputs", "unlock"} =>
                           /\ Here(q).binary \in Binary
                           /\ Here(q).binary.lane = req[q].lane /\ Here(q).binary.gen = InputsOf(req[q].lane)
                           /\ Whole(req[q].launch)
                      /\ pc[q] = "version" => Here(q).version = None /\ Here(q).inputs = 0
                      /\ pc[q] = "inputs" => Here(q).version = req[q].lane /\ Here(q).inputs = 0
                      /\ pc[q] = "unlock" => Here(q).version = req[q].lane /\ Here(q).inputs = InputsOf(req[q].lane))'
  BY <1>1 DEF Next, BundleMade
<1>2. CASE q # p
  <2>1. /\ pc'[q] = pc[q] /\ req'[q] = req[q] /\ fingerprint'[q] = fingerprint[q]
        /\ UNCHANGED <<sources, bundle, cut>> /\ pc[p] \notin InSources
    BY <1>2, OthersKept, OneInSources DEF InSources, InBundle
  <2>2. /\ Here(q)' = Here(q) /\ IsCurrent(q)' = IsCurrent(q)
        /\ Whole(req[q].launch)' = Whole(req[q].launch) /\ InputsOf(req[q].lane)' = InputsOf(req[q].lane)
    BY <2>1 DEF Here, IsCurrent, Whole, InputsOf
  <2>3. AllDisturbed(req[q].launch) => AllDisturbed(req[q].launch)'
    <3>1. pc'[p] # "run"
          \/ (pc[p] = "run" /\ req'[p] = req[p] /\ (p \in disturbed => p \in disturbed'))
      BY <2>1 DEF Step, Start, LockGenerated, Ensure, Generate, GenerateFails, FailureMissed, LockBundle, Lookup,
          Clear, Build, BuildFails, WriteVersion, WriteInputs, Unlock, Run, RunFails, Report, Kill,
          Over, InSources, InBundle, TypeOK
    <3>. QED
      BY <2>1, <3>1, OthersKept DEF AllDisturbed
  <2>. QED
    BY <2>1, <2>2, <2>3 DEF BundleMade
<1>3. CASE q = p
  <2>1. Lookup(p) \/ Clear(p) \/ Build(p) \/ WriteVersion(p) \/ WriteInputs(p)
    BY <1>3 DEF Step, Start, LockGenerated, Ensure, Generate, GenerateFails, FailureMissed, LockBundle,
        BuildFails, Unlock, Run, RunFails, Report, Kill, Over, TypeOK
  <2>2. /\ req' = req /\ InputsOf(req[p].lane)' = InputsOf(req[p].lane) /\ fingerprint' = fingerprint
        /\ pc[p] \in InBundle /\ fingerprint[p] = InputsOf(req[p].lane) /\ fingerprint[p] # 0 /\ gen # 0
    BY <2>1 DEF Lookup, Clear, Build, WriteVersion, WriteInputs, InBundle, Owned, InputsOf
  <2>3. Here(p) \in Bundle /\ req[p].launch \in Launches /\ req[p] \in Requests
        /\ Here(p) = bundle[req[p].launch] /\ Here(p)' = bundle'[req[p].launch]
    BY <2>2, HereTyped DEF InBundle, Here
  <2>4. CASE Lookup(p)
    <3>1. UNCHANGED <<bundle, cut, disturbed>> /\ pc[p] = "lookup"
      BY <2>4 DEF Lookup
    <3>2. Here(p)' = Here(p) /\ IsCurrent(p)' = IsCurrent(p) /\ Whole(req[p].launch)' = Whole(req[p].launch)
      BY <2>2, <3>1 DEF Here, IsCurrent, Whole
    <3>3. /\ pc'[p] = "build" => IsCurrent(p) /\ Here(p).binary = NoBinary
          /\ pc'[p] = "unlock" => IsCurrent(p) /\ Here(p).binary # NoBinary
          /\ pc'[p] \in {"clear", "build", "unlock"}
      BY <2>4 DEF Lookup, TypeOK
    <3>. QED
      BY <1>3, <2>2, <3>1, <3>2, <3>3, LookedUp
  <2>5. CASE Clear(p)
    <3>1. Here(p)' = Empty /\ pc'[p] = "build"
      BY <2>3, <2>5 DEF Clear, TypeOK
    <3>2. AllDisturbed(req[p].launch)'
      BY <2>2, <2>5 DEF Clear, AllDisturbed, TypeOK
    <3>. QED
      BY <1>3, <2>2, <3>1, <3>2 DEF Empty
  <2>6. CASE Build(p)
    <3>. DEFINE built == [lane |-> req[p].lane, gen |-> InputsOf(req[p].lane),
                           whole |-> Parts(req[p].lane) \cap cut = {}]
    <3>1. Here(p)' = [binary |-> built, version |-> None, inputs |-> 0]
      BY <2>3, <2>6 DEF Build, TypeOK, Empty
    <3>2. pc'[p] = "version" /\ cut' = cut
      BY <2>6 DEF Build, TypeOK
    <3>3. built \in Binary
      BY <2>2, <2>3, Printed DEF Binary, Requests
    <3>4. Whole(req[p].launch)'
      <4>1. /\ bundle'[req[p].launch].binary.whole = (Parts(req[p].lane) \cap cut = {})
            /\ bundle'[req[p].launch].binary.lane = req[p].lane
        BY <2>3, <3>1
      <4>2. bundle'[req[p].launch].binary.whole \/ Parts(req[p].lane) \cap cut' # {}
        BY <3>2, <4>1
      <4>. QED
        BY <2>2, <4>1, <4>2 DEF Whole
    <3>. QED
      BY <1>3, <2>2, <3>1, <3>2, <3>3, <3>4
  <2>7. CASE WriteVersion(p)
    <3>1. Here(p)' = [Here(p) EXCEPT !.version = req[p].lane] /\ pc[p] = "version"
          /\ pc'[p] = "inputs" /\ cut' = cut
      BY <2>3, <2>7 DEF WriteVersion, TypeOK
    <3>2. Here(p)'.binary = Here(p).binary /\ Here(p)'.version = req[p].lane
          /\ Here(p)'.inputs = Here(p).inputs
      BY <2>3, <3>1 DEF Bundle
    <3>3. Whole(req[p].launch)' = Whole(req[p].launch)
      BY <2>2, <2>3, <3>1, <3>2 DEF Whole
    <3>. QED
      BY <1>3, <2>2, <3>1, <3>2, <3>3 DEF BundleMade
  <2>8. CASE WriteInputs(p)
    <3>1. Here(p)' = [Here(p) EXCEPT !.inputs = fingerprint[p]] /\ pc[p] = "inputs"
          /\ pc'[p] = "unlock" /\ cut' = cut
      BY <2>3, <2>8 DEF WriteInputs, TypeOK
    <3>2. Here(p)'.binary = Here(p).binary /\ Here(p)'.version = Here(p).version
          /\ Here(p)'.inputs = fingerprint[p]
      BY <2>3, <3>1 DEF Bundle
    <3>3. Whole(req[p].launch)' = Whole(req[p].launch)
      BY <2>2, <2>3, <3>1, <3>2 DEF Whole
    <3>. QED
      BY <1>3, <2>2, <3>1, <3>2, <3>3 DEF BundleMade
  <2>. QED
    BY <2>1, <2>4, <2>5, <2>6, <2>7, <2>8
<1>. QED
  BY <1>2, <1>3

\* Who builds beside a run that nothing has disturbed builds the same again.
LEMMA BuildsTheSame ==
  ASSUME ConstantsAssumption, TypeOK, Owned, BundleMade, RunKept,
         NEW p \in Procs, NEW q \in Procs, req[p].launch = req[q].launch,
         pc[q] = "run", q \notin disturbed, pc[p] \in {"build", "version", "inputs"}
  PROVE  req[p].lane = req[q].lane /\ InputsOf(req[p].lane) = fingerprint[q]
<1>1. req[p].lane # None /\ fingerprint[p] # 0 /\ fingerprint[p] = InputsOf(req[p].lane) /\ Here(p) = Here(q)
  BY HereTyped DEF Owned, InBundle, ConstantsAssumption, Here
<1>2. CASE pc[p] = "build"
  BY <1>1, <1>2 DEF BundleMade, IsCurrent, AllDisturbed, RunKept
<1>3. CASE pc[p] \in {"version", "inputs"}
  BY <1>1, <1>3, BinaryIsOne DEF BundleMade, RunKept
<1>. QED
  BY <1>2, <1>3

LEMMA RunKeptStep ==
  ASSUME ConstantsAssumption, TypeOK, Owned, BundleMade, RunKept, [Next]_vars
  PROVE  RunKept'
<1>. USE DEF files, sources, locks, locals, history, Goto
<1>1. CASE UNCHANGED vars
  BY <1>1 DEF vars, RunKept, Here
<1>. SUFFICES ASSUME NEW p \in Procs, (\E r \in Requests : Start(p, r)) \/ Step(p) \/ Kill(p),
                     NEW q \in Procs, pc'[q] = "run", q \notin disturbed'
              PROVE  (/\ Here(q).version \in {None, req[q].lane}
                      /\ Here(q).inputs \in {0, fingerprint[q]}
                      /\ Here(q).binary # NoBinary =>
                           /\ Here(q).binary.lane = req[q].lane
                           /\ Here(q).binary.gen = fingerprint[q])'
  BY <1>1 DEF Next, RunKept
<1>2. CASE q = p
  <2>1. Unlock(p)
    BY <1>2 DEF Step, Start, LockGenerated, Ensure, Generate, GenerateFails, FailureMissed, LockBundle, Lookup,
        Clear, Build, BuildFails, WriteVersion, WriteInputs, Run, RunFails, Report, Kill, Over, TypeOK
  <2>2. UNCHANGED <<bundle, req, fingerprint, sources>> /\ pc[p] = "unlock" /\ Here(p)' = Here(p)
    BY <2>1 DEF Unlock, Here
  <2>. QED
    BY <1>2, <2>2 DEF BundleMade, Owned, InBundle
<1>3. CASE q # p
  <2>. DEFINE l == req[q].launch
  <2>1. /\ pc[q] = "run" /\ req'[q] = req[q] /\ fingerprint'[q] = fingerprint[q] /\ q \notin disturbed
        /\ l \in Launches /\ Here(q) = bundle[l] /\ Here(q)' = bundle'[l] /\ Here(q) \in Bundle
    BY <1>3, OthersKept, HereTyped DEF Here
  <2>2. CASE bundle'[l] = bundle[l]
    BY <2>1, <2>2 DEF RunKept
  <2>3. CASE bundle'[l] = Empty
    BY <2>1, <2>3 DEF Empty
  <2>4. CASE bundle'[l] \notin {bundle[l], Empty}
    <3>1. pc[p] \in {"clear", "build", "version", "inputs"} /\ req[p].launch = l
          /\ (Build(p) \/ WriteVersion(p) \/ WriteInputs(p) \/ Kill(p))
      BY <2>1, <2>4 DEF Step, Start, LockGenerated, Ensure, Generate, GenerateFails, FailureMissed, LockBundle, Lookup,
          Clear, Build, BuildFails, WriteVersion, WriteInputs, Unlock, Run, RunFails, Report, Kill, TypeOK
    <3>2. Here(p) = Here(q) /\ Here(p) = bundle[l] /\ req[p] \in Requests
          /\ pc[p] \in InSources /\ fingerprint[p] = InputsOf(req[p].lane)
      BY <2>1, <3>1, HereTyped DEF Here, Owned, InBundle, InSources
    <3>3. pc[p] # "clear" => req[p].lane = req[q].lane /\ InputsOf(req[p].lane) = fingerprint[q]
      BY <2>1, <3>1, BuildsTheSame
    <3>4. CASE Build(p)
      <4>. DEFINE built == [lane |-> req[p].lane, gen |-> InputsOf(req[p].lane),
                           whole |-> Parts(req[p].lane) \cap cut = {}]
      <4>1. bundle'[l] = [binary |-> built, version |-> None, inputs |-> 0] /\ pc[p] = "build"
        BY <2>1, <3>1, <3>4 DEF Build, TypeOK, Empty
      <4>. QED
        BY <2>1, <3>3, <4>1
    <3>5. CASE WriteVersion(p)
      <4>1. bundle'[l] = [Here(q) EXCEPT !.version = req[p].lane] /\ pc[p] = "version"
        BY <2>1, <3>1, <3>5 DEF WriteVersion, TypeOK
      <4>2. /\ bundle'[l].binary = Here(q).binary /\ bundle'[l].version = req[p].lane
            /\ bundle'[l].inputs = Here(q).inputs
        BY <2>1, <4>1 DEF Bundle
      <4>. QED
        BY <2>1, <3>3, <4>1, <4>2 DEF RunKept
    <3>6. CASE WriteInputs(p)
      <4>1. bundle'[l] = [Here(q) EXCEPT !.inputs = fingerprint[p]] /\ pc[p] = "inputs"
        BY <2>1, <3>1, <3>6 DEF WriteInputs, TypeOK
      <4>2. /\ bundle'[l].binary = Here(q).binary /\ bundle'[l].inputs = fingerprint[p]
            /\ bundle'[l].version = Here(q).version
        BY <2>1, <4>1 DEF Bundle
      <4>. QED
        BY <2>1, <3>2, <3>3, <4>1, <4>2 DEF RunKept
    <3>7. CASE Kill(p) /\ pc[p] = "clear"
      <4>1. PICK r \in Remains(Here(p)) : bundle'[l] = r
        BY <2>1, <3>1, <3>7 DEF Kill, TypeOK
      <4>. QED
        BY <2>1, <3>2, <4>1, RemainsAreOld DEF RunKept
    <3>8. CASE Kill(p) /\ pc[p] # "clear"
      <4>1. pc[p] = "build" /\ \E r \in Unfinished(p) : bundle'[l] = r
        BY <2>1, <2>4, <3>1, <3>8 DEF Kill, TypeOK
      <4>2. Here(p).binary = NoBinary
        BY <4>1 DEF BundleMade
      <4>3. PICK r \in Unfinished(p) : bundle'[l] = r
        BY <4>1
      <4>4. /\ r.version \in {None, Here(q).version} /\ r.inputs \in {0, Here(q).inputs}
            /\ r.binary # NoBinary => r.binary.lane = req[p].lane /\ r.binary.gen = InputsOf(req[p].lane)
        BY <3>2, <4>1, <4>2, UnfinishedAreOld
      <4>. QED
        BY <2>1, <3>3, <4>1, <4>3, <4>4 DEF RunKept
    <3>. QED
      BY <3>1, <3>4, <3>5, <3>6, <3>7, <3>8
  <2>. QED
    BY <2>2, <2>3, <2>4
<1>. QED
  BY <1>2, <1>3
-----------------------------------------------------------------------------
LEMMA InvInit == ASSUME ConstantsAssumption, Init PROVE Inv
<1>1. TypeOK
  BY TypeOKInit
<1>2. \A p \in Procs : pc[p] = "idle"
  BY DEF Init
<1>3. MarkersTrue
  BY DEF Init, MarkersTrue, Empty
<1>4. gen = 0 <=> native = 0
  BY DEF Init
<1>. QED
  BY <1>1, <1>2, <1>3, <1>4 DEF Inv, Owned, InSources, InBundle, BundleMade, RunKept, UndisturbedRunIsRight

LEMMA InvStep == ASSUME ConstantsAssumption, Inv, [Next]_vars PROVE Inv'
BY TypeOKStep, OwnedStep, MarkersStep, BundleMadeStep, RunKeptStep, UndisturbedStep DEF Inv

THEOREM Invariance == Spec => []Inv
<1>1. Init => Inv
  BY InvInit, ConstantsAssumption
<1>2. Inv /\ [Next]_vars => Inv'
  BY InvStep, ConstantsAssumption
<1>. QED
  BY <1>1, <1>2, PTL DEF Spec

\* Every variable keeps its type; a fresh generation can always be numbered.
THEOREM BundleTypeCorrect == Spec => []TypeOK
BY Invariance, PTL DEF Inv

\* ReleasedBundleIsRight: a process about to release the locks has the bundle it asked
\* for, whatever others left when they failed or were killed, and whatever lane the
\* generated directory was last brought up to date for.
THEOREM ReleasedRight == Spec => []ReleasedBundleIsRight
<1>1. Inv => ReleasedBundleIsRight
  <2>1. SUFFICES ASSUME Inv, NEW p \in Procs, pc[p] = "unlock"
                 PROVE  /\ Here(p).binary # NoBinary
                        /\ Here(p).binary.lane = req[p].lane /\ Here(p).binary.gen = InputsOf(req[p].lane)
                        /\ Here(p).binary.whole \/ cut \cap ({req[p].launch} \cup Parts(req[p].lane)) # {}
    BY DEF ReleasedBundleIsRight
  <2>2. /\ Here(p).binary \in Binary /\ Whole(req[p].launch)
        /\ Here(p).binary.lane = req[p].lane /\ Here(p).binary.gen = InputsOf(req[p].lane)
    BY <2>1 DEF Inv, BundleMade
  <2>3. Here(p).binary.whole \/ cut \cap ({req[p].launch} \cup Parts(req[p].lane)) # {}
    BY <2>2, Zenon DEF Here, Whole
  <2>. QED
    BY <2>2, <2>3, BinaryIsOne, ConstantsAssumption
<1>. QED
  BY <1>1, Invariance, PTL

\* UndisturbedRunIsRight: after the locks are released the binary that runs is still
\* the one asked for, unless another process has cleared its directory.
THEOREM UndisturbedRight == Spec => []UndisturbedRunIsRight
BY Invariance, PTL DEF Inv
-----------------------------------------------------------------------------
=============================================================================
