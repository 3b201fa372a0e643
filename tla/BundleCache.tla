----------------------------- MODULE BundleCache -----------------------------
(***************************************************************************)
(* src/src/runners/run_opentitan_tlul_slice_gpu_baseline.py, the generated *)
(* directory of one slice and its benchmark bundles, shared by the         *)
(* processes of a sweep campaign through two nested flock files            *)
(* (_ensure_generated_dir*, _bundle_cache_*, _run_bundle_backend).         *)
(*                                                                         *)
(* There is one bundle directory per launch backend. Its content depends   *)
(* on the lane (execution backend and hybrid mode) and on the generation   *)
(* of the sources it was built from; two marker files name the two. Under  *)
(* the locks a process brings the bundle up to date; it releases them and  *)
(* then runs the binary. A process may be killed at any step: the kernel   *)
(* drops its locks and the files stay as they are.                         *)
(*                                                                         *)
(* The fingerprint (path, size, mtime of every input) is abstracted to the *)
(* generation: a number that no file still refers to is a fresh one.       *)
(***************************************************************************)
EXTENDS Integers, FiniteSets

CONSTANTS
    Procs,          \* processes working on the slice
    Launches,       \* launch backends: bundle directories
    Lanes,          \* execution backend and hybrid mode
    UnboundLanes,   \* cuda_clang_ir, cuda_vl_ir: building reads the unbound ns
    HsacoLanes,     \* rocm_llvm: two more of the generated files are needed
    MaxRuns,        \* bound: requests per process
    None            \* absent file, free lock

ASSUME ConstantsAssumption ==
    /\ IsFiniteSet(Procs) /\ IsFiniteSet(Launches)
    /\ UnboundLanes \subseteq Lanes /\ HsacoLanes \subseteq Lanes \ UnboundLanes
    /\ MaxRuns \in Nat
    /\ None \notin Procs \cup Lanes
    /\ {"generated", "hsaco"} \cap Launches = {}   \* different files

VARIABLES
    gen,            \* generation of the files every lane needs, 0: one is missing
    native,         \* of these and the two of the native lanes, 0 with gen
    extras,         \* what is there besides: the marker, the native files
    bundle,         \* per launch backend, what its directory holds
    gen_lock,       \* holder of .<slice>.generated_dir.lock
    bundle_lock,    \* holder of <launch>.lock
    pc,             \* where each process is
    req,            \* its request
    fingerprint,    \* its expected_bundle_cache_fingerprint
    ran,            \* the bundle content its binary ran from
    runs,           \* requests it has made
    disturbed,      \* history: its bundle was cleared before its run
    cut             \* history: what a removal or generation that was killed or
                    \* failed has left incomplete or of different ages

vars == <<gen, native, extras, bundle, gen_lock, bundle_lock, pc, req, fingerprint, ran, runs,
          disturbed, cut>>

Gens     == 1..(2 * Cardinality(Launches) + Cardinality(Procs) + 1)
Requests == [launch : Launches, lane : Lanes, rebuild : BOOLEAN]
NoReq    == [launch |-> None]
Binary   == [lane : Lanes, gen : Gens, whole : BOOLEAN]
NoBinary == [lane |-> None]
Bundle   == [binary : Binary \cup {NoBinary}, version : Lanes \cup {None},
             inputs : Gens \cup {0}]
Sources  == "generated"      \* the generated directory, as a member of cut
Hsaco    == "hsaco"          \* its native files
Empty    == [binary |-> NoBinary, version |-> None, inputs |-> 0]

TypeOK ==
    /\ gen \in Gens \cup {0} /\ native \in Gens \cup {0}
    /\ extras \subseteq {"marker", "hsaco"}
    /\ bundle \in [Launches -> Bundle]
    /\ gen_lock \in Procs \cup {None}
    /\ bundle_lock \in [Launches -> Procs \cup {None}]
    /\ pc \in [Procs -> {"idle", "start", "ensure", "generate", "locking",
                         "lookup", "clear", "build", "version", "inputs",
                         "unlock", "run", "report"}]
    /\ req \in [Procs -> Requests \cup {NoReq}]
    /\ fingerprint \in [Procs -> Gens \cup {0}]
    /\ ran \in [Procs -> Binary \cup {NoBinary}]
    /\ runs \in [Procs -> 0..MaxRuns]
    /\ disturbed \subseteq Procs
    /\ cut \subseteq Launches \cup {Sources, Hsaco}

Here(p) == bundle[req[p].launch]

\* A number no file and no process refers to: its mtime is new.
FreshGen ==
    CHOOSE g \in Gens :
        /\ \A l \in Launches :
              /\ bundle[l].inputs # g
              /\ bundle[l].binary # NoBinary => bundle[l].binary.gen # g
        /\ \A p \in Procs : fingerprint[p] # g

\* What a lane finds in the generated directory: what must be there besides the
\* files of gen, what _bundle_input_fingerprint makes of it, what it builds from.
Needed(lane) == {"marker"} \cup (IF lane \in HsacoLanes THEN {"hsaco"} ELSE {})
InputsOf(lane)  == IF lane \in HsacoLanes THEN native ELSE gen
Parts(lane)  == {Sources} \cup (IF lane \in HsacoLanes THEN {Hsaco} ELSE {})

Init ==
    /\ gen = 0 /\ native = 0 /\ extras = {}
    /\ bundle = [l \in Launches |-> Empty]
    /\ gen_lock = None /\ bundle_lock = [l \in Launches |-> None]
    /\ pc = [p \in Procs |-> "idle"]
    /\ req = [p \in Procs |-> NoReq]
    /\ fingerprint = [p \in Procs |-> 0]
    /\ ran = [p \in Procs |-> NoBinary]
    /\ runs = [p \in Procs |-> 0]
    /\ disturbed = {} /\ cut = {}

-----------------------------------------------------------------------------
Goto(p, step) == pc' = [pc EXCEPT ![p] = step]

sources == <<gen, native, extras>>
files   == <<sources, bundle>>
locks   == <<gen_lock, bundle_lock>>
locals  == <<req, fingerprint, ran, runs>>
history == <<disturbed, cut>>

Start(p, r) ==
    /\ pc[p] = "idle" /\ runs[p] < MaxRuns
    /\ req' = [req EXCEPT ![p] = r]
    /\ runs' = [runs EXCEPT ![p] = @ + 1]
    /\ Goto(p, "start")
    /\ UNCHANGED <<files, locks, fingerprint, ran, history>>

\* A slip: the generated directory stays locked unless it was unlocked.
OverHolding(p) ==
    /\ Goto(p, "idle")
    /\ gen_lock' = gen_lock
    /\ bundle_lock' = [l \in Launches |->
                          IF bundle_lock[l] = p THEN None ELSE bundle_lock[l]]
    /\ req' = [req EXCEPT ![p] = NoReq]
    /\ fingerprint' = [fingerprint EXCEPT ![p] = 0]
    /\ ran' = [ran EXCEPT ![p] = NoBinary]
    /\ disturbed' = disturbed \ {p}
    /\ UNCHANGED runs

\* The process ends, by an exception, a kill or normally: its locks are free.
Over(p) ==
    /\ Goto(p, "idle")
    /\ gen_lock' = IF gen_lock = p THEN None ELSE gen_lock
    /\ bundle_lock' = [l \in Launches |->
                          IF bundle_lock[l] = p THEN None ELSE bundle_lock[l]]
    /\ req' = [req EXCEPT ![p] = NoReq]
    /\ fingerprint' = [fingerprint EXCEPT ![p] = 0]
    /\ ran' = [ran EXCEPT ![p] = NoBinary]
    /\ disturbed' = disturbed \ {p}
    /\ UNCHANGED runs

LockGenerated(p) ==
    /\ pc[p] = "start" /\ gen_lock = None
    /\ gen_lock' = p
    /\ Goto(p, "ensure")
    /\ UNCHANGED <<files, bundle_lock, locals, history>>

\* With --rebuild the slice's directory is removed first. It is generated when a
\* file this lane needs is missing, beside the files that are there.
Ensure(p) ==
    /\ pc[p] = "ensure"
    /\ IF req[p].rebuild THEN gen' = 0 /\ native' = 0 /\ extras' = {}
                         ELSE UNCHANGED sources
    /\ Goto(p, IF gen' # 0 /\ Needed(req[p].lane) \subseteq extras'
               THEN "locking" ELSE "generate")
    /\ UNCHANGED <<bundle, locks, locals, history>>

\* The generator writes every file but the native ones of another lane, which stay
\* as they are beside the new ones.
Generate(p) ==
    /\ pc[p] = "generate"
    /\ gen' = FreshGen /\ native' = FreshGen
    /\ extras' = extras \cup Needed(req[p].lane)
    /\ cut' = (cut \ {Sources, Hsaco}) \cup
                  (IF extras \subseteq Needed(req[p].lane) THEN {} ELSE {Hsaco})
    /\ Goto(p, "locking")
    /\ UNCHANGED <<bundle, locks, locals, disturbed>>

\* What a generation that does not come to its end makes of the directory: old
\* and new files, some perhaps missing. The marker is written at the very end.
HalfGenerated(p) ==
    /\ \/ UNCHANGED <<gen, native>>
       \/ gen' \in {0, FreshGen} /\ native' = gen'
       \/ /\ req[p].lane \in HsacoLanes /\ gen # 0
          /\ native' = FreshGen /\ UNCHANGED gen
    /\ extras' \in {extras, extras \cup (Needed(req[p].lane) \ {"marker"})}
    /\ cut' = cut \cup {Sources, Hsaco}

GenerateFails(p) ==
    /\ pc[p] = "generate"
    /\ HalfGenerated(p)
    /\ Over(p)
    /\ UNCHANGED bundle

\* The generator notes that one of its tools failed and exits with 0; the files
\* that are looked for, and the marker, are there from an earlier generation.
FailureMissed(p) ==
    /\ pc[p] = "generate"
    /\ HalfGenerated(p)
    /\ gen' # 0 /\ Needed(req[p].lane) \subseteq extras'
    /\ Goto(p, "locking")
    /\ UNCHANGED <<bundle, locks, locals, disturbed>>

LockBundle(p) ==
    /\ pc[p] = "locking" /\ bundle_lock[req[p].launch] = None
    /\ bundle_lock' = [bundle_lock EXCEPT ![req[p].launch] = p]
    /\ fingerprint' = [fingerprint EXCEPT ![p] = InputsOf(req[p].lane)]
    /\ Goto(p, "lookup")
    /\ UNCHANGED <<files, gen_lock, req, ran, runs, history>>

\* A slip: the version alone decides.
IsCurrentByVersion(p) == Here(p).version = req[p].lane

\* A slip: the fingerprint alone decides.
IsCurrentByInputs(p) == Here(p).inputs = fingerprint[p]

\* _bundle_cache_is_current
IsCurrent(p) ==
    /\ Here(p).version = req[p].lane
    /\ Here(p).inputs = fingerprint[p]

Lookup(p) ==
    /\ pc[p] = "lookup"
    /\ Goto(p, IF req[p].rebuild \/ ~IsCurrent(p) THEN "clear"
               ELSE IF Here(p).binary = NoBinary THEN "build"
               ELSE "unlock")
    /\ UNCHANGED <<files, locks, locals, history>>

\* rmtree, under the feet of whoever is about to run the binary.
Clear(p) ==
    /\ pc[p] = "clear"
    /\ bundle' = [bundle EXCEPT ![req[p].launch] = Empty]
    /\ disturbed' = disturbed \cup
          { q \in Procs : pc[q] = "run" /\ req[q].launch = req[p].launch }
    /\ cut' = cut \ {req[p].launch}
    /\ Goto(p, "build")
    /\ UNCHANGED <<sources, locks, locals>>

\* prepare_bench_bundle.py --force removes what is there, the markers included,
\* and build_bench_bundle.py builds; the markers are written after.
Build(p) ==
    /\ pc[p] = "build" /\ req[p].lane \notin UnboundLanes
    /\ bundle' = [bundle EXCEPT ![req[p].launch] =
          [Empty EXCEPT !.binary =
              [lane |-> req[p].lane, gen |-> InputsOf(req[p].lane),
               whole |-> Parts(req[p].lane) \cap cut = {}]]]
    /\ Goto(p, "version")
    /\ UNCHANGED <<sources, locks, locals, history>>

(* A failed build removes the directory; the retry's cwd is then missing and *)
(* the exception leaves the loop. In an unbound lane the directory is still  *)
(* as it was found.                                                          *)
BuildFails(p) ==
    /\ pc[p] = "build"
    /\ bundle' = IF req[p].lane \in UnboundLanes THEN bundle
                 ELSE [bundle EXCEPT ![req[p].launch] = Empty]
    /\ Over(p)
    /\ UNCHANGED <<sources, cut>>

\* A slip: the arguments of _write_bundle_cache_version are swapped.
WriteVersionSwapped(p) ==
    /\ pc[p] = "version"
    /\ bundle' = [bundle EXCEPT ![req[p].launch].version = fingerprint[p]]
    /\ Goto(p, "inputs")
    /\ UNCHANGED <<sources, locks, locals, history>>

WriteVersion(p) ==
    /\ pc[p] = "version"
    /\ bundle' = [bundle EXCEPT ![req[p].launch].version = req[p].lane]
    /\ Goto(p, "inputs")
    /\ UNCHANGED <<sources, locks, locals, history>>

WriteInputs(p) ==
    /\ pc[p] = "inputs"
    /\ bundle' = [bundle EXCEPT ![req[p].launch].inputs = fingerprint[p]]
    /\ Goto(p, "unlock")
    /\ UNCHANGED <<sources, locks, locals, history>>

Unlock(p) ==
    /\ pc[p] = "unlock"
    /\ gen_lock' = None
    /\ bundle_lock' = [bundle_lock EXCEPT ![req[p].launch] = None]
    /\ Goto(p, "run")
    /\ UNCHANGED <<files, locals, history>>

\* The metadata is copied and the binary started, whatever is there by now.
Run(p) ==
    /\ pc[p] = "run" /\ Here(p).binary # NoBinary
    /\ ran' = [ran EXCEPT ![p] = Here(p).binary]
    /\ Goto(p, "report")
    /\ UNCHANGED <<files, locks, req, fingerprint, runs, history>>

RunFails(p) ==
    /\ pc[p] = "run" /\ Here(p).binary = NoBinary
    /\ Over(p)
    /\ UNCHANGED <<files, cut>>

Report(p) ==
    /\ pc[p] = "report"
    /\ Over(p)
    /\ UNCHANGED <<files, cut>>

\* What a removal cut short leaves of a bundle: any of its files.
Remains(b) ==
    [binary : IF b.binary = NoBinary THEN {NoBinary}
              ELSE {NoBinary, b.binary, [b.binary EXCEPT !.whole = FALSE]},
     version : {None, b.version}, inputs : {0, b.inputs}]

\* What a build cut short leaves: the directory as it was found, some of it,
\* or a new one without markers.
Unfinished(p) ==
    Remains(Here(p)) \cup
    { [Empty EXCEPT !.binary = b] :
         b \in {NoBinary, [lane |-> req[p].lane, gen |-> InputsOf(req[p].lane),
                           whole |-> FALSE]} }

\* What a removal of the generated directory leaves when it is cut short: it may
\* still pass while the files it is checked for are there, and without the others
\* its fingerprint is a new one.
HalfRemoved ==
    /\ \/ UNCHANGED <<gen, native>>
       \/ gen # 0 /\ gen' \in {0, FreshGen} /\ native' = gen'
    /\ extras' \in SUBSET extras
    /\ cut' = cut \cup {Sources, Hsaco}

\* The process is killed with the tools it runs.
Kill(p) ==
    /\ pc[p] # "idle"
    /\ CASE pc[p] = "clear" ->
              /\ \E r \in Remains(Here(p)) :
                    bundle' = [bundle EXCEPT ![req[p].launch] = r]
              /\ cut' = cut \cup {req[p].launch}
              /\ UNCHANGED sources
         [] pc[p] = "build" /\ req[p].lane \notin UnboundLanes ->
              /\ \E r \in Unfinished(p) :
                    bundle' = [bundle EXCEPT ![req[p].launch] = r]
              /\ UNCHANGED <<sources, cut>>
         [] pc[p] = "ensure" /\ req[p].rebuild -> HalfRemoved /\ UNCHANGED bundle
         [] pc[p] = "generate" -> HalfGenerated(p) /\ UNCHANGED bundle
         [] OTHER -> UNCHANGED <<files, cut>>
    /\ Over(p)

Step(p) ==
    \/ LockGenerated(p) \/ Ensure(p) \/ Generate(p)
    \/ GenerateFails(p) \/ FailureMissed(p)
    \/ LockBundle(p) \/ Lookup(p) \/ Clear(p) \/ Build(p) \/ BuildFails(p)
    \/ WriteVersion(p) \/ WriteInputs(p) \/ Unlock(p)
    \/ Run(p) \/ RunFails(p) \/ Report(p)

Next == \E p \in Procs : (\E r \in Requests : Start(p, r)) \/ Step(p) \/ Kill(p)

Spec == Init /\ [][Next]_vars

\* A process that can go on does; a wait for a lock ends when it stays free.
FairSpec == Spec /\ \A p \in Procs : WF_vars(Step(p))

-----------------------------------------------------------------------------
(* When a process is about to release the locks, the bundle is the one it   *)
(* asked for: built for its lane from the generated files of that lane as   *)
(* they are now, whatever earlier processes left when they failed or were   *)
(* killed between removing, building and writing either marker, and though  *)
(* a directory that is complete for one lane is not for another and is then *)
(* generated again in its place. Only a removal or a generation that was    *)
(* killed or failed, or native files that another lane's generation passed  *)
(* over, can leave a bundle incomplete or mixed that passes for current,    *)
(* and only until the next complete one (:3172-3217, :3371-3450).           *)
ReleasedBundleIsRight ==
    \A p \in Procs : pc[p] = "unlock" =>
        LET b == Here(p).binary
        IN /\ b # NoBinary
           /\ b.lane = req[p].lane /\ b.gen = InputsOf(req[p].lane)
           /\ b.whole \/ cut \cap ({req[p].launch} \cup Parts(req[p].lane)) # {}

(* The run comes after the locks are released. It uses the bundle its       *)
(* process asked for unless another one cleared the directory in between    *)
(* (:3452-3500).                                                            *)
UndisturbedRunIsRight ==
    \A p \in Procs : pc[p] = "report" /\ p \notin disturbed =>
        /\ ran[p].lane = req[p].lane
        /\ ran[p].gen = fingerprint[p]

\* Every request ends: the two locks are always taken in the same order and
\* no exception or kill leaves one held (:3350-3450).
RequestsEnd == \A p \in Procs : pc[p] # "idle" ~> pc[p] = "idle"
=============================================================================
