------------------------------ MODULE Validation ------------------------------
(***************************************************************************)
(* The measurement of one design: the hybrid validation (host probe, GPU   *)
(* replay, summary, verdict), the CPU baseline, the comparison of the two  *)
(* and the trio tool that runs all three.  Every file has a fixed name in  *)
(* the design's build directory or in output/validation, is overwritten in *)
(* place and is read back after the tools that write it, so what a process *)
(* reads need not be what it wrote: another process runs on the same       *)
(* design, an earlier run was killed, the design is built anew.            *)
(***************************************************************************)
EXTENDS ValidationDesigns, FiniteSets

CONSTANTS
  Processes,   \* the processes that may run at one time
  Designs,     \* the designs looked at, one of which is measured
  Sound,       \* versions whose outputs have no queue overflow and some coverage
  MaxVersion,  \* bound: builds of the design
  MaxJobs      \* bound: runs that are started

VARIABLES
  design,   \* the design measured
  cpp,      \* version of the verilated model in the build directory
  files,    \* [name |-> content], see FileNames
  job,      \* [process |-> what it is running]
  started

vars == <<design, cpp, files, job, started>>

ASSUME SoundAssumption == Sound \subseteq 1..MaxVersion
ASSUME DesignsAssumption == Designs \subseteq TlulDesigns \cup CpuDesigns
ASSUME BoundsAssumption == MaxVersion \in Nat \ {0} /\ MaxJobs \in Nat

FileNames ==
  {"state", "report", "final", "flow", "parity", "hybrid", "baseline", "comparison", "candidate"}
Missing == [is |-> "missing"]
Torn == [is |-> "torn"]
There(f) == files[f].is = "there"

\* What a simulation shows: the version it is of, or 0 for outputs that no host
\* run of any version shows, and the clock edges replayed.
After(v, edges) == [of |-> v, edges |-> edges]
Garbled == After(0, 0)

\* The first version covers the default threshold, a later one a bit less; what
\* is no version's may cover nothing.
Hits(out) ==
  IF out.of = 0 THEN {0, design.hybrid.run.bits}
  ELSE IF out.of = 1 THEN {design.hybrid.run.bits}
  ELSE {design.hybrid.run.bits - 1}

Asked == {design.hybrid.run.bits, design.hybrid.run.bits - 1}

Clocked == design.hybrid.run.edges > 0
Kinds == {"hybrid", "baseline", "comparison"} \cup (IF design.enrolled THEN {"all"} ELSE {})

\* flow, parity: did the tools exit with 0.  made: what is to be written next.
\* clean (ghost): nobody else has touched the design since the job started.
Idle == [pc |-> "idle"]
NewJob(kind, bits) ==
  [pc |-> "start", kind |-> kind, bits |-> bits, rc |-> 0, clean |-> TRUE,
   flow |-> FALSE, parity |-> FALSE, probed |-> 0, layout |-> 0,
   last |-> Garbled, blob |-> Garbled, made |-> Missing]

\* What an earlier run of both sides, at the default threshold, left behind.
Earlier(f) ==
  LET out == After(1, design.hybrid.run.edges)
      side(o, passes) == [is |-> "there", ok |-> TRUE, bits |-> design.hybrid.run.bits, out |-> o,
                          hits |-> design.hybrid.run.bits, passes |-> passes, satisfied |-> passes]
  IN  CASE f \in {"state", "report"} -> [is |-> "there", out |-> After(1, 0)]
        [] f = "final"    -> [is |-> "there", out |-> out]
        [] f = "flow"     -> [is |-> "there", out |-> out, internal |-> Clocked,
                              last |-> IF Clocked THEN out ELSE Garbled]
        [] f = "parity"   -> IF Clocked THEN [is |-> "there", internal |-> TRUE] ELSE Missing
        [] f = "hybrid"   -> side(out, design.hybrid.gate = "replay" => 1 \in Sound)
        [] f = "baseline" -> side(After(1, design.baseline.run.edges), TRUE)
        [] OTHER -> Missing

Init ==
  /\ design \in Designs
  /\ cpp = 1
  /\ \/ files = [f \in FileNames |-> Missing]
     \/ files = [f \in FileNames |-> Earlier(f)]
  /\ job = [p \in Processes |-> Idle]
  /\ started = 0

-----------------------------------------------------------------------------
\* Of an ended job only a success that nothing disturbed is remembered.
Ends(j, rc) ==
  IF j.clean /\ rc = 0 THEN [NewJob(j.kind, j.bits) EXCEPT !.pc = "done"] ELSE Idle
Disturbed(j) == IF j.pc \in {"idle", "done"} THEN Idle ELSE [j EXCEPT !.clean = FALSE]

\* A step of p, after which no other job has had the design for itself.
Becomes(p, j) ==
  job' = [q \in Processes |->
            IF q = p THEN j ELSE Disturbed(job[q])]

Moves(p, pc) == Becomes(p, [job[p] EXCEPT !.pc = pc])
Writes(f, content) == files' = [files EXCEPT ![f] = content]

Same == UNCHANGED <<design, cpp, started>>

FirstStage(kind) ==
  CASE kind \in {"hybrid", "all"} -> "state"
    [] kind = "baseline" -> "baseline"
    [] kind = "comparison" -> "compare"

Start(p) ==
  /\ job[p].pc \in {"idle", "done"}
  /\ started < MaxJobs
  /\ \E kind \in Kinds, bits \in Asked :
       /\ kind = "comparison" => bits = design.hybrid.run.bits  \* it has no threshold of its own
       /\ Becomes(p, [NewJob(kind, bits) EXCEPT
            !.clean = \A q \in Processes \ {p} : job[q].pc \in {"idle", "done"}])
  /\ started' = started + 1
  /\ UNCHANGED <<design, cpp, files>>

\* ensure_runtime_input, or the check before the runtime file is linked, raises
\* if the program is not there.  The trio stages whatever its --stage.
Stage(p) ==
  /\ job[p].pc = "start"
  /\ \/ Moves(p, FirstStage(job[p].kind))
     \/ /\ (IF job[p].kind = "baseline" THEN design.baseline ELSE design.hybrid).run.program # "none"
        /\ job[p].kind # "comparison" \/ design.enrolled
        /\ Becomes(p, Ends(job[p], 1))
  /\ Same
  /\ UNCHANGED files

-----------------------------------------------------------------------------
\* Mutation: the parity probe runs for every design.
AfterFlowParity == "parity"

AfterFlow == IF Clocked THEN "parity" ELSE "readback"

\* A tool of the flow fails: check=True ends the flow, its runner goes on.
FlowFails(p) ==
  /\ job[p].pc \in {"state", "report", "edges", "gpu", "flow"}
  /\ Moves(p, AfterFlow)
  /\ Same
  /\ UNCHANGED files

\* The probe binary is built from the verilated model, then run.
HostProbe(p) ==
  /\ job[p].pc = "state"
  /\ Writes("state", [is |-> "there", out |-> After(cpp, 0)])
  /\ Becomes(p, [job[p] EXCEPT !.pc = "report", !.probed = cpp])
  /\ Same

HostReport(p) ==
  /\ job[p].pc = "report"
  /\ Writes("report", [is |-> "there", out |-> After(job[p].probed, 0)])
  /\ Moves(p, IF Clocked THEN "edges" ELSE "gpu")
  /\ Same

\* The second probe, which shows the host's state after each clock level.
EdgeProbe(p) ==
  /\ job[p].pc = "edges"
  /\ Becomes(p, [job[p] EXCEPT !.pc = "gpu", !.last = After(cpp, design.hybrid.run.edges)])
  /\ Same
  /\ UNCHANGED files

\* The GPU takes the state file to the final state.  A replay that goes right
\* changes no output but by the clock edges it is given.
Outcomes(out) == {[out EXCEPT !.edges = design.hybrid.run.edges], Garbled}

\* The version of the report that tells where the outputs are in a state; the
\* loopback's flow reads it after the replay, that of socket_m1 has a header.
LayoutRead(when, known) ==
  IF design.hybrid.layout = when THEN files["report"].out.of ELSE known

Replay(p) ==
  /\ job[p].pc = "gpu"
  /\ There("state")
  /\ design.hybrid.layout = "before" => There("report")
  /\ \E out \in Outcomes(files["state"].out) :
       /\ Writes("final", [is |-> "there", out |-> out])
       /\ Becomes(p, [job[p] EXCEPT !.pc = "flow", !.blob = out, !.layout = LayoutRead("before", 0)])
  /\ Same

\* The final state is read at the offsets of the report, which fit no other
\* version.
Decode(out, layout) ==
  IF design.hybrid.layout = "header" \/ out.of = layout THEN out ELSE Garbled

Summarize(p) ==
  /\ job[p].pc = "flow"
  /\ design.hybrid.layout = "before" => There("state")
  /\ design.hybrid.layout = "after" => There("report")
  /\ There("final")
  /\ Writes("flow", [is |-> "there",
                     out |-> Decode(files["final"].out, LayoutRead("after", job[p].layout)),
                     last |-> job[p].last,
                     internal |-> Clocked /\ job[p].blob = job[p].last])
  /\ Becomes(p, [job[p] EXCEPT !.pc = AfterFlow, !.flow = TRUE])
  /\ Same

\* The parity probe runs even after a flow that failed.
Parity(p) ==
  /\ job[p].pc = "parity"
  /\ \/ \E internal \in BOOLEAN :
          /\ Writes("parity", [is |-> "there", internal |-> internal])
          /\ Becomes(p, [job[p] EXCEPT !.pc = "readback", !.parity = TRUE])
     \/ /\ UNCHANGED files
        /\ Moves(p, "readback")
  /\ Same
-----------------------------------------------------------------------------
\* Mutation: a summary that is there is enough, whichever run wrote it.
StatusOkWhoever(j) == There("flow") /\ There("report") /\ (Clocked => There("parity"))

StatusOk(j) ==
  /\ j.flow
  /\ There("flow")
  /\ design.hybrid.reported => There("report")
  /\ Clocked => j.parity /\ There("parity")

\* Mutation: the parity gate does not ask that the replay reached the last edge.
GateOutputsOnly(j) ==
  CASE design.hybrid.gate = "replay" -> files["flow"].out.of \in Sound
    [] design.hybrid.gate = "edges"  -> files["parity"].internal
    [] design.hybrid.gate = "none"   -> TRUE

\* The reference gate of a replay and the parity gate of the clocked design.
GatePasses(j) ==
  LET out == files["flow"].out
  IN  CASE design.hybrid.gate = "replay" -> out = files["report"].out /\ out.of \in Sound
        [] design.hybrid.gate = "edges"  ->
             /\ files["flow"].internal
             /\ files["parity"].internal
             /\ out = files["flow"].last
             /\ out.edges > files["report"].out.edges
        [] design.hybrid.gate = "none"   -> TRUE

Artifact(j, out, hits, passes) ==
  [is |-> "there", ok |-> TRUE, bits |-> j.bits, out |-> out, hits |-> hits, passes |-> passes,
   satisfied |-> passes /\ hits >= j.bits]

FailedArtifact(j, passes) ==
  [is |-> "there", ok |-> FALSE, bits |-> j.bits, out |-> Garbled, hits |-> 0, passes |-> passes,
   satisfied |-> FALSE]

ReadBackFiles == {"flow", "report"} \cup (IF Clocked THEN {"parity"} ELSE {})

\* The runner reads the files back; between its reads another process writes
\* at most one of them, so that one step stands for all.
ReadBack(p) ==
  /\ job[p].pc = "readback"
  /\ LET made == IF StatusOk(job[p])
                 THEN {Artifact(job[p], files["flow"].out, hits, GatePasses(job[p])) :
                         hits \in Hits(files["flow"].out)}
                 ELSE {FailedArtifact(job[p], FALSE)}
     IN  IF \E f \in ReadBackFiles : files[f] = Torn
         THEN Becomes(p, Ends(job[p], 1))  \* JSONDecodeError: no artifact
         ELSE \E m \in made : Becomes(p, [job[p] EXCEPT !.pc = "hybrid", !.made = m])
  /\ Same
  /\ UNCHANGED files

\* What the exit code of a hybrid runner says.
HybridExit(j) ==
  IF design.hybrid.exits = "status" THEN j.made.ok ELSE j.flow /\ (Clocked => j.parity)

WriteHybrid(p) ==
  /\ job[p].pc = "hybrid"
  /\ Writes("hybrid", job[p].made)
  /\ IF job[p].kind = "all"
     THEN Becomes(p, [job[p] EXCEPT !.pc = "baseline", !.rc = IF job[p].made.ok THEN 0 ELSE 1])
     ELSE Becomes(p, Ends(job[p], IF HybridExit(job[p]) THEN 0 ELSE 1))
  /\ Same

\* The CPU baseline: the probe is built and run, and its output is the measure.
Baseline(p) ==
  /\ job[p].pc = "baseline"
  /\ \E ok \in BOOLEAN, hits \in Hits(After(cpp, 0)) :
       LET rc == IF ok THEN job[p].rc ELSE 1
       IN  /\ Writes("baseline", IF ok THEN Artifact(job[p], After(cpp, design.baseline.run.edges), hits, TRUE)
                                 ELSE FailedArtifact(job[p], TRUE))
           /\ IF job[p].kind = "all"
              THEN Becomes(p, [job[p] EXCEPT !.pc = "compare", !.rc = rc])
              ELSE Becomes(p, Ends(job[p], rc))
  /\ Same
-----------------------------------------------------------------------------
Valid(side) == side.is = "there" /\ side.ok

\* Mutation: two measures are compared whatever thresholds they were made for.
ComparableAnyThreshold(hybrid, baseline) == Valid(hybrid) /\ Valid(baseline)

\* validate_artifact and threshold_mismatch_reason.
Comparable(hybrid, baseline) == Valid(hybrid) /\ Valid(baseline) /\ hybrid.bits = baseline.bits

Sides == {"hybrid", "baseline"}

\* Both satisfied, the wall times tell the winner: they are anything, and one that
\* is missing or not positive (measurement_time_ok) rejects the comparison.
Comparison(hybrid, baseline) ==
  LET winners == IF ~Comparable(hybrid, baseline) THEN {"rejected"}
                 ELSE IF hybrid.satisfied /\ baseline.satisfied THEN Sides \cup {"tie", "rejected"}
                 ELSE {"unresolved"}
  IN  {[is |-> "there", winner |-> w, hybrid |-> hybrid, baseline |-> baseline] : w \in winners}

Ready(c) == c.is = "there" /\ c.winner \in Sides \cup {"tie"}

Compare(p) ==
  /\ job[p].pc = "compare"
  /\ IF files["baseline"] = Torn \/ files["hybrid"] = Torn
     THEN Becomes(p, Ends(job[p], 1))
     ELSE \E c \in Comparison(files["hybrid"], files["baseline"]) :
            Becomes(p, [job[p] EXCEPT !.pc = "comparison", !.made = c])
  /\ Same
  /\ UNCHANGED files

ComparisonRc(j) == IF j.made.winner = "rejected" THEN 1 ELSE j.rc

\* Unresolved, the trio may be asked (--probe-threshold) for a threshold that
\* both sides observe.
WriteComparison(p) ==
  /\ job[p].pc = "comparison"
  /\ Writes("comparison", job[p].made)
  /\ \/ Becomes(p, Ends(job[p], ComparisonRc(job[p])))
     \/ design.enrolled /\ job[p].made.winner = "unresolved" /\ Moves(p, "candidate")
  /\ Same

Least(a, b) == IF a <= b THEN a ELSE b

\* Mutation: the larger of the two coverages.
CandidateOfLarger(c) ==
  {[is |-> "there", status |-> "candidate_threshold_found",
    value |-> IF c.hybrid.hits <= c.baseline.hits THEN c.baseline.hits ELSE c.hybrid.hits,
    hybrid |-> c.hybrid, baseline |-> c.baseline]}

\* probe_best_threshold: what it may write, as the hybrid side's wall time may be
\* missing.
CandidateOf(c) ==
  LET candidate(status) ==
        [is |-> "there", status |-> status, value |-> Least(c.hybrid.hits, c.baseline.hits),
         hybrid |-> c.hybrid, baseline |-> c.baseline]
  IN  IF c.hybrid.hits = 0 \/ c.baseline.hits = 0
      THEN {candidate("unresolvable_zero_coverage")}
      ELSE {candidate("candidate_threshold_found"), candidate("unresolvable_missing_wall_time")}

WriteCandidate(p) ==
  /\ job[p].pc = "candidate"
  /\ \E c \in CandidateOf(job[p].made) : Writes("candidate", c)
  /\ Becomes(p, Ends(job[p], ComparisonRc(job[p])))
  /\ Same

-----------------------------------------------------------------------------
\* A process killed while it writes: write_text and the probe's and the GPU's
\* dump truncate the file first.
FileOf(pc) == CASE pc = "gpu" -> "final" [] pc \in FileNames -> pc

Kill(p) ==
  /\ job[p].pc \in FileNames \cup {"gpu"}
  /\ Writes(FileOf(job[p].pc), Torn)
  /\ Becomes(p, Ends(job[p], 1))
  /\ Same

\* Somebody verilates the design again in the same build directory.
Rebuild ==
  /\ cpp < MaxVersion
  /\ cpp' = cpp + 1
  /\ job' = [q \in Processes |-> Disturbed(job[q])]
  /\ UNCHANGED <<design, files, started>>

Step(p) ==
  \/ Start(p) \/ Stage(p)
  \/ HostProbe(p) \/ HostReport(p) \/ EdgeProbe(p) \/ Replay(p) \/ Summarize(p) \/ FlowFails(p)
  \/ Parity(p) \/ ReadBack(p) \/ WriteHybrid(p)
  \/ Baseline(p)
  \/ Compare(p) \/ WriteComparison(p) \/ WriteCandidate(p)
  \/ Kill(p)

Next == Rebuild \/ \E p \in Processes : Step(p)

Spec == Init /\ [][Next]_vars
-----------------------------------------------------------------------------
Outs == [of : 0..MaxVersion, edges : Nat]

\* Type invariant of the files and the processes.
TypeOK ==
  /\ design \in Designs
  /\ cpp \in 1..MaxVersion
  /\ DOMAIN files = FileNames
  /\ \A f \in FileNames : files[f].is \in {"missing", "torn", "there"}
  /\ \A f \in {"state", "report", "final", "flow", "hybrid", "baseline"} :
       There(f) => files[f].out \in Outs
  /\ There("parity") => Clocked
  /\ \A p \in Processes :
       job[p] = Idle \/ job[p].pc \in FileNames \cup {"start", "edges", "gpu", "readback", "compare", "done"}
  /\ started \in 0..MaxJobs

\* A comparison that names a winner (build_comparison_payload) rests on two
\* measures that reach one and the same threshold, and the hybrid one, of a
\* design whose runner has a gate, on outputs a host run shows too: whichever
\* processes wrote the files in between, and whichever of them were killed.
ReadyIsBacked ==
  LET c == files["comparison"]
  IN  Ready(c) =>
        /\ c.hybrid.bits = c.baseline.bits
        /\ \A side \in {c.hybrid, c.baseline} : side.hits >= side.bits
        /\ design.hybrid.gate # "none" => c.hybrid.out.of # 0
        /\ c.hybrid.out.edges = c.baseline.out.edges \/ c.hybrid.out = Garbled

HybridFresh(j) ==
  LET h == files["hybrid"]
  IN  h.is = "there" /\ h.ok /\ h.bits = j.bits /\ h.out.of \in {0, cpp}
BaselineFresh(j) ==
  LET b == files["baseline"]
  IN  b.is = "there" /\ b.ok /\ b.bits = j.bits /\ b.out.of = cpp
ComparisonFresh ==
  LET c == files["comparison"]
  IN  c.is = "there" /\ c.winner # "rejected" /\ c.hybrid = files["hybrid"] /\ c.baseline = files["baseline"]

\* A run that had the design for itself and exits with 0 (run_hybrid_validation,
\* run_cpu_baseline_validation, the trio's main) leaves artifacts that are ok,
\* made at the threshold it was asked for and from the design as it is now,
\* never what an earlier run left behind.
SuccessIsFresh ==
  \A p \in Processes :
    LET j == job[p]
    IN  j.pc = "done" =>
          /\ j.kind \in {"hybrid", "all"} => HybridFresh(j)
          /\ j.kind \in {"baseline", "all"} => BaselineFresh(j)
          /\ j.kind \in {"comparison", "all"} => ComparisonFresh

\* The candidate threshold of probe_best_threshold is one that both sides
\* observe, is not zero, and lies below the one that was asked for, unless it is the gate
\* and not the coverage that left the comparison unresolved.
CandidateIsLower ==
  LET c == files["candidate"]
  IN  c.is = "there" /\ c.status = "candidate_threshold_found" =>
        /\ c.value # 0 /\ c.value <= c.hybrid.hits /\ c.value <= c.baseline.hits
        /\ c.value < c.hybrid.bits \/ ~c.hybrid.passes

\* What the comparisons of a trio say rests on what its runs measured.
ComparisonsAreBacked == ReadyIsBacked /\ CandidateIsLower
=============================================================================
