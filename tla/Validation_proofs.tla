-------------------------- MODULE Validation_proofs --------------------------
(***************************************************************************)
(* What the files of a measured design tell of the versions they were made *)
(* from, whoever wrote them; and below, the same questions of the toggle   *)
(* baseline and of the runners on top of it.                               *)
(***************************************************************************)
EXTENDS Validation, Integers, TLAPS

Versions == 1..MaxVersion
Edges == design.hybrid.run.edges

\* What the host shows of a version, and what a replay or a CPU run does.
Shown == [of : Versions, edges : {0}]
Replayed == [of : Versions, edges : {Edges}] \cup {Garbled}

\* A measure, and what the two sides have beyond it.
Measure(m) ==
  /\ m.out \in Replayed /\ m.bits \in Int /\ m.hits \in Int
  /\ m.satisfied => m.passes /\ m.hits >= m.bits
  /\ m.ok /\ m.passes /\ m.hits >= m.bits => m.satisfied
HybridOf(m) == Measure(m) /\ (m.satisfied /\ design.hybrid.gate # "none" => m.out.of # 0)
BaselineOf(m) == Measure(m) /\ m.passes /\ (m.ok => m.out.edges = Edges)

\* Of two measures that were compared.
Compared(c) ==
  /\ c.is = "there" /\ c.winner \in Sides \cup {"tie", "unresolved", "rejected"}
  /\ c.winner # "rejected" =>
       /\ HybridOf(c.hybrid) /\ BaselineOf(c.baseline)
       /\ c.hybrid.ok /\ c.baseline.ok /\ c.hybrid.bits = c.baseline.bits
       /\ (c.winner # "unresolved" <=> c.hybrid.satisfied /\ c.baseline.satisfied)

Lower(c) ==
  c.status = "candidate_threshold_found" =>
  /\ c.value # 0 /\ c.value <= c.hybrid.hits /\ c.value <= c.baseline.hits
  /\ c.value < c.hybrid.bits \/ ~c.hybrid.passes

Fits(f, c) ==
  /\ c.is \in {"missing", "torn", "there"}
  /\ c.is = "there" =>
       /\ f \in {"state", "report"} => c.out \in Shown
       /\ f \in {"final", "flow"} => c.out \in Replayed
       /\ f = "parity" => Clocked
       /\ f = "hybrid" => HybridOf(c)
       /\ f = "baseline" => BaselineOf(c)
       /\ f = "comparison" => Compared(c)
       /\ f = "candidate" => Lower(c)
Files(fs) == fs = [f \in FileNames |-> fs[f]] /\ \A f \in FileNames : Fits(f, fs[f])

\* A job as a record of its fields, so that what EXCEPT leaves is known.
IsJob(j) ==
  j = [pc |-> j.pc, kind |-> j.kind, bits |-> j.bits, rc |-> j.rc, clean |-> j.clean,
       flow |-> j.flow, parity |-> j.parity, probed |-> j.probed, layout |-> j.layout,
       last |-> j.last, blob |-> j.blob, made |-> j.made]

Flowing == {"state", "report", "edges", "gpu", "flow", "parity", "readback", "hybrid"}
Closing == {"compare", "comparison", "candidate"}

\* Whatever else runs.
Runs(j) ==
  /\ IsJob(j)
  /\ j.pc \in Flowing \cup Closing \cup {"start", "baseline", "done"}
  /\ j.kind \in {"hybrid", "baseline", "comparison", "all"} /\ j.bits \in Int
  /\ j.pc = "report" => j.probed \in Versions
  /\ j.pc = "parity" => Clocked
  /\ j.pc = "hybrid" => j.made.is = "there" /\ HybridOf(j.made)
  /\ j.pc \in {"comparison", "candidate"} => Compared(j.made)
  /\ j.pc = "candidate" => j.made.winner = "unresolved"
  /\ j.pc = "done" => j.clean
Job(j) == j = Idle \/ Runs(j)

HybridNow(j, fs, v) ==
  /\ fs["hybrid"].is = "there" /\ fs["hybrid"].ok
  /\ fs["hybrid"].bits = j.bits /\ fs["hybrid"].out.of \in {0, v}
BaselineNow(j, fs, v) ==
  /\ fs["baseline"].is = "there" /\ fs["baseline"].ok
  /\ fs["baseline"].bits = j.bits /\ fs["baseline"].out.of = v
ComparedNow(fs) ==
  LET c == fs["comparison"]
  IN  c.is = "there" /\ c.winner # "rejected" /\ c.hybrid = fs["hybrid"] /\ c.baseline = fs["baseline"]

\* While nobody else touches the design.
Flows(j, fs, v) ==
  /\ j.pc \in Flowing => j.kind \in {"hybrid", "all"}
  /\ j.pc = "report" => j.probed = v
  /\ j.pc \in {"report", "edges", "gpu"} => fs["state"].is = "there" /\ fs["state"].out = After(v, 0)
  /\ j.pc \in {"edges", "gpu", "flow"} => fs["report"].is = "there"
  /\ j.pc = "flow" => fs["final"].is = "there" /\ fs["final"].out \in {After(v, Edges), Garbled}
  /\ j.flow => /\ fs["report"].is = "there" /\ fs["flow"].is = "there"
               /\ fs["flow"].out \in {After(v, Edges), Garbled}
  /\ j.parity => fs["parity"].is = "there"
  /\ j.pc = "hybrid" =>
       /\ j.made.ok <=> j.flow /\ (Clocked => j.parity)
       /\ j.made.bits = j.bits /\ j.made.out.of \in {0, v}
Succeeds(j, fs, v) ==
  /\ j.kind \in {"hybrid", "all"} => HybridNow(j, fs, v)
  /\ j.kind \in {"baseline", "all"} => BaselineNow(j, fs, v)
  /\ j.kind \in {"comparison", "all"} => ComparedNow(fs)
Closes(j, fs, v) ==
  /\ j.pc = "baseline" => j.kind \in {"baseline", "all"}
  /\ j.pc \in Closing => j.kind \in {"comparison", "all"}
  /\ j.pc \in Closing \cup {"baseline"} /\ j.kind = "all" /\ j.rc = 0 => HybridNow(j, fs, v)
  /\ j.pc \in Closing /\ j.kind = "all" /\ j.rc = 0 => BaselineNow(j, fs, v)
  /\ j.pc \in {"comparison", "candidate"} =>
       j.made.hybrid = fs["hybrid"] /\ j.made.baseline = fs["baseline"]
  /\ j.pc = "candidate" => fs["comparison"] = j.made
  /\ j.pc = "done" => Succeeds(j, fs, v)
Undisturbed(j, fs, v) == j # Idle /\ j.clean => Flows(j, fs, v) /\ Closes(j, fs, v)

Inv ==
  /\ design \in Designs /\ cpp \in Versions /\ started \in 0..MaxJobs
  /\ Files(files)
  /\ \A p \in Processes : Job(job[p]) /\ Undisturbed(job[p], files, cpp)

-----------------------------------------------------------------------------
(* The designs. *)

\* What the proofs ask of a design.
IsDesign(d) ==
  /\ d.hybrid.run = d.baseline.run
  /\ d.hybrid.run.bits \in Int /\ d.hybrid.run.edges \in Nat
  /\ d.hybrid.gate \in {"replay", "edges", "none"}
  /\ d.hybrid.gate = "edges" => d.hybrid.reported

LEMMA RunsAre ==
  ASSUME NEW bits \in Int, NEW cycles, NEW program
  PROVE  /\ Run(bits, cycles).bits \in Int /\ Run(bits, cycles).edges \in Nat
         /\ RunOf(program).bits \in Int /\ RunOf(program).edges \in Nat
         /\ EdgeRun.bits \in Int /\ EdgeRun.edges \in Nat
BY DEF Run, RunOf, EdgeRun

LEMMA ReplaysAre ==
  ASSUME NEW run, run.bits \in Int, run.edges \in Nat
  PROVE  /\ IsDesign(Compares(Replays(run), Measures(run)))
         /\ IsDesign(Enrolled(Replays(run), Measures(run)))
         /\ IsDesign(Compares(Ungated(run), Measures(run)))
         /\ IsDesign(Compares([Ungated(run) EXCEPT !.layout = "header"], Measures(run)))
         /\ IsDesign(Compares([Replays(run) EXCEPT !.gate = "edges", !.exits = "flow"], Measures(run)))
<1>1. /\ Replays(run).run = run /\ Replays(run).gate = "replay"
      /\ Ungated(run).run = run /\ Ungated(run).gate = "none"
      /\ [Ungated(run) EXCEPT !.layout = "header"].run = run
      /\ [Ungated(run) EXCEPT !.layout = "header"].gate = "none"
  BY DEF Replays, Ungated
<1>2. /\ [Replays(run) EXCEPT !.gate = "edges", !.exits = "flow"].run = run
      /\ [Replays(run) EXCEPT !.gate = "edges", !.exits = "flow"].gate = "edges"
      /\ [Replays(run) EXCEPT !.gate = "edges", !.exits = "flow"].reported
  BY DEF Replays
<1>. QED
  BY <1>1, <1>2 DEF IsDesign, Compares, Enrolled, Measures

LEMMA BlocksAre ==
  ASSUME NEW bits \in Int, NEW cycles
  PROVE  /\ IsDesign(Compares(Replays(Run(bits, cycles)), Measures(Run(bits, cycles))))
         /\ IsDesign(Compares(Ungated(Run(bits, cycles)), Measures(Run(bits, cycles))))
         /\ IsDesign(Compares([Ungated(Run(bits, cycles)) EXCEPT !.layout = "header"], Measures(Run(bits, cycles))))
<1>. DEFINE run == Run(bits, cycles)
<1>1. run.bits \in Int /\ run.edges \in Nat
  BY RunsAre
<1>. HIDE DEF run
<1>2. /\ IsDesign(Compares(Replays(run), Measures(run)))
      /\ IsDesign(Compares(Ungated(run), Measures(run)))
      /\ IsDesign(Compares([Ungated(run) EXCEPT !.layout = "header"], Measures(run)))
  BY <1>1, ReplaysAre
<1>. QED
  BY <1>2 DEF run

LEMMA CoresAre ==
  ASSUME NEW program
  PROVE  /\ IsDesign(Compares(Replays(RunOf(program)), Measures(RunOf(program))))
         /\ IsDesign(Enrolled(Replays(RunOf(program)), Measures(RunOf(program))))
<1>. DEFINE run == RunOf(program)
<1>1. run.bits \in Int /\ run.edges \in Nat
  BY RunsAre
<1>. HIDE DEF run
<1>2. /\ IsDesign(Compares(Replays(run), Measures(run)))
      /\ IsDesign(Enrolled(Replays(run), Measures(run)))
  BY <1>1, ReplaysAre
<1>. QED
  BY <1>2 DEF run

LEMMA DesignsAre == \A d \in TlulDesigns \cup CpuDesigns : IsDesign(d)
<1>1. IsDesign(Socket1n)
  <2>1. 26 \in Int
    OBVIOUS
  <2>. QED
    BY <2>1, BlocksAre, Zenon DEF Socket1n, Socket1nHybrid, Socket1nBaseline
<1>2. IsDesign(TlulErr)
  <2>1. 9 \in Int
    OBVIOUS
  <2>. QED
    BY <2>1, BlocksAre, Zenon DEF TlulErr, TlulErrHybrid, TlulErrBaseline
<1>3. IsDesign(TlulSink)
  <2>1. 5 \in Int
    OBVIOUS
  <2>. QED
    BY <2>1, BlocksAre, Zenon DEF TlulSink, TlulSinkHybrid, TlulSinkBaseline
<1>4. IsDesign(FifoAsync)
  <2>1. 35 \in Int
    OBVIOUS
  <2>. QED
    BY <2>1, BlocksAre, Zenon DEF FifoAsync, FifoAsyncHybrid, FifoAsyncBaseline
<1>5. IsDesign(XbarMain)
  <2>1. 47 \in Int
    OBVIOUS
  <2>. QED
    BY <2>1, BlocksAre, Zenon DEF XbarMain, XbarMainHybrid, XbarMainBaseline
<1>6. IsDesign(XbarPeri)
  <2>1. 47 \in Int
    OBVIOUS
  <2>. QED
    BY <2>1, BlocksAre, Zenon DEF XbarPeri, XbarPeriHybrid, XbarPeriBaseline
<1>7. IsDesign(FifoSync)
  <2>1. EdgeRun.bits \in Int /\ EdgeRun.edges \in Nat
    BY RunsAre DEF EdgeRun
  <2>. QED
    BY <2>1, ReplaysAre, Zenon DEF FifoSync, FifoSyncHybrid, FifoSyncBaseline
<1>8. IsDesign(Loopback)
  <2>1. 2 \in Int
    OBVIOUS
  <2>. QED
    BY <2>1, BlocksAre, Zenon DEF Loopback, LoopbackHybrid, LoopbackBaseline
<1>9. IsDesign(SocketM1)
  <2>1. 3 \in Int
    OBVIOUS
  <2>. QED
    BY <2>1, BlocksAre, Zenon DEF SocketM1, SocketM1Hybrid, SocketM1Baseline
<1>10. IsDesign(XuanTieE902)
  BY CoresAre DEF XuanTieE902, XuanTieE902Hybrid, XuanTieE902Baseline
<1>11. IsDesign(XuanTieE906)
  BY CoresAre DEF XuanTieE906, XuanTieE906Hybrid, XuanTieE906Baseline
<1>12. IsDesign(XuanTieC906)
  BY CoresAre DEF XuanTieC906, XuanTieC906Hybrid, XuanTieC906Baseline
<1>13. IsDesign(XuanTieC910)
  BY CoresAre DEF XuanTieC910, XuanTieC910Hybrid, XuanTieC910Baseline
<1>14. IsDesign(VeerEh1)
  BY CoresAre DEF VeerEh1, VeerEh1Hybrid, VeerEh1Baseline
<1>15. IsDesign(VeerEh2)
  BY CoresAre DEF VeerEh2, VeerEh2Hybrid, VeerEh2Baseline
<1>16. IsDesign(VeerEl2)
  BY CoresAre DEF VeerEl2, VeerEl2Hybrid, VeerEl2Baseline
<1>17. IsDesign(BlackParrot)
  BY CoresAre DEF BlackParrot, BlackParrotHybrid, BlackParrotBaseline
<1>18. IsDesign(OpenPiton)
  BY CoresAre DEF OpenPiton, OpenPitonHybrid, OpenPitonBaseline
<1>19. IsDesign(Vortex)
  BY CoresAre DEF Vortex, VortexHybrid, VortexBaseline
<1>20. IsDesign(Caliptra)
  BY CoresAre DEF Caliptra, CaliptraHybrid, CaliptraBaseline
<1>21. IsDesign(XiangShan)
  BY CoresAre DEF XiangShan, XiangShanHybrid, XiangShanBaseline
<1>. QED
  BY <1>1, <1>2, <1>3, <1>4, <1>5, <1>6, <1>7, <1>8, <1>9, <1>10, <1>11, <1>12, <1>13, <1>14, <1>15, <1>16, <1>17, <1>18, <1>19, <1>20, <1>21
  DEF TlulDesigns, CpuDesigns

-----------------------------------------------------------------------------
(* What every step does. *)

\* The measured design is one of them.
LEMMA DesignIs == ASSUME Inv PROVE IsDesign(design) /\ MaxVersion \in Nat \ {0}
BY DesignsAre, DesignsAssumption, BoundsAssumption DEF Inv

LEMMA WriteFits ==
  ASSUME Files(files), NEW f \in FileNames, NEW c, Writes(f, c), Fits(f, c)
  PROVE  /\ Files(files') /\ files'[f] = c
         /\ \A g \in FileNames \ {f} : files'[g] = files[g]
BY DEF Files, Writes

LEMMA DisturbedRuns ==
  ASSUME NEW i, Job(i), NEW fs, NEW v
  PROVE  Job(Disturbed(i)) /\ Undisturbed(Disturbed(i), fs, v)
<1>1. CASE Disturbed(i) = Idle
  BY <1>1 DEF Job, Undisturbed
<1>2. CASE i # Idle /\ i.pc # "done" /\ Disturbed(i) = [i EXCEPT !.clean = FALSE]
  <2>. DEFINE j == Disturbed(i)
  <2>1. Runs(i)
    BY <1>2 DEF Job
  <2>2. j = [pc |-> i.pc, kind |-> i.kind, bits |-> i.bits, rc |-> i.rc, clean |-> FALSE,
             flow |-> i.flow, parity |-> i.parity, probed |-> i.probed, layout |-> i.layout,
             last |-> i.last, blob |-> i.blob, made |-> i.made]
    BY <1>2, <2>1 DEF Runs, IsJob
  <2>. HIDE DEF j
  <2>3. Runs(j)
    BY <1>2, <2>1, <2>2 DEF Runs, IsJob
  <2>4. ~j.clean
    BY <2>2
  <2>. QED
    BY <2>3, <2>4 DEF j, Job, Undisturbed
<1>. QED
  BY <1>1, <1>2 DEF Disturbed, Idle

\* What is asked of a file depends on the design, which stays the same.
LEMMA SameFiles ==
  ASSUME design' = design, Files(files')
  PROVE  Files(files)'
<1>1. ASSUME NEW f \in FileNames PROVE Fits(f, files[f])'
  <2>1. Fits(f, files'[f])
    BY DEF Files
  <2>2. HybridOf(files'[f]) => HybridOf(files[f])'
    BY DEF HybridOf, Measure, Replayed, Edges, Versions, Garbled, After
  <2>3. BaselineOf(files'[f]) => BaselineOf(files[f])'
    BY DEF BaselineOf, Measure, Replayed, Edges, Versions, Garbled, After
  <2>4. Compared(files'[f]) => Compared(files[f])'
    BY DEF Compared, HybridOf, BaselineOf, Measure, Replayed, Edges, Versions, Garbled, After, Sides
  <2>. QED
    BY <2>1, <2>2, <2>3, <2>4 DEF Fits, Shown, Replayed, Versions, Edges, Garbled, After, Clocked, Lower
<1>. QED
  BY <1>1 DEF Files

\* What is asked of a job depends on the design, which stays the same.
LEMMA SameJob ==
  ASSUME design' = design, NEW q, Job(job'[q])
  PROVE  Job(job[q])'
<1>1. CASE job'[q] = Idle
  BY <1>1 DEF Job, Idle
<1>2. CASE Runs(job'[q])
  <2>. DEFINE j == job'[q]
  <2>1. /\ IsJob(j)
        /\ j.pc \in Flowing \cup Closing \cup {"start", "baseline", "done"}
        /\ j.kind \in {"hybrid", "baseline", "comparison", "all"} /\ j.bits \in Int
        /\ j.pc = "report" => j.probed \in Versions
        /\ j.pc = "candidate" => j.made.winner = "unresolved"
        /\ j.pc = "done" => j.clean
    BY <1>2 DEF Runs
  <2>2. j.pc = "parity" => Clocked'
    BY <1>2 DEF Runs, Clocked
  <2>3. j.pc = "hybrid" => j.made.is = "there" /\ HybridOf(job[q].made)'
    BY <1>2 DEF Runs, HybridOf, Measure, Replayed, Edges, Versions, Garbled, After
  <2>4. j.pc \in {"comparison", "candidate"} => Compared(job[q].made)'
    BY <1>2 DEF Runs, Compared, HybridOf, BaselineOf, Measure, Replayed, Edges, Versions, Garbled, After, Sides
  <2>5. Runs(job[q])'
    BY <2>1, <2>2, <2>3, <2>4 DEF Runs, IsJob, Flowing, Closing, Versions
  <2>. QED
    BY <2>5 DEF Job
<1>. QED
  BY <1>1, <1>2 DEF Job

\* What an undisturbed job promises reads the design, the files and the sources
\* only: said of their values after the step, it is said of the state after it.
LEMMA SameUndisturbed ==
  ASSUME design' = design, NEW q, Undisturbed(job'[q], files', cpp')
  PROVE  Undisturbed(job[q], files, cpp)'
<1>1. Flows(job'[q], files', cpp') => Flows(job[q], files, cpp)'
  BY DEF Flows, Edges, Clocked, Garbled, After
<1>2. Closes(job'[q], files', cpp') => Closes(job[q], files, cpp)'
  BY DEF Closes, Succeeds, HybridNow, BaselineNow, ComparedNow
<1>. QED
  BY <1>1, <1>2 DEF Undisturbed

\* A step of one process preserves the invariant if what it writes fits and its
\* own job goes on well: of the others nothing is claimed any more.
LEMMA StepKeeps ==
  ASSUME Inv, NEW p \in Processes, NEW j, Becomes(p, j),
         design' = design, cpp' = cpp, started' \in 0..MaxJobs,
         Files(files'), Job(j), Undisturbed(j, files', cpp)
  PROVE  Inv'
<1>1. \A q \in Processes : Job(job'[q]) /\ Undisturbed(job'[q], files', cpp')
  BY DisturbedRuns DEF Inv, Becomes
<1>2. Files(files)'
  BY SameFiles
<1>3. \A q \in Processes : Job(job[q])'
  BY <1>1, SameJob
<1>4. \A q \in Processes : Undisturbed(job[q], files, cpp)'
  BY <1>1, SameUndisturbed
<1>. QED
  BY <1>2, <1>3, <1>4 DEF Inv, Versions

\* An ended job that is remembered has succeeded.
LEMMA EndsWell ==
  ASSUME NEW i, Runs(i), NEW rc, NEW fs, NEW v, i.clean /\ rc = 0 => Succeeds(i, fs, v)
  PROVE  Job(Ends(i, rc)) /\ Undisturbed(Ends(i, rc), fs, v)
<1>1. CASE Ends(i, rc) = Idle
  BY <1>1 DEF Job, Undisturbed
<1>2. CASE i.clean /\ rc = 0
  <2>. DEFINE j == Ends(i, rc)
  <2>1. j = [NewJob(i.kind, i.bits) EXCEPT !.pc = "done"]
    BY <1>2 DEF Ends
  <2>2. j = [pc |-> "done", kind |-> i.kind, bits |-> i.bits, rc |-> 0, clean |-> TRUE,
             flow |-> FALSE, parity |-> FALSE, probed |-> 0, layout |-> 0,
             last |-> Garbled, blob |-> Garbled, made |-> Missing]
    BY <2>1 DEF NewJob
  <2>. HIDE DEF j
  <2>3. Runs(j)
    BY <2>2 DEF Runs, IsJob
  <2>4. Succeeds(j, fs, v)
    BY <1>2, <2>2 DEF Succeeds, HybridNow, BaselineNow
  <2>5. Undisturbed(j, fs, v)
    BY <2>2, <2>4 DEF Undisturbed, Flows, Closes, Flowing, Closing
  <2>. QED
    BY <2>3, <2>5 DEF j, Job
<1>. QED
  BY <1>1, <1>2 DEF Ends

LEMMA RunsThere ==
  ASSUME Inv, NEW p \in Processes, job[p].pc # "idle"
  PROVE  Runs(job[p]) /\ (job[p].clean => Flows(job[p], files, cpp) /\ Closes(job[p], files, cpp))
<1>1. job[p] # Idle
  BY DEF Idle
<1>. QED
  BY <1>1 DEF Inv, Job, Undisturbed

\* A rebuild of the sources preserves it: every running job is disturbed by it.
LEMMA RebuildKeeps == ASSUME Inv, Rebuild PROVE Inv'
<1>1. cpp' \in Versions
  BY BoundsAssumption DEF Inv, Rebuild, Versions
<1>2. \A q \in Processes : Job(job'[q]) /\ Undisturbed(job'[q], files', cpp')
  BY DisturbedRuns DEF Inv, Rebuild
<1>3. Files(files)'
  BY SameFiles DEF Inv, Rebuild
<1>4. \A q \in Processes : Job(job[q])'
  BY <1>2, SameJob DEF Rebuild
<1>5. \A q \in Processes : Undisturbed(job[q], files, cpp)'
  BY <1>2, SameUndisturbed DEF Rebuild
<1>. QED
  BY <1>1, <1>3, <1>4, <1>5 DEF Inv, Rebuild, Versions

-----------------------------------------------------------------------------
(* The fields of a job. *)

\* j is the job i at pc, with these for what the steps of a flow set.
Sets(j, i, pc, rc, flow, parity, probed, made) ==
  /\ IsJob(j) /\ j.pc = pc /\ j.kind = i.kind /\ j.bits = i.bits /\ j.clean = i.clean
  /\ j.rc = rc /\ j.flow = flow /\ j.parity = parity /\ j.probed = probed /\ j.made = made
Moved(j, i, pc) == Sets(j, i, pc, i.rc, i.flow, i.parity, i.probed, i.made)

LEMMA PcSet ==
  ASSUME NEW i, IsJob(i), NEW pc
  PROVE  Moved([i EXCEPT !.pc = pc], i, pc)
<1>1. PICK j : j = [i EXCEPT !.pc = pc]
  OBVIOUS
<1>2. Sets(j, i, pc, i.rc, i.flow, i.parity, i.probed, i.made)
  BY <1>1 DEF IsJob, Sets
<1>. QED
  BY <1>1, <1>2 DEF Moved

LEMMA ProbedSet ==
  ASSUME NEW i, IsJob(i), NEW pc, NEW x
  PROVE  Sets([i EXCEPT !.pc = pc, !.probed = x], i, pc, i.rc, i.flow, i.parity, x, i.made)
<1>1. PICK k : k = [i EXCEPT !.pc = pc]
  OBVIOUS
<1>2. PICK j : j = [k EXCEPT !.probed = x]
  OBVIOUS
<1>3. Moved(k, i, pc)
  BY <1>1, PcSet
<1>4. Sets(j, i, pc, i.rc, i.flow, i.parity, x, i.made)
  BY <1>2, <1>3 DEF IsJob, Moved, Sets
<1>. QED
  BY <1>1, <1>2, <1>4

LEMMA LastSet ==
  ASSUME NEW i, IsJob(i), NEW pc, NEW x
  PROVE  Moved([i EXCEPT !.pc = pc, !.last = x], i, pc)
<1>1. PICK k : k = [i EXCEPT !.pc = pc]
  OBVIOUS
<1>2. PICK j : j = [k EXCEPT !.last = x]
  OBVIOUS
<1>3. Moved(k, i, pc)
  BY <1>1, PcSet
<1>4. Moved(j, i, pc)
  BY <1>2, <1>3 DEF IsJob, Moved, Sets
<1>. QED
  BY <1>1, <1>2, <1>4

LEMMA BlobSet ==
  ASSUME NEW i, IsJob(i), NEW pc, NEW x, NEW y
  PROVE  Moved([i EXCEPT !.pc = pc, !.blob = x, !.layout = y], i, pc)
<1>1. PICK k : k = [i EXCEPT !.pc = pc]
  OBVIOUS
<1>2. PICK l : l = [k EXCEPT !.blob = x]
  OBVIOUS
<1>3. PICK j : j = [l EXCEPT !.layout = y]
  OBVIOUS
<1>4. Moved(k, i, pc)
  BY <1>1, PcSet
<1>5. Moved(l, i, pc)
  BY <1>2, <1>4 DEF IsJob, Moved, Sets
<1>6. Moved(j, i, pc)
  BY <1>3, <1>5 DEF IsJob, Moved, Sets
<1>. QED
  BY <1>1, <1>2, <1>3, <1>6

LEMMA FlowSet ==
  ASSUME NEW i, IsJob(i), NEW pc, NEW x
  PROVE  Sets([i EXCEPT !.pc = pc, !.flow = x], i, pc, i.rc, x, i.parity, i.probed, i.made)
<1>1. PICK k : k = [i EXCEPT !.pc = pc]
  OBVIOUS
<1>2. PICK j : j = [k EXCEPT !.flow = x]
  OBVIOUS
<1>3. Moved(k, i, pc)
  BY <1>1, PcSet
<1>4. Sets(j, i, pc, i.rc, x, i.parity, i.probed, i.made)
  BY <1>2, <1>3 DEF IsJob, Moved, Sets
<1>. QED
  BY <1>1, <1>2, <1>4

LEMMA ParitySet ==
  ASSUME NEW i, IsJob(i), NEW pc, NEW x
  PROVE  Sets([i EXCEPT !.pc = pc, !.parity = x], i, pc, i.rc, i.flow, x, i.probed, i.made)
<1>1. PICK k : k = [i EXCEPT !.pc = pc]
  OBVIOUS
<1>2. PICK j : j = [k EXCEPT !.parity = x]
  OBVIOUS
<1>3. Moved(k, i, pc)
  BY <1>1, PcSet
<1>4. Sets(j, i, pc, i.rc, i.flow, x, i.probed, i.made)
  BY <1>2, <1>3 DEF IsJob, Moved, Sets
<1>. QED
  BY <1>1, <1>2, <1>4

LEMMA MadeSet ==
  ASSUME NEW i, IsJob(i), NEW pc, NEW x
  PROVE  Sets([i EXCEPT !.pc = pc, !.made = x], i, pc, i.rc, i.flow, i.parity, i.probed, x)
<1>1. PICK k : k = [i EXCEPT !.pc = pc]
  OBVIOUS
<1>2. PICK j : j = [k EXCEPT !.made = x]
  OBVIOUS
<1>3. Moved(k, i, pc)
  BY <1>1, PcSet
<1>4. Sets(j, i, pc, i.rc, i.flow, i.parity, i.probed, x)
  BY <1>2, <1>3 DEF IsJob, Moved, Sets
<1>. QED
  BY <1>1, <1>2, <1>4

LEMMA RcSet ==
  ASSUME NEW i, IsJob(i), NEW pc, NEW x
  PROVE  Sets([i EXCEPT !.pc = pc, !.rc = x], i, pc, x, i.flow, i.parity, i.probed, i.made)
<1>1. PICK k : k = [i EXCEPT !.pc = pc]
  OBVIOUS
<1>2. PICK j : j = [k EXCEPT !.rc = x]
  OBVIOUS
<1>3. Moved(k, i, pc)
  BY <1>1, PcSet
<1>4. Sets(j, i, pc, x, i.flow, i.parity, i.probed, i.made)
  BY <1>2, <1>3 DEF IsJob, Moved, Sets
<1>. QED
  BY <1>1, <1>2, <1>4

Begun(j, kind, bits) ==
  IsJob(j) /\ j.pc = "start" /\ j.kind = kind /\ j.bits = bits /\ ~j.flow /\ ~j.parity

LEMMA CleanSet ==
  ASSUME NEW kind, NEW bits, NEW clean
  PROVE  Begun([NewJob(kind, bits) EXCEPT !.clean = clean], kind, bits)
<1>1. PICK i : i = NewJob(kind, bits)
  OBVIOUS
<1>2. PICK j : j = [i EXCEPT !.clean = clean]
  OBVIOUS
<1>3. /\ IsJob(i) /\ i.pc = "start" /\ i.kind = kind /\ i.bits = bits
      /\ i.flow = FALSE /\ i.parity = FALSE
  BY <1>1 DEF IsJob, NewJob
<1>4. /\ IsJob(j) /\ j.pc = "start" /\ j.kind = kind /\ j.bits = bits
      /\ j.flow = FALSE /\ j.parity = FALSE
  BY <1>2, <1>3 DEF IsJob
<1>5. Begun(j, kind, bits)
  BY <1>4 DEF Begun
<1>. QED
  BY <1>1, <1>2, <1>5


-----------------------------------------------------------------------------
(* The steps of the flow. *)

LEMMA StartKeeps == ASSUME Inv, NEW p \in Processes, Start(p) PROVE Inv'
<1>1. PICK kind \in Kinds, bits \in Asked, clean \in BOOLEAN :
        Becomes(p, [NewJob(kind, bits) EXCEPT !.clean = clean])
  BY DEF Start
<1>2. PICK j : j = [NewJob(kind, bits) EXCEPT !.clean = clean]
  OBVIOUS
<1>3. Begun(j, kind, bits)
  BY <1>2, CleanSet
<1>4. bits \in Int
  BY DesignIs DEF Asked, IsDesign
<1>5. kind \in {"hybrid", "baseline", "comparison", "all"}
  BY DEF Kinds
<1>6. Job(j) /\ Undisturbed(j, files', cpp)
  BY <1>3, <1>4, <1>5 DEF Begun, Job, Runs, Undisturbed, Flows, Closes, Flowing, Closing
<1>7. started' \in 0..MaxJobs
  BY BoundsAssumption DEF Start, Inv
<1>. QED
  BY <1>1, <1>2, <1>6, <1>7, StepKeeps DEF Start, Inv

LEMMA StageKeeps == ASSUME Inv, NEW p \in Processes, Stage(p) PROVE Inv'
<1>. DEFINE i == job[p]
<1>1. i.pc = "start" /\ Runs(i) /\ (i.clean => Flows(i, files, cpp) /\ Closes(i, files, cpp))
  BY RunsThere DEF Stage
<1>2. CASE Moves(p, FirstStage(i.kind))
  <2>1. PICK j : j = [i EXCEPT !.pc = FirstStage(i.kind)]
    OBVIOUS
  <2>2. Moved(j, i, FirstStage(i.kind))
    BY <1>1, <2>1, PcSet DEF Runs
  <2>3. /\ i.kind \in {"hybrid", "all"} => j.pc = "state"
        /\ i.kind = "baseline" => j.pc = "baseline"
        /\ i.kind = "comparison" => j.pc = "compare"
    BY <2>2 DEF FirstStage, Moved, Sets
  <2>4. Job(j)
    BY <1>1, <2>2, <2>3 DEF Moved, Sets, Job, Runs, Flowing, Closing
  <2>5. Undisturbed(j, files, cpp)
    BY <1>1, <2>2, <2>3 DEF Moved, Sets, Undisturbed, Runs, Flows, Closes, Flowing, Closing
  <2>. QED
    BY <1>2, <2>1, <2>4, <2>5, StepKeeps DEF Moves, Stage, Same, Inv
<1>3. CASE Becomes(p, Ends(i, 1))
  <2>1. Job(Ends(i, 1)) /\ Undisturbed(Ends(i, 1), files, cpp)
    BY <1>1, EndsWell
  <2>. QED
    BY <1>3, <2>1, StepKeeps DEF Stage, Same, Inv
<1>. QED
  BY <1>2, <1>3 DEF Stage

LEMMA FlowFailsKeeps == ASSUME Inv, NEW p \in Processes, FlowFails(p) PROVE Inv'
<1>. DEFINE i == job[p]
<1>1. /\ i.pc \in {"state", "report", "edges", "gpu", "flow"}
      /\ Runs(i) /\ (i.clean => Flows(i, files, cpp) /\ Closes(i, files, cpp))
  BY RunsThere DEF FlowFails
<1>2. PICK j : j = [i EXCEPT !.pc = AfterFlow]
  OBVIOUS
<1>3. Moved(j, i, AfterFlow)
  BY <1>1, <1>2, PcSet DEF Runs
<1>4. j.pc = IF Clocked THEN "parity" ELSE "readback"
  BY <1>3 DEF AfterFlow, Moved, Sets
<1>5. Job(j)
  BY <1>1, <1>3, <1>4 DEF Moved, Sets, Job, Runs, Flowing, Closing
<1>6. Undisturbed(j, files, cpp)
  BY <1>1, <1>3, <1>4 DEF Moved, Sets, Undisturbed, Flows, Closes, Flowing, Closing
<1>. QED
  BY <1>2, <1>5, <1>6, StepKeeps DEF Moves, FlowFails, Same, Inv

LEMMA HostProbeKeeps == ASSUME Inv, NEW p \in Processes, HostProbe(p) PROVE Inv'
<1>. DEFINE i == job[p]
<1>1. /\ i.pc = "state"
      /\ Runs(i) /\ (i.clean => Flows(i, files, cpp) /\ Closes(i, files, cpp))
  BY RunsThere DEF HostProbe
<1>2. PICK j : j = [i EXCEPT !.pc = "report", !.probed = cpp]
  OBVIOUS
<1>3. Sets(j, i, "report", i.rc, i.flow, i.parity, cpp, i.made)
  BY <1>1, <1>2, ProbedSet DEF Runs
<1>4. PICK c : c = [is |-> "there", out |-> After(cpp, 0)]
  OBVIOUS
<1>5. c.is = "there" /\ c.out = After(cpp, 0) /\ Fits("state", c)
  BY <1>4 DEF Fits, Shown, After, Inv
<1>6. /\ Files(files') /\ files'["state"] = c
      /\ \A g \in FileNames \ {"state"} : files'[g] = files[g]
  BY <1>4, <1>5, WriteFits DEF Inv, FileNames, HostProbe
<1>7. Job(j)
  BY <1>1, <1>3 DEF Sets, Job, Runs, Inv, Flowing, Closing
<1>8. Undisturbed(j, files', cpp)
  BY <1>1, <1>3, <1>5, <1>6 DEF Sets, Undisturbed, Flows, Closes, Flowing, Closing, FileNames
<1>. QED
  BY <1>2, <1>6, <1>7, <1>8, StepKeeps DEF HostProbe, Same, Inv

LEMMA HostReportKeeps == ASSUME Inv, NEW p \in Processes, HostReport(p) PROVE Inv'
<1>. DEFINE i == job[p]
            pc == IF Clocked THEN "edges" ELSE "gpu"
<1>1. /\ i.pc = "report"
      /\ Runs(i) /\ (i.clean => Flows(i, files, cpp) /\ Closes(i, files, cpp))
  BY RunsThere DEF HostReport
<1>2. PICK j : j = [i EXCEPT !.pc = pc]
  OBVIOUS
<1>3. Moved(j, i, pc)
  BY <1>1, <1>2, PcSet DEF Runs
<1>4. PICK c : c = [is |-> "there", out |-> After(i.probed, 0)]
  OBVIOUS
<1>5. c.is = "there" /\ Fits("report", c)
  BY <1>1, <1>4 DEF Fits, Shown, After, Inv, Runs
<1>6. /\ Files(files') /\ files'["report"] = c
      /\ \A g \in FileNames \ {"report"} : files'[g] = files[g]
  BY <1>4, <1>5, WriteFits DEF Inv, FileNames, HostReport
<1>7. Job(j)
  BY <1>1, <1>3 DEF Moved, Sets, Job, Runs, Inv, Flowing, Closing
<1>8. Undisturbed(j, files', cpp)
  BY <1>1, <1>3, <1>5, <1>6 DEF Moved, Sets, Undisturbed, Flows, Closes, Flowing, Closing, FileNames
<1>. QED
  BY <1>2, <1>6, <1>7, <1>8, StepKeeps DEF Moves, HostReport, Same, Inv

LEMMA EdgeProbeKeeps == ASSUME Inv, NEW p \in Processes, EdgeProbe(p) PROVE Inv'
<1>. DEFINE i == job[p]
<1>1. /\ i.pc = "edges"
      /\ Runs(i) /\ (i.clean => Flows(i, files, cpp) /\ Closes(i, files, cpp))
  BY RunsThere DEF EdgeProbe
<1>2. PICK j : j = [i EXCEPT !.pc = "gpu", !.last = After(cpp, design.hybrid.run.edges)]
  OBVIOUS
<1>3. Moved(j, i, "gpu")
  BY <1>1, <1>2, LastSet DEF Runs
<1>4. Job(j)
  BY <1>1, <1>3 DEF Moved, Sets, Job, Runs, Flowing, Closing
<1>5. Undisturbed(j, files, cpp)
  BY <1>1, <1>3 DEF Moved, Sets, Undisturbed, Flows, Closes, Flowing, Closing
<1>. QED
  BY <1>2, <1>4, <1>5, StepKeeps DEF EdgeProbe, Same, Inv


LEMMA ReplayKeeps == ASSUME Inv, NEW p \in Processes, Replay(p) PROVE Inv'
<1>. DEFINE i == job[p]
            layout == LayoutRead("before", 0)
<1>1. /\ i.pc = "gpu"
      /\ Runs(i) /\ (i.clean => Flows(i, files, cpp) /\ Closes(i, files, cpp))
  BY RunsThere DEF Replay
<1>2. PICK out \in Outcomes(files["state"].out) :
        /\ Writes("final", [is |-> "there", out |-> out])
        /\ Becomes(p, [i EXCEPT !.pc = "flow", !.blob = out, !.layout = layout])
  BY DEF Replay
<1>3. PICK j : j = [i EXCEPT !.pc = "flow", !.blob = out, !.layout = layout]
  OBVIOUS
<1>4. Moved(j, i, "flow")
  BY <1>1, <1>3, BlobSet DEF Runs
<1>5. PICK c : c = [is |-> "there", out |-> out]
  OBVIOUS
<1>6. files["state"].out \in Shown
  BY DEF Replay, There, Inv, Files, Fits, FileNames
<1>7. out \in Replayed /\ (files["state"].out = After(cpp, 0) => out \in {After(cpp, Edges), Garbled})
  BY <1>6 DEF Outcomes, Shown, Replayed, Edges, After
<1>8. c.is = "there" /\ c.out = out /\ Fits("final", c)
  BY <1>5, <1>7 DEF Fits
<1>9. /\ Files(files') /\ files'["final"] = c
      /\ \A g \in FileNames \ {"final"} : files'[g] = files[g]
  BY <1>2, <1>5, <1>8, WriteFits DEF Inv, FileNames
<1>10. Job(j)
  BY <1>1, <1>4 DEF Moved, Sets, Job, Runs, Inv, Flowing, Closing
<1>11. Undisturbed(j, files', cpp)
  BY <1>1, <1>4, <1>7, <1>8, <1>9 DEF Moved, Sets, Undisturbed, Flows, Closes, Flowing, Closing, FileNames
<1>. QED
  BY <1>2, <1>3, <1>9, <1>10, <1>11, StepKeeps DEF Replay, Same, Inv

LEMMA SummarizeKeeps == ASSUME Inv, NEW p \in Processes, Summarize(p) PROVE Inv'
<1>. DEFINE i == job[p]
            layout == LayoutRead("after", i.layout)
            out == Decode(files["final"].out, layout)
<1>1. /\ i.pc = "flow"
      /\ Runs(i) /\ (i.clean => Flows(i, files, cpp) /\ Closes(i, files, cpp))
  BY RunsThere DEF Summarize
<1>2. PICK j : j = [i EXCEPT !.pc = AfterFlow, !.flow = TRUE]
  OBVIOUS
<1>3. Sets(j, i, AfterFlow, i.rc, TRUE, i.parity, i.probed, i.made)
  BY <1>1, <1>2, FlowSet DEF Runs
<1>4. j.pc = IF Clocked THEN "parity" ELSE "readback"
  BY <1>3 DEF AfterFlow, Sets
<1>5. PICK c : c = [is |-> "there", out |-> out, last |-> i.last,
                    internal |-> Clocked /\ i.blob = i.last]
  OBVIOUS
<1>6. files["final"].out \in Replayed
  BY DEF Summarize, There, Inv, Files, Fits, FileNames
<1>7. out \in {files["final"].out, Garbled}
  BY DEF Decode
<1>8. c.is = "there" /\ c.out = out /\ Fits("flow", c)
  BY <1>5, <1>6, <1>7 DEF Fits, Replayed
<1>. HIDE DEF out
<1>9. /\ Files(files') /\ files'["flow"] = c
      /\ \A g \in FileNames \ {"flow"} : files'[g] = files[g]
  BY <1>5, <1>8, WriteFits DEF Inv, FileNames, Summarize, out
<1>10. Job(j)
  BY <1>1, <1>3, <1>4 DEF Sets, Job, Runs, Inv, Flowing, Closing
<1>11. Undisturbed(j, files', cpp)
  BY <1>1, <1>3, <1>4, <1>7, <1>8, <1>9 DEF Sets, Undisturbed, Flows, Closes, Flowing, Closing, FileNames
<1>. QED
  BY <1>2, <1>9, <1>10, <1>11, StepKeeps DEF Summarize, Same, Inv

LEMMA ParityKeeps == ASSUME Inv, NEW p \in Processes, Parity(p) PROVE Inv'
<1>. DEFINE i == job[p]
<1>1. /\ i.pc = "parity" /\ Clocked
      /\ Runs(i) /\ (i.clean => Flows(i, files, cpp) /\ Closes(i, files, cpp))
  BY RunsThere DEF Parity, Runs
<1>2. ASSUME NEW internal, Writes("parity", [is |-> "there", internal |-> internal]),
             Becomes(p, [i EXCEPT !.pc = "readback", !.parity = TRUE])
      PROVE  Inv'
  <2>1. PICK j : j = [i EXCEPT !.pc = "readback", !.parity = TRUE]
    OBVIOUS
  <2>2. Sets(j, i, "readback", i.rc, i.flow, TRUE, i.probed, i.made)
    BY <1>1, <2>1, ParitySet DEF Runs
  <2>3. PICK c : c = [is |-> "there", internal |-> internal]
    OBVIOUS
  <2>4. c.is = "there" /\ Fits("parity", c)
    BY <1>1, <2>3 DEF Fits
  <2>5. /\ Files(files') /\ files'["parity"] = c
        /\ \A g \in FileNames \ {"parity"} : files'[g] = files[g]
    BY <1>2, <2>3, <2>4, WriteFits DEF Inv, FileNames
  <2>6. Job(j)
    BY <1>1, <2>2 DEF Sets, Job, Runs, Flowing, Closing
  <2>7. Undisturbed(j, files', cpp)
    BY <1>1, <2>2, <2>4, <2>5 DEF Sets, Undisturbed, Flows, Closes, Flowing, Closing, FileNames
  <2>. QED
    BY <1>2, <2>1, <2>5, <2>6, <2>7, StepKeeps DEF Parity, Same, Inv
<1>3. CASE UNCHANGED files /\ Moves(p, "readback")
  <2>1. PICK j : j = [i EXCEPT !.pc = "readback"]
    OBVIOUS
  <2>2. Moved(j, i, "readback")
    BY <1>1, <2>1, PcSet DEF Runs
  <2>3. Job(j)
    BY <1>1, <2>2 DEF Moved, Sets, Job, Runs, Flowing, Closing
  <2>4. Undisturbed(j, files, cpp)
    BY <1>1, <2>2 DEF Moved, Sets, Undisturbed, Flows, Closes, Flowing, Closing
  <2>. QED
    BY <1>3, <2>1, <2>3, <2>4, StepKeeps DEF Moves, Parity, Same, Inv
<1>. QED
  BY <1>2, <1>3 DEF Parity

-----------------------------------------------------------------------------
(* The measures. *)

\* What is made of the files that were read back.
Makes(m, i, ok, out, passes) ==
  /\ m.is = "there" /\ Measure(m) /\ m.ok = ok /\ m.bits = i.bits /\ m.out = out
  /\ m.passes = passes /\ (m.satisfied => ok /\ passes)

LEMMA MadeMeasures ==
  ASSUME Inv, NEW i, Runs(i), NEW out \in Replayed, NEW hits \in Hits(out), NEW passes \in BOOLEAN
  PROVE  Makes(Artifact(i, out, hits, passes), i, TRUE, out, passes)
<1>1. hits \in Int
  BY DesignIs DEF Hits, IsDesign
<1>2. i.bits \in Int
  BY DEF Runs
<1>3. PICK m : m = Artifact(i, out, hits, passes)
  OBVIOUS
<1>4. m.is = "there" /\ m.bits = i.bits /\ m.out = out /\ m.hits = hits
  BY <1>3 DEF Artifact
<1>5. m.ok = TRUE /\ m.passes = passes
  BY <1>3, Zenon DEF Artifact
<1>6. m.satisfied = (passes /\ hits >= i.bits)
  BY <1>3, Zenon DEF Artifact
<1>7. Measure(m) /\ (m.satisfied => passes)
  BY <1>1, <1>2, <1>4, <1>5, <1>6 DEF Measure
<1>8. Makes(m, i, TRUE, out, passes)
  BY <1>4, <1>5, <1>7 DEF Makes
<1>. QED
  BY <1>3, <1>8

LEMMA FailureMeasures ==
  ASSUME Inv, NEW i, Runs(i), NEW passes \in BOOLEAN
  PROVE  Makes(FailedArtifact(i, passes), i, FALSE, Garbled, passes)
<1>1. i.bits \in Int /\ Garbled \in Replayed
  BY DEF Runs, Replayed
<1>2. PICK m : m = FailedArtifact(i, passes)
  OBVIOUS
<1>3. m.is = "there" /\ m.bits = i.bits /\ m.out = Garbled /\ m.hits = 0
  BY <1>2 DEF FailedArtifact
<1>4. m.ok = FALSE /\ m.passes = passes /\ m.satisfied = FALSE
  BY <1>2, Zenon DEF FailedArtifact
<1>5. Makes(m, i, FALSE, Garbled, passes)
  BY <1>1, <1>3, <1>4 DEF Makes, Measure
<1>. QED
  BY <1>2, <1>5

LEMMA GateIsBoolean == ASSUME Inv, NEW i PROVE GatePasses(i) \in BOOLEAN
<1>1. design.hybrid.gate \in {"replay", "edges", "none"}
  BY DesignIs DEF IsDesign
<1>2. CASE design.hybrid.gate = "replay"
  BY <1>2 DEF GatePasses
<1>3. CASE design.hybrid.gate = "edges"
  BY <1>3 DEF GatePasses
<1>4. CASE design.hybrid.gate = "none"
  BY <1>4 DEF GatePasses
<1>. QED
  BY <1>1, <1>2, <1>3, <1>4

\* A replay that passes the gate shows what a host run shows.
LEMMA GateBacks ==
  ASSUME Inv, NEW i, StatusOk(i), GatePasses(i), design.hybrid.gate # "none"
  PROVE  files["flow"].out.of # 0
<1>1. IsDesign(design)
  BY DesignIs
<1>2. /\ files["flow"].is = "there" /\ files["flow"].out \in Replayed
      /\ design.hybrid.gate = "edges" => files["report"].is = "there"
  BY <1>1 DEF StatusOk, There, Inv, Files, Fits, FileNames, IsDesign
<1>3. CASE design.hybrid.gate = "replay"
  <2>1. files["flow"].out.of \in Sound
    BY <1>3 DEF GatePasses
  <2>. QED
    BY <2>1, SoundAssumption, BoundsAssumption
<1>4. CASE design.hybrid.gate = "edges"
  <2>1. files["flow"].out.edges > files["report"].out.edges
    BY <1>4 DEF GatePasses
  <2>2. files["report"].out.edges = 0
    BY <1>2, <1>4 DEF Inv, Files, Fits, FileNames, Shown
  <2>3. files["flow"].out # Garbled
    BY <2>1, <2>2 DEF Garbled, After
  <2>4. files["flow"].out.of \in Versions
    BY <1>2, <2>3 DEF Replayed
  <2>. QED
    BY <2>4, BoundsAssumption DEF Versions
<1>. QED
  BY <1>1, <1>3, <1>4 DEF IsDesign

LEMMA ReadBackKeeps == ASSUME Inv, NEW p \in Processes, ReadBack(p) PROVE Inv'
<1>. DEFINE i == job[p]
            out == files["flow"].out
<1>1. /\ i.pc = "readback"
      /\ Runs(i) /\ (i.clean => Flows(i, files, cpp) /\ Closes(i, files, cpp))
  BY RunsThere DEF ReadBack
<1>2. CASE Becomes(p, Ends(i, 1))
  <2>1. Job(Ends(i, 1)) /\ Undisturbed(Ends(i, 1), files, cpp)
    BY <1>1, EndsWell
  <2>. QED
    BY <1>2, <2>1, StepKeeps DEF ReadBack, Same, Inv
<1>3. ASSUME NEW m, Becomes(p, [i EXCEPT !.pc = "hybrid", !.made = m]), m.is = "there", HybridOf(m),
             m.bits = i.bits,
             i.clean => /\ m.ok <=> i.flow /\ (Clocked => i.parity)
                        /\ m.out.of \in {0, cpp}
      PROVE  Inv'
  <2>1. PICK j : j = [i EXCEPT !.pc = "hybrid", !.made = m]
    OBVIOUS
  <2>2. Sets(j, i, "hybrid", i.rc, i.flow, i.parity, i.probed, m)
    BY <1>1, <2>1, MadeSet DEF Runs
  <2>3. Job(j)
    BY <1>1, <1>3, <2>2 DEF Sets, Job, Runs, Flowing, Closing
  <2>4. Undisturbed(j, files, cpp)
    BY <1>1, <1>3, <2>2 DEF Sets, Undisturbed, Flows, Closes, Flowing, Closing
  <2>. QED
    BY <1>3, <2>1, <2>3, <2>4, StepKeeps DEF ReadBack, Same, Inv
<1>4. ASSUME StatusOk(i), NEW hits \in Hits(out),
             Becomes(p, [i EXCEPT !.pc = "hybrid", !.made = Artifact(i, out, hits, GatePasses(i))])
      PROVE  Inv'
  <2>1. out \in Replayed
    BY <1>4 DEF StatusOk, There, Inv, Files, Fits, FileNames
  <2>2. GatePasses(i) \in BOOLEAN
    BY GateIsBoolean
  <2>3. PICK m : m = Artifact(i, out, hits, GatePasses(i))
    OBVIOUS
  <2>4. Makes(m, i, TRUE, out, GatePasses(i))
    BY <1>1, <2>1, <2>2, <2>3, MadeMeasures
  <2>5. HybridOf(m)
    BY <1>4, <2>4, GateBacks DEF HybridOf, Makes
  <2>6. i.clean => /\ m.ok <=> i.flow /\ (Clocked => i.parity)
                   /\ m.out.of \in {0, cpp}
    BY <1>1, <1>4, <2>4 DEF Makes, StatusOk, Flows, After, Garbled
  <2>. QED
    BY <1>3, <1>4, <2>3, <2>4, <2>5, <2>6 DEF Makes
<1>5. ASSUME ~StatusOk(i), Becomes(p, [i EXCEPT !.pc = "hybrid", !.made = FailedArtifact(i, FALSE)])
      PROVE  Inv'
  <2>1. PICK m : m = FailedArtifact(i, FALSE)
    OBVIOUS
  <2>2. Makes(m, i, FALSE, Garbled, FALSE)
    BY <1>1, <2>1, FailureMeasures
  <2>3. HybridOf(m) /\ m.out.of \in {0, cpp}
    BY <2>2 DEF Makes, HybridOf, Garbled, After
  <2>4. i.clean => (m.ok <=> i.flow /\ (Clocked => i.parity))
    BY <1>1, <1>5, <2>2 DEF Makes, StatusOk, Flows, There
  <2>. QED
    BY <1>3, <1>5, <2>1, <2>2, <2>3, <2>4 DEF Makes
<1>. QED
  BY <1>2, <1>4, <1>5 DEF ReadBack


LEMMA WriteHybridKeeps == ASSUME Inv, NEW p \in Processes, WriteHybrid(p) PROVE Inv'
<1>. DEFINE i == job[p]
<1>1. /\ i.pc = "hybrid" /\ i.made.is = "there" /\ HybridOf(i.made)
      /\ Runs(i) /\ (i.clean => Flows(i, files, cpp) /\ Closes(i, files, cpp))
  BY RunsThere DEF WriteHybrid, Runs
<1>2. /\ Files(files') /\ files'["hybrid"] = i.made
      /\ \A g \in FileNames \ {"hybrid"} : files'[g] = files[g]
  <2>1. Fits("hybrid", i.made)
    BY <1>1 DEF Fits
  <2>. QED
    BY <2>1, WriteFits DEF Inv, FileNames, WriteHybrid
<1>3. i.clean => /\ i.kind \in {"hybrid", "all"} /\ i.made.bits = i.bits /\ i.made.out.of \in {0, cpp}
                 /\ i.made.ok <=> i.flow /\ (Clocked => i.parity)
  BY <1>1 DEF Flows, Flowing
<1>4. ASSUME NEW rc, Becomes(p, [i EXCEPT !.pc = "baseline", !.rc = rc]),
             i.kind = "all", rc = IF i.made.ok THEN 0 ELSE 1
      PROVE  Inv'
  <2>1. PICK j : j = [i EXCEPT !.pc = "baseline", !.rc = rc]
    OBVIOUS
  <2>2. Sets(j, i, "baseline", rc, i.flow, i.parity, i.probed, i.made)
    BY <1>1, <2>1, RcSet DEF Runs
  <2>3. Job(j)
    BY <1>1, <2>2 DEF Sets, Job, Runs, Flowing, Closing
  <2>4. j.clean => Flows(j, files', cpp)
    BY <1>1, <1>2, <2>2 DEF Sets, Flows, Flowing, FileNames
  <2>5. j.clean /\ j.rc = 0 => HybridNow(j, files', cpp)
    BY <1>1, <1>2, <1>3, <1>4, <2>2 DEF Sets, HybridNow
  <2>6. Undisturbed(j, files', cpp)
    BY <1>4, <2>2, <2>4, <2>5 DEF Sets, Undisturbed, Closes, Closing
  <2>. QED
    BY <1>2, <1>4, <2>1, <2>3, <2>6, StepKeeps DEF WriteHybrid, Same, Inv
<1>5. ASSUME i.kind # "all", Becomes(p, Ends(i, IF HybridExit(i) THEN 0 ELSE 1))
      PROVE  Inv'
  <2>1. i.clean /\ HybridExit(i) => i.made.ok
    BY <1>3 DEF HybridExit
  <2>2. i.clean /\ HybridExit(i) => Succeeds(i, files', cpp)
    BY <1>1, <1>2, <1>3, <1>5, <2>1 DEF Succeeds, HybridNow
  <2>3. PICK rc : rc = IF HybridExit(i) THEN 0 ELSE 1
    OBVIOUS
  <2>4. Job(Ends(i, rc)) /\ Undisturbed(Ends(i, rc), files', cpp)
    BY <1>1, <2>2, <2>3, EndsWell
  <2>. QED
    BY <1>2, <1>5, <2>3, <2>4, StepKeeps DEF WriteHybrid, Same, Inv
<1>. QED
  BY <1>4, <1>5 DEF WriteHybrid

\* The baseline's measure is of the clock edges the replay is given.
BaselineMade(m, i, ok) ==
  m.is = "there" /\ BaselineOf(m) /\ m.bits = i.bits /\ (ok => m.ok /\ m.out.of = cpp)

LEMMA BaselineMeasures ==
  ASSUME Inv, NEW i, Runs(i), NEW ok \in BOOLEAN, NEW hits \in Hits(After(cpp, 0))
  PROVE  BaselineMade(IF ok THEN Artifact(i, After(cpp, design.baseline.run.edges), hits, TRUE)
                      ELSE FailedArtifact(i, TRUE), i, ok)
<1>1. design.baseline.run.edges = Edges
  BY DesignIs DEF IsDesign, Edges
<1>2. After(cpp, Edges) \in Replayed /\ hits \in Hits(After(cpp, Edges))
  BY DEF Replayed, After, Inv, Hits
<1>3. CASE ok
  <2>1. PICK m : m = Artifact(i, After(cpp, Edges), hits, TRUE)
    OBVIOUS
  <2>2. Makes(m, i, TRUE, After(cpp, Edges), TRUE)
    BY <1>2, <2>1, MadeMeasures
  <2>3. m.out.edges = Edges /\ m.out.of = cpp
    BY <2>2 DEF Makes, After
  <2>4. BaselineMade(m, i, ok)
    BY <2>2, <2>3 DEF Makes, BaselineOf, BaselineMade
  <2>. QED
    BY <1>1, <1>3, <2>1, <2>4
<1>4. CASE ~ok
  <2>1. PICK m : m = FailedArtifact(i, TRUE)
    OBVIOUS
  <2>2. Makes(m, i, FALSE, Garbled, TRUE)
    BY <2>1, FailureMeasures
  <2>3. BaselineMade(m, i, ok)
    BY <1>4, <2>2 DEF Makes, BaselineOf, BaselineMade
  <2>. QED
    BY <1>4, <2>1, <2>3
<1>. QED
  BY <1>3, <1>4

LEMMA BaselineKeeps == ASSUME Inv, NEW p \in Processes, Baseline(p) PROVE Inv'
<1>. DEFINE i == job[p]
<1>1. /\ i.pc = "baseline"
      /\ Runs(i) /\ (i.clean => Flows(i, files, cpp) /\ Closes(i, files, cpp))
  BY RunsThere DEF Baseline
<1>. DEFINE Made(ok, hits) == IF ok THEN Artifact(i, After(cpp, design.baseline.run.edges), hits, TRUE)
                              ELSE FailedArtifact(i, TRUE)
            Rc(ok) == IF ok THEN i.rc ELSE 1
<1>0. PICK ok \in BOOLEAN, hits \in Hits(After(cpp, 0)) :
        /\ Writes("baseline", Made(ok, hits))
        /\ IF i.kind = "all" THEN Becomes(p, [i EXCEPT !.pc = "compare", !.rc = Rc(ok)])
           ELSE Becomes(p, Ends(i, Rc(ok)))
  BY DEF Baseline
<1>2. PICK m, rc : /\ m = Made(ok, hits) /\ rc = Rc(ok)
                   /\ Writes("baseline", m)
                   /\ IF i.kind = "all" THEN Becomes(p, [i EXCEPT !.pc = "compare", !.rc = rc])
                      ELSE Becomes(p, Ends(i, rc))
  BY <1>0
<1>3. BaselineMade(m, i, ok)
  BY <1>1, <1>2, BaselineMeasures
<1>4. /\ Files(files') /\ files'["baseline"] = m
      /\ \A g \in FileNames \ {"baseline"} : files'[g] = files[g]
  <2>1. Fits("baseline", m)
    BY <1>3 DEF BaselineMade, Fits
  <2>. QED
    BY <1>2, <2>1, WriteFits DEF Inv, FileNames
<1>5. rc = 0 => ok /\ i.rc = 0
  BY <1>2
<1>6. rc = 0 => BaselineNow(i, files', cpp)
  BY <1>3, <1>4, <1>5 DEF BaselineMade, BaselineNow
<1>7. CASE i.kind = "all"
  <2>1. PICK j : j = [i EXCEPT !.pc = "compare", !.rc = rc]
    OBVIOUS
  <2>2. Sets(j, i, "compare", rc, i.flow, i.parity, i.probed, i.made)
    BY <1>1, <2>1, RcSet DEF Runs
  <2>3. Job(j)
    BY <1>1, <2>2 DEF Sets, Job, Runs, Flowing, Closing
  <2>4. j.clean => Flows(j, files', cpp)
    BY <1>1, <1>4, <2>2 DEF Sets, Flows, Flowing, FileNames
  <2>5. j.clean /\ rc = 0 => HybridNow(j, files', cpp) /\ BaselineNow(j, files', cpp)
    BY <1>1, <1>4, <1>5, <1>6, <1>7, <2>2 DEF Sets, Closes, HybridNow, BaselineNow, FileNames
  <2>6. Undisturbed(j, files', cpp)
    BY <1>7, <2>2, <2>4, <2>5 DEF Sets, Undisturbed, Closes, Closing
  <2>. QED
    BY <1>2, <1>4, <1>7, <2>1, <2>3, <2>6, StepKeeps DEF Baseline, Same, Inv
<1>8. CASE i.kind # "all"
  <2>1. i.clean => i.kind = "baseline"
    BY <1>1, <1>8 DEF Closes
  <2>2. i.clean /\ rc = 0 => Succeeds(i, files', cpp)
    BY <1>6, <2>1 DEF Succeeds
  <2>3. Job(Ends(i, rc)) /\ Undisturbed(Ends(i, rc), files', cpp)
    BY <1>1, <2>2, EndsWell
  <2>. QED
    BY <1>2, <1>4, <1>8, <2>3, StepKeeps DEF Baseline, Same, Inv
<1>. QED
  BY <1>7, <1>8


-----------------------------------------------------------------------------
(* The comparison. *)

LEMMA ComparisonCompares ==
  ASSUME Inv, NEW c \in Comparison(files["hybrid"], files["baseline"])
  PROVE  Compared(c) /\ c.hybrid = files["hybrid"] /\ c.baseline = files["baseline"]
<1>. DEFINE h == files["hybrid"]
            b == files["baseline"]
<1>1. /\ h.is = "there" => HybridOf(h)
      /\ b.is = "there" => BaselineOf(b)
  BY DEF Inv, Files, Fits, FileNames
<1>. HIDE DEF h, b
<1>2. PICK w : /\ c = [is |-> "there", winner |-> w, hybrid |-> h, baseline |-> b]
               /\ w \in IF ~Comparable(h, b) THEN {"rejected"}
                        ELSE IF h.satisfied /\ b.satisfied THEN Sides \cup {"tie", "rejected"}
                        ELSE {"unresolved"}
  BY DEF Comparison, h, b
<1>3. c.is = "there" /\ c.winner = w /\ c.hybrid = h /\ c.baseline = b
  BY <1>2
<1>4. w \in Sides \cup {"tie", "unresolved", "rejected"}
  BY <1>2
<1>5. w # "rejected" =>
        /\ HybridOf(h) /\ BaselineOf(b) /\ h.ok /\ b.ok /\ h.bits = b.bits
        /\ (w # "unresolved" <=> h.satisfied /\ b.satisfied)
  BY <1>1, <1>2 DEF Comparable, Valid, Sides
<1>. QED
  BY <1>3, <1>4, <1>5 DEF Compared, h, b

LEMMA CompareKeeps == ASSUME Inv, NEW p \in Processes, Compare(p) PROVE Inv'
<1>. DEFINE i == job[p]
<1>1. /\ i.pc = "compare"
      /\ Runs(i) /\ (i.clean => Flows(i, files, cpp) /\ Closes(i, files, cpp))
  BY RunsThere DEF Compare
<1>2. CASE Becomes(p, Ends(i, 1))
  <2>1. Job(Ends(i, 1)) /\ Undisturbed(Ends(i, 1), files, cpp)
    BY <1>1, EndsWell
  <2>. QED
    BY <1>2, <2>1, StepKeeps DEF Compare, Same, Inv
<1>3. ASSUME NEW c \in Comparison(files["hybrid"], files["baseline"]),
             Becomes(p, [i EXCEPT !.pc = "comparison", !.made = c])
      PROVE  Inv'
  <2>1. PICK j : j = [i EXCEPT !.pc = "comparison", !.made = c]
    OBVIOUS
  <2>2. Sets(j, i, "comparison", i.rc, i.flow, i.parity, i.probed, c)
    BY <1>1, <2>1, MadeSet DEF Runs
  <2>3. Compared(c) /\ c.hybrid = files["hybrid"] /\ c.baseline = files["baseline"]
    BY ComparisonCompares
  <2>4. Job(j)
    BY <1>1, <2>2, <2>3 DEF Sets, Job, Runs, Flowing, Closing
  <2>5. j.clean => Flows(j, files, cpp)
    BY <1>1, <2>2 DEF Sets, Flows, Flowing
  <2>6. j.clean => Closes(j, files, cpp)
    BY <1>1, <2>2, <2>3 DEF Sets, Closes, Closing, HybridNow, BaselineNow
  <2>7. Undisturbed(j, files, cpp)
    BY <2>5, <2>6 DEF Undisturbed
  <2>. QED
    BY <1>3, <2>1, <2>4, <2>7, StepKeeps DEF Compare, Same, Inv
<1>. QED
  BY <1>2, <1>3 DEF Compare

\* A comparison that was written, and not rejected, is a success of its job.
LEMMA ComparesWell ==
  ASSUME NEW i, i.clean, Closes(i, files, cpp), i.pc \in {"comparison", "candidate"}, ComparisonRc(i) = 0,
         files'["comparison"] = i.made, i.made.is = "there",
         files'["hybrid"] = files["hybrid"], files'["baseline"] = files["baseline"]
  PROVE  Succeeds(i, files', cpp)
<1>1. i.rc = 0 /\ i.made.winner # "rejected"
  BY DEF ComparisonRc
<1>2. i.kind \in {"comparison", "all"} /\ i.made.hybrid = files["hybrid"] /\ i.made.baseline = files["baseline"]
  BY DEF Closes, Closing
<1>3. ComparedNow(files')
  BY <1>1, <1>2 DEF ComparedNow
<1>4. i.kind = "all" => HybridNow(i, files', cpp) /\ BaselineNow(i, files', cpp)
  BY <1>1 DEF Closes, Closing, HybridNow, BaselineNow
<1>. QED
  BY <1>2, <1>3, <1>4 DEF Succeeds

LEMMA WriteComparisonKeeps == ASSUME Inv, NEW p \in Processes, WriteComparison(p) PROVE Inv'
<1>. DEFINE i == job[p]
<1>1. /\ i.pc = "comparison" /\ Compared(i.made)
      /\ Runs(i) /\ (i.clean => Flows(i, files, cpp) /\ Closes(i, files, cpp))
  BY RunsThere DEF WriteComparison, Runs
<1>2. /\ Files(files') /\ files'["comparison"] = i.made
      /\ \A g \in FileNames \ {"comparison"} : files'[g] = files[g]
  <2>1. Fits("comparison", i.made)
    BY <1>1 DEF Fits, Compared
  <2>. QED
    BY <2>1, WriteFits DEF Inv, FileNames, WriteComparison
<1>3. CASE Becomes(p, Ends(i, ComparisonRc(i)))
  <2>1. i.clean /\ ComparisonRc(i) = 0 => Succeeds(i, files', cpp)
    BY <1>1, <1>2, ComparesWell DEF Compared, FileNames
  <2>2. Job(Ends(i, ComparisonRc(i))) /\ Undisturbed(Ends(i, ComparisonRc(i)), files', cpp)
    BY <1>1, <2>1, EndsWell
  <2>. QED
    BY <1>2, <1>3, <2>2, StepKeeps DEF WriteComparison, Same, Inv
<1>4. CASE i.made.winner = "unresolved" /\ Moves(p, "candidate")
  <2>1. PICK j : j = [i EXCEPT !.pc = "candidate"]
    OBVIOUS
  <2>2. Moved(j, i, "candidate")
    BY <1>1, <2>1, PcSet DEF Runs
  <2>3. Job(j)
    BY <1>1, <1>4, <2>2 DEF Moved, Sets, Job, Runs, Flowing, Closing
  <2>4. j.clean => Flows(j, files', cpp)
    BY <1>1, <1>2, <2>2 DEF Moved, Sets, Flows, Flowing, FileNames
  <2>5. j.clean => Closes(j, files', cpp)
    BY <1>1, <1>2, <2>2 DEF Moved, Sets, Closes, Closing, HybridNow, BaselineNow, FileNames
  <2>6. Undisturbed(j, files', cpp)
    BY <2>4, <2>5 DEF Undisturbed
  <2>. QED
    BY <1>2, <1>4, <2>1, <2>3, <2>6, StepKeeps DEF Moves, WriteComparison, Same, Inv
<1>. QED
  BY <1>3, <1>4 DEF WriteComparison

\* An unresolved comparison of measures that are ok: one of the sides misses
\* the threshold, or the replay its gate.
LEMMA CandidateLowers ==
  ASSUME NEW c, Compared(c), c.winner = "unresolved", NEW k \in CandidateOf(c)
  PROVE  k.is = "there" /\ Lower(k)
<1>1. /\ HybridOf(c.hybrid) /\ BaselineOf(c.baseline) /\ c.hybrid.ok /\ c.baseline.ok
      /\ c.hybrid.bits = c.baseline.bits
      /\ ~(c.hybrid.satisfied /\ c.baseline.satisfied)
  BY DEF Compared
<1>2. k.status = "candidate_threshold_found" => c.hybrid.hits # 0 /\ c.baseline.hits # 0
  BY DEF CandidateOf
<1>3. /\ k.is = "there" /\ k.value = Least(c.hybrid.hits, c.baseline.hits)
      /\ k.hybrid = c.hybrid /\ k.baseline = c.baseline
  BY DEF CandidateOf
<1>4. /\ c.hybrid.hits \in Int /\ c.baseline.hits \in Int /\ c.hybrid.bits \in Int
      /\ c.hybrid.hits < c.hybrid.bits \/ c.baseline.hits < c.hybrid.bits \/ ~c.hybrid.passes
  BY <1>1 DEF HybridOf, BaselineOf, Measure
<1>5. Lower(k)
  BY <1>2, <1>3, <1>4 DEF Lower, Least
<1>. QED
  BY <1>3, <1>5

LEMMA WriteCandidateKeeps == ASSUME Inv, NEW p \in Processes, WriteCandidate(p) PROVE Inv'
<1>. DEFINE i == job[p]
<1>1. /\ i.pc = "candidate" /\ Compared(i.made) /\ i.made.winner = "unresolved"
      /\ Runs(i) /\ (i.clean => Flows(i, files, cpp) /\ Closes(i, files, cpp))
  BY RunsThere DEF WriteCandidate, Runs
<1>2. /\ Files(files') /\ \A g \in FileNames \ {"candidate"} : files'[g] = files[g]
  <2>1. PICK k \in CandidateOf(i.made) : Writes("candidate", k)
    BY DEF WriteCandidate
  <2>2. Fits("candidate", k)
    BY <1>1, CandidateLowers DEF Fits
  <2>. QED
    BY <2>1, <2>2, WriteFits DEF Inv, FileNames
<1>3. i.clean /\ ComparisonRc(i) = 0 => Succeeds(i, files', cpp)
  <2>1. i.clean => files["comparison"] = i.made
    BY <1>1 DEF Closes
  <2>2. /\ files'["comparison"] = files["comparison"] /\ files'["hybrid"] = files["hybrid"]
        /\ files'["baseline"] = files["baseline"]
    BY <1>2 DEF FileNames
  <2>. QED
    BY <1>1, <2>1, <2>2, ComparesWell DEF Compared
<1>4. Job(Ends(i, ComparisonRc(i))) /\ Undisturbed(Ends(i, ComparisonRc(i)), files', cpp)
  BY <1>1, <1>3, EndsWell
<1>. QED
  BY <1>2, <1>4, StepKeeps DEF WriteCandidate, Same, Inv

LEMMA KillKeeps == ASSUME Inv, NEW p \in Processes, Kill(p) PROVE Inv'
<1>. DEFINE i == job[p]
<1>1. Runs(i)
  BY RunsThere DEF Kill, FileNames
<1>2. PICK f \in FileNames : Writes(f, Torn)
  BY DEF Kill, FileOf, FileNames
<1>3. Fits(f, Torn)
  BY DEF Fits, Torn
<1>4. Files(files')
  BY <1>2, <1>3, WriteFits DEF Inv
<1>5. Job(Ends(i, 1)) /\ Undisturbed(Ends(i, 1), files', cpp)
  BY <1>1, EndsWell
<1>. QED
  BY <1>4, <1>5, StepKeeps DEF Kill, Same, Inv


-----------------------------------------------------------------------------
(* The invariant and what follows from it. *)

\* What an earlier run left behind was right for the first version.
LEMMA EarlierFits ==
  ASSUME design \in Designs, NEW f \in FileNames
  PROVE  Fits(f, Earlier(f))
<1>. DEFINE out == After(1, Edges)
            hybrid == [is |-> "there", ok |-> TRUE, bits |-> design.hybrid.run.bits, out |-> out,
                       hits |-> design.hybrid.run.bits, passes |-> design.hybrid.gate = "replay" => 1 \in Sound,
                       satisfied |-> design.hybrid.gate = "replay" => 1 \in Sound]
            baseline == [is |-> "there", ok |-> TRUE, bits |-> design.hybrid.run.bits, out |-> out,
                         hits |-> design.hybrid.run.bits, passes |-> TRUE, satisfied |-> TRUE]
<1>1. IsDesign(design) /\ 1 \in Versions
  BY DesignsAre, DesignsAssumption, BoundsAssumption DEF Versions
<1>2. design.baseline.run.edges = Edges
  BY <1>1 DEF IsDesign, Edges
<1>3. out \in Replayed /\ After(1, 0) \in Shown /\ out.of = 1 /\ out.edges = Edges
  BY <1>1 DEF Replayed, Shown, After
<1>4. design.hybrid.run.bits \in Int
  BY <1>1 DEF IsDesign
<1>. HIDE DEF out
<1>5. HybridOf(hybrid)
  BY <1>3, <1>4 DEF HybridOf, Measure
<1>6. BaselineOf(baseline)
  BY <1>3, <1>4 DEF BaselineOf, Measure
<1>. HIDE DEF hybrid, baseline
<1>7. CASE f \in {"state", "report"}
  BY <1>3, <1>7 DEF Fits, Earlier
<1>8. CASE f \in {"final", "flow"}
  BY <1>3, <1>8 DEF Fits, Earlier, out, Edges
<1>9. CASE f = "parity"
  BY <1>9 DEF Fits, Earlier, Missing
<1>10. CASE f = "hybrid"
  <2>1. Earlier(f) = hybrid /\ hybrid.is = "there"
    BY <1>10 DEF Earlier, hybrid, out, Edges
  <2>. QED
    BY <1>5, <1>10, <2>1 DEF Fits
<1>11. CASE f = "baseline"
  <2>1. Earlier(f) = baseline /\ baseline.is = "there"
    BY <1>2, <1>11 DEF Earlier, baseline, out, Edges
  <2>. QED
    BY <1>6, <1>11, <2>1 DEF Fits
<1>12. CASE f \in {"comparison", "candidate"}
  BY <1>12 DEF Fits, Earlier, Missing
<1>. QED
  BY <1>7, <1>8, <1>9, <1>10, <1>11, <1>12 DEF FileNames

LEMMA InitInv == ASSUME Init PROVE Inv
<1>1. ASSUME files = [f \in FileNames |-> Missing] PROVE Files(files)
  BY <1>1 DEF Files, Fits, Missing
<1>2. ASSUME files = [f \in FileNames |-> Earlier(f)] PROVE Files(files)
  <2>1. \A f \in FileNames : files[f] = Earlier(f) /\ Fits(f, files[f])
    BY <1>2, EarlierFits DEF Init
  <2>. QED
    BY <1>2, <2>1 DEF Files
<1>3. Files(files)
  BY <1>1, <1>2 DEF Init
<1>4. \A p \in Processes : Job(job[p]) /\ Undisturbed(job[p], files, cpp)
  BY DEF Init, Job, Undisturbed
<1>. QED
  BY <1>3, <1>4, BoundsAssumption DEF Init, Inv, Versions

LEMMA InvStep == ASSUME Inv, [Next]_vars PROVE Inv'
<1>1. CASE UNCHANGED vars
  <2>1. /\ design' = design /\ cpp' = cpp /\ files' = files /\ job' = job /\ started' = started
        /\ Inv
    BY <1>1 DEF vars
  <2>2. Files(files)'
    BY <2>1, SameFiles DEF Inv
  <2>3. \A q \in Processes : Job(job[q])'
    BY <2>1, SameJob DEF Inv
  <2>4. \A q \in Processes : Undisturbed(job[q], files, cpp)'
    BY <2>1, SameUndisturbed DEF Inv
  <2>. QED
    BY <2>1, <2>2, <2>3, <2>4 DEF Inv, Versions
<1>2. ASSUME NEW p \in Processes, Step(p) PROVE Inv'
  BY <1>2, StartKeeps, StageKeeps, HostProbeKeeps, HostReportKeeps, EdgeProbeKeeps, ReplayKeeps,
     SummarizeKeeps, FlowFailsKeeps, ParityKeeps, ReadBackKeeps, WriteHybridKeeps, BaselineKeeps,
     CompareKeeps, WriteComparisonKeeps, WriteCandidateKeeps, KillKeeps DEF Step
<1>. QED
  BY <1>1, <1>2, RebuildKeeps DEF Next

LEMMA InvAlways == Spec => []Inv
<1>1. Init => Inv
  BY InitInv
<1>2. Inv /\ [Next]_vars => Inv'
  BY InvStep
<1>. QED
  BY <1>1, <1>2, PTL DEF Spec

\* The files of a design and the processes keep their type, for any designs of
\* the repository, any processes and any number of versions.
THEOREM TypeCorrect == Spec => []TypeOK
<1>1. ASSUME Inv PROVE TypeOK
  <2>1. Edges \in Nat /\ Versions = 1..MaxVersion /\ MaxVersion \in Nat
    BY <1>1, DesignIs DEF IsDesign, Edges, Versions
  <2>2. Shown \subseteq Outs /\ Replayed \subseteq Outs
    BY <2>1 DEF Shown, Replayed, Outs, Garbled, After
  <2>3. DOMAIN files = FileNames /\ \A f \in FileNames : Fits(f, files[f])
    BY <1>1 DEF Inv, Files
  <2>4. \A f \in {"state", "report", "final", "flow", "hybrid", "baseline"} :
          There(f) => files[f].out \in Outs
    BY <2>2, <2>3 DEF There, Fits, HybridOf, BaselineOf, Measure, FileNames
  <2>5. There("parity") => Clocked
    BY <2>3 DEF There, Fits, FileNames
  <2>6. \A p \in Processes :
          job[p] = Idle \/ job[p].pc \in FileNames \cup {"start", "edges", "gpu", "readback", "compare", "done"}
    BY <1>1 DEF Inv, Job, Runs, Flowing, Closing, FileNames
  <2>. QED
    BY <1>1, <2>3, <2>4, <2>5, <2>6 DEF TypeOK, Inv, Versions, Fits
<1>. QED
  BY <1>1, InvAlways, PTL

\* A comparison that names a winner rests on two measures that reach one
\* threshold (build_comparison_payload), and a candidate threshold is not zero and lower than
\* the one that was missed (probe_best_threshold), for any number of processes
\* that write the files of the design at the same time, killed or not.
THEOREM Backed == Spec => []ComparisonsAreBacked
<1>1. ASSUME Inv PROVE ReadyIsBacked
  <2>. DEFINE c == files["comparison"]
  <2>1. SUFFICES ASSUME Ready(c)
                 PROVE  /\ c.hybrid.bits = c.baseline.bits
                        /\ \A side \in {c.hybrid, c.baseline} : side.hits >= side.bits
                        /\ design.hybrid.gate # "none" => c.hybrid.out.of # 0
                        /\ c.hybrid.out.edges = c.baseline.out.edges \/ c.hybrid.out = Garbled
    BY DEF ReadyIsBacked
  <2>2. Compared(c) /\ c.winner \in Sides \cup {"tie"}
    BY <1>1, <2>1 DEF Ready, Inv, Files, Fits, FileNames
  <2>3. c.winner # "rejected" /\ c.winner # "unresolved"
    BY <2>2 DEF Sides
  <2>. HIDE DEF c
  <2>4. /\ HybridOf(c.hybrid) /\ BaselineOf(c.baseline) /\ c.hybrid.ok /\ c.baseline.ok
        /\ c.hybrid.satisfied /\ c.baseline.satisfied /\ c.hybrid.bits = c.baseline.bits
    BY <2>2, <2>3 DEF Compared
  <2>5. c.hybrid.hits >= c.hybrid.bits /\ c.baseline.hits >= c.baseline.bits
    BY <2>4 DEF HybridOf, BaselineOf, Measure
  <2>6. c.baseline.out.edges = Edges /\ (c.hybrid.out.edges = Edges \/ c.hybrid.out = Garbled)
    BY <2>4 DEF HybridOf, BaselineOf, Measure, Replayed
  <2>. QED
    BY <2>4, <2>5, <2>6 DEF HybridOf
<1>2. ASSUME Inv PROVE CandidateIsLower
  BY <1>2 DEF CandidateIsLower, Inv, Files, Fits, FileNames, Lower
<1>. QED
  BY <1>1, <1>2, InvAlways, PTL DEF ComparisonsAreBacked

\* A run of a runner or of the trio that had the design for itself and exits
\* with 0 leaves artifacts of its own threshold and of the design as it is now,
\* whatever earlier runs, killed or concurrent, left behind.
THEOREM Fresh == Spec => []SuccessIsFresh
<1>1. ASSUME Inv PROVE SuccessIsFresh
  <2>1. SUFFICES ASSUME NEW p \in Processes, job[p].pc = "done"
                 PROVE  /\ job[p].kind \in {"hybrid", "all"} => HybridFresh(job[p])
                        /\ job[p].kind \in {"baseline", "all"} => BaselineFresh(job[p])
                        /\ job[p].kind \in {"comparison", "all"} => ComparisonFresh
    BY DEF SuccessIsFresh
  <2>2. Runs(job[p]) /\ (job[p].clean => Closes(job[p], files, cpp))
    BY <1>1, <2>1, RunsThere
  <2>3. Succeeds(job[p], files, cpp)
    BY <2>1, <2>2 DEF Runs, Closes
  <2>. QED
    BY <2>3 DEF Succeeds, HybridNow, BaselineNow, ComparedNow, HybridFresh, BaselineFresh, ComparisonFresh
<1>. QED
  BY <1>1, InvAlways, PTL

-----------------------------------------------------------------------------
(***************************************************************************)
(* The toggle baseline keeps the repository, gives kernels their programs  *)
(* and tells its own runs; the runners on top of it tell their session.    *)
(***************************************************************************)
CONSTANTS Design, Cov, Cases, Jobs, Texts, Nothing

VARIABLES
  pc, toggle_job, case, run, exit, repo, links, own, kernel, layout, wrapped, log, gate, cache, out,
  given, compact, summary

\* The baseline's own state, its job named apart from those of Validation.
B == INSTANCE ToggleBaseline WITH job <- toggle_job

Staging == {"stage", "patch", "execute_files", "lower"}
Lowered == {"standard", "gpu_cov", "gate", "choose", "preload", "direct", "wrapper", "summarize"}

Typed ==
  /\ pc \in {"idle", "unlowered"} \cup Staging \cup Lowered
  /\ toggle_job \in B!Job /\ case \in Cases /\ run \in Nat
  /\ repo \in [B!Staged -> B!Content]
  /\ links \subseteq B!Staged

LEMMA EditedContent ==
  ASSUME NEW content \in B!Content, NEW edit \in B!Edits
  PROVE  B!Edited(content, edit) \in B!Content
BY DEF B!Edited, B!Content

LEMMA CaseTyped ==
  ASSUME B!BaselineAssumption, Typed
  PROVE  /\ case.files \subseteq B!Programs /\ case.iterations \in B!Iterations
         /\ case.iterations \in B!Edits
BY DEF B!BaselineAssumption, Typed, B!AnyCase, B!Edits

\* Only files that are links, and are written, change in the repository.
LEMMA WriteChanges ==
  ASSUME Typed, NEW content, B!Write(content),
         \A n \in links \cap DOMAIN content : content[n] \in B!Content
  PROVE  /\ repo' \in [B!Staged -> B!Content] /\ links' \subseteq B!Staged
         /\ links \cap DOMAIN content = {} => repo' = repo
         /\ \A n \in B!Staged \ DOMAIN content : repo'[n] = repo[n]
BY DEF Typed, B!Write

LEMMA ReplaceChanges ==
  ASSUME Typed, NEW content, B!Replace(content)
  PROVE  repo' = repo /\ links' \subseteq B!Staged
BY DEF Typed, B!Replace

\* Products are never links.
LEMMA ProductsAreFiles ==
  ASSUME Typed, NEW n \in B!Products
  PROVE  n \notin links
BY DEF Typed, B!Staged, B!Programs, B!Sources, B!Products

\* Lowering writes to the repository only through the link of program.bin.
LEMMA LowerKeeps ==
  ASSUME B!BaselineAssumption, Typed, B!Lower
  PROVE  /\ repo' \in [B!Staged -> B!Content] /\ links' \subseteq B!Staged
         /\ repo' # repo => B!lowering = "program_bin"
         /\ \A n \in B!Staged : repo'[n] # repo[n] => n = "program.bin" /\ B!lowering = "program_bin"
<1>1. CASE B!LowerEntries
  <2>. DEFINE content == [n \in {"program_entries.bin"} |-> B!Program("program.hex")]
  <2>1. B!Write(content) /\ links \cap DOMAIN content = {}
    BY <1>1, ProductsAreFiles DEF B!LowerEntries, B!Products
  <2>. HIDE DEF content
  <2>. QED
    BY <2>1, WriteChanges
<1>2. CASE B!LowerVeerHex
  <2>1. CASE case.iterations = "none"
    BY <1>2, <2>1 DEF B!LowerVeerHex, Typed, B!inputs
  <2>2. CASE case.iterations # "none"
    <3>1. B!Replace([n \in {"program.hex"} |-> B!Program("program.hex")])
      BY <1>2, <2>2 DEF B!LowerVeerHex
    <3>. QED
      BY <3>1, ReplaceChanges DEF Typed
  <2>. QED
    BY <2>1, <2>2
<1>3. CASE B!LowerPats
  <2>. DEFINE content == [n \in {"inst_preload.hex", "data_preload.hex"} |->
                            IF n = "inst_preload.hex" THEN B!Read("inst.pat") ELSE B!Program("data.pat")]
  <2>1. B!Write(content) /\ links \cap DOMAIN content = {}
    BY <1>3, ProductsAreFiles DEF B!LowerPats, B!Products
  <2>. HIDE DEF content
  <2>. QED
    BY <2>1, WriteChanges
<1>4. CASE B!LowerCasePat
  BY <1>4, ReplaceChanges DEF B!LowerCasePat, Typed
<1>5. CASE B!LowerProgramBin
  <2>. DEFINE content == [n \in {"program.bin"} |-> B!Program("program.bin")]
  <2>1. B!Write(content) /\ B!lowering = "program_bin"
    BY <1>5 DEF B!LowerProgramBin
  <2>2. ASSUME NEW n \in links \cap DOMAIN content
        PROVE  content[n] \in B!Content
    <3>1. n = "program.bin" /\ n \in links /\ B!Read(n) = repo[n] /\ repo[n] \in B!Content
      BY <2>2 DEF B!Read, Typed
    <3>2. content[n] = B!Edited(repo[n], case.iterations)
      BY <3>1 DEF B!Program
    <3>. QED
      BY <3>1, <3>2, CaseTyped, EditedContent
  <2>3. DOMAIN content = {"program.bin"}
    OBVIOUS
  <2>. HIDE DEF content
  <2>. QED
    BY <2>1, <2>2, <2>3, WriteChanges
<1>6. CASE B!LowerMemBin
  <2>. DEFINE content == [n \in {"openpiton_mem.bin"} |-> B!Program("mem.bin")]
  <2>1. B!Write(content) /\ links \cap DOMAIN content = {}
    BY <1>6, ProductsAreFiles DEF B!LowerMemBin, B!Products
  <2>. HIDE DEF content
  <2>. QED
    BY <2>1, WriteChanges
<1>7. CASE B!LowerInitMem
  <2>. DEFINE content == [n \in {"prog_mem_entries.bin"} |-> B!Program("prog.mem")]
  <2>1. B!Write(content) /\ links \cap DOMAIN content = {}
    BY <1>7, ProductsAreFiles DEF B!LowerInitMem, B!Products
  <2>. HIDE DEF content
  <2>. QED
    BY <2>1, WriteChanges
<1>8. CASE B!LowerPlainHex
  BY <1>8, ReplaceChanges DEF B!LowerPlainHex, Typed
<1>9. CASE B!LowerNothing
  BY <1>9 DEF B!LowerNothing, B!inputs, Typed
<1>. QED
  BY <1>1, <1>2, <1>3, <1>4, <1>5, <1>6, <1>7, <1>8, <1>9 DEF B!Lower

LEMMA TearKeeps ==
  ASSUME Typed, B!TearProgramBin
  PROVE  /\ repo' \in [B!Staged -> B!Content] /\ links' \subseteq B!Staged
         /\ \A n \in B!Staged : repo'[n] # repo[n] => n = "program.bin" /\ B!lowering = "program_bin"
<1>. DEFINE content == [n \in {"program.bin"} |-> [B!Read(n) EXCEPT !.edit = "torn"]]
<1>1. B!Write(content) /\ B!lowering = "program_bin"
  BY DEF B!TearProgramBin
<1>2. ASSUME NEW n \in links \cap DOMAIN content
      PROVE  content[n] \in B!Content
  <2>1. B!Read(n) = repo[n] /\ repo[n] \in B!Content /\ content[n] = [repo[n] EXCEPT !.edit = "torn"]
    BY <1>2 DEF B!Read, Typed
  <2>. QED
    BY <2>1 DEF B!Content, B!Edits
<1>3. DOMAIN content = {"program.bin"}
  OBVIOUS
<1>. HIDE DEF content
<1>. QED
  BY <1>1, <1>2, <1>3, WriteChanges

LEMMA PatchKeeps ==
  ASSUME Typed, B!Patch
  PROVE  repo' = repo /\ links' \subseteq B!Staged
<1>1. CASE B!NoPatch
  BY <1>1 DEF B!NoPatch, B!inputs, Typed
<1>2. ASSUME NEW copies, NEW patched, B!Localize(copies, patched)
      PROVE  repo' = repo /\ links' \subseteq B!Staged
  BY <1>2, ReplaceChanges DEF B!Localize
<1>. QED
  BY <1>1, <1>2 DEF B!Patch, B!PatchXiangShan, B!PatchC906, B!PatchE90x

LEMMA TypedStep ==
  ASSUME B!BaselineAssumption, Typed, [B!Next]_B!vars
  PROVE  Typed'
<1>. USE DEF Typed, Staging, Lowered
<1>1. CASE UNCHANGED B!vars
  BY <1>1 DEF B!vars, B!options, B!inputs
<1>2. CASE B!Edit
  <2>1. PICK n \in B!Staged, t \in Texts : repo' = [repo EXCEPT ![n] = [text |-> t, edit |-> "none"]]
    BY <1>2 DEF B!Edit
  <2>2. [text |-> t, edit |-> "none"] \in B!Content
    BY DEF B!Content, B!Edits, B!Iterations
  <2>. QED
    BY <1>2, <2>1, <2>2 DEF B!Edit, B!options
<1>3. CASE B!Start
  <2>1. links' \subseteq B!Staged
    BY <1>3 DEF B!Start
  <2>. QED
    BY <1>3, <2>1 DEF B!Start, B!BaselineAssumption
<1>4. CASE B!Fail
  BY <1>4 DEF B!Fail, B!options, B!inputs
<1>5. CASE B!StageFilelist
  BY <1>5 DEF B!StageFilelist, B!Link, B!options, B!Staged
<1>6. CASE B!Patch
  BY <1>6, PatchKeeps DEF B!Patch, B!options
<1>7. CASE B!StageExecuteFiles
  BY <1>7, CaseTyped DEF B!StageExecuteFiles, B!Link, B!options, B!Staged
<1>8. CASE B!Lower
  BY <1>8, LowerKeeps DEF B!Lower, B!options
<1>9. CASE B!StandardPrecheck \/ B!CovPrecheck
  BY <1>9 DEF B!StandardPrecheck, B!CovPrecheck, B!options, B!inputs
<1>10. CASE B!Gate
  BY <1>10 DEF B!Gate, B!options, B!inputs
<1>11. CASE B!Choose
  BY <1>11 DEF B!Choose, B!options, B!inputs
<1>12. CASE B!Preload \/ B!Launch
  BY <1>12 DEF B!Preload, B!Launch, B!options, B!inputs
<1>13. CASE B!RunDirect \/ B!RunWrapper \/ B!FailWrapper \/ B!Summarize
  BY <1>13 DEF B!RunDirect, B!RunWrapper, B!FailWrapper, B!Summarize, B!options, B!inputs
<1>14. CASE B!TearProgramBin
  BY <1>14, TearKeeps DEF B!TearProgramBin, B!options
<1>. QED
  BY <1>1, <1>2, <1>3, <1>4, <1>5, <1>6, <1>7, <1>8, <1>9, <1>10, <1>11, <1>12, <1>13, <1>14 DEF B!Next

LEMMA TypedInit ==
  ASSUME B!BaselineAssumption, B!Init
  PROVE  Typed
<1>1. [text : Texts, edit : {"none"}] \subseteq B!Content
  BY DEF B!Content, B!Edits, B!Iterations
<1>. QED
  BY <1>1 DEF B!Init, Typed, B!BaselineAssumption

LEMMA TypedAlways ==
  ASSUME B!BaselineAssumption
  PROVE  B!Spec => []Typed
<1>1. B!Init => Typed
  BY TypedInit
<1>2. Typed /\ [B!Next]_B!vars => Typed'
  BY TypedStep
<1>. QED
  BY <1>1, <1>2, PTL DEF B!Spec

LEMMA RunKeepsRepo ==
  ASSUME B!BaselineAssumption, Typed, B!Next, pc # "idle", NEW n \in B!Staged, repo'[n] # repo[n]
  PROVE  n = "program.bin" /\ B!lowering = "program_bin"
<1>1. CASE B!Lower
  BY <1>1, LowerKeeps
<1>2. CASE B!TearProgramBin
  BY <1>2, TearKeeps
<1>3. CASE B!Patch
  BY <1>3, PatchKeeps
<1>4. CASE B!Fail \/ B!StageFilelist \/ B!StageExecuteFiles \/ B!StandardPrecheck \/ B!CovPrecheck \/ B!Gate
  BY <1>4 DEF B!Fail, B!StageFilelist, B!StageExecuteFiles, B!StandardPrecheck, B!CovPrecheck, B!Gate, B!Link, B!inputs
<1>5. CASE B!Choose \/ B!Preload \/ B!Launch \/ B!RunDirect \/ B!RunWrapper \/ B!FailWrapper \/ B!Summarize
  BY <1>5 DEF B!Choose, B!Preload, B!Launch, B!RunDirect, B!RunWrapper, B!FailWrapper, B!Summarize, B!inputs
<1>. QED
  BY <1>1, <1>2, <1>3, <1>4, <1>5 DEF B!Next, B!Edit, B!Start

\* No run of the toggle baseline, whether it ends or is killed, changes a file of
\* the repository it tests but the program.bin of XiangShan, lowered in its place.
THEOREM RepositoryIsKept ==
  ASSUME B!BaselineAssumption
  PROVE  B!Spec => B!SourcesAreKept
<1>1. Typed /\ [B!Next]_B!vars =>
        [pc # "idle" => \A n \in B!Staged :
            repo'[n] # repo[n] => n = "program.bin" /\ B!lowering = "program_bin"]_B!vars
  BY RunKeepsRepo
<1>. QED
  BY <1>1, TypedAlways, PTL DEF B!Spec, B!SourcesAreKept

-----------------------------------------------------------------------------
\* In a directory that this run has emptied, nothing is of an earlier run; and
\* the run on the GPU has dumped its outputs before they are summarised.
OwnDumps ==
  /\ log \in [B!Prechecks -> Nat] /\ compact \in [B!Engines -> Nat]
  /\ pc # "idle" => run # 0
  /\ pc # "idle" /\ toggle_job.rebuild =>
       (\A p \in B!Prechecks : log[p] \in {0, run}) /\ (\A e \in B!Engines : compact[e] \in {0, run})
  /\ pc = "summarize" /\ toggle_job.gpu => compact["gpu"] = run
  /\ exit = "ok" => pc = "idle"

OwnRun == Typed /\ OwnDumps /\ B!SuccessIsOfThisRun /\ B!RunsAreGated

LEMMA DumpedIsOwn ==
  ASSUME Typed, OwnDumps
  PROVE  /\ B!Dumped \in [B!Engines -> Nat]
         /\ toggle_job.gpu => B!Dumped["gpu"] = run
         /\ pc # "idle" /\ toggle_job.rebuild => \A e \in B!Engines : B!Dumped[e] \in {0, run}
BY DEF B!Dumped, Typed, OwnDumps, B!Engines

LEMMA PrecheckIsOwn ==
  ASSUME Typed, OwnDumps, pc # "idle", NEW p \in B!Prechecks, B!Precheck(p)
  PROVE  /\ log' \in [B!Prechecks -> Nat]
         /\ toggle_job.rebuild => \A q \in B!Prechecks : log'[q] \in {0, run}
BY DEF B!Precheck, Typed, OwnDumps

LEMMA OwnRunInit ==
  ASSUME B!BaselineAssumption, B!Init
  PROVE  OwnRun
BY TypedInit DEF B!Init, OwnRun, OwnDumps, B!SuccessIsOfThisRun, B!RunsAreGated, B!NoLog, B!NoCompact

LEMMA OwnRunStep ==
  ASSUME B!BaselineAssumption, OwnRun, [B!Next]_B!vars
  PROVE  OwnRun'
<1>0. Typed'
  BY TypedStep DEF OwnRun
<1>. SUFFICES OwnDumps' /\ B!SuccessIsOfThisRun' /\ B!RunsAreGated'
  BY <1>0 DEF OwnRun
<1>. USE DEF OwnRun, OwnDumps, B!SuccessIsOfThisRun, B!RunsAreGated, B!gated
<1>1. CASE UNCHANGED B!vars
  BY <1>1 DEF B!vars, B!options, B!prechecks, B!outputs
<1>2. CASE B!Edit
  BY <1>2 DEF B!Edit, B!options, B!prechecks, B!outputs
<1>3. CASE B!Start
  <2>1. run' # 0 /\ pc' = "stage" /\ exit' = "none"
    BY <1>3 DEF B!Start, Typed
  <2>2. CASE toggle_job'.rebuild
    BY <1>3, <2>1, <2>2 DEF B!Start, B!NoLog, B!NoCompact
  <2>3. CASE ~toggle_job'.rebuild
    BY <1>3, <2>1, <2>3 DEF B!Start, B!prechecks, B!outputs
  <2>. QED
    BY <2>2, <2>3
<1>4. CASE B!Fail \/ B!TearProgramBin
  BY <1>4 DEF B!Fail, B!TearProgramBin, B!options, B!prechecks, B!outputs
<1>5. CASE B!StageFilelist \/ B!Patch \/ B!StageExecuteFiles
  BY <1>5 DEF B!StageFilelist, B!Patch, B!StageExecuteFiles, B!options, B!prechecks, B!outputs
<1>6. CASE B!Lower
  BY <1>6 DEF B!Lower, B!options, B!prechecks, B!outputs
<1>7. CASE B!StandardPrecheck
  <2>1. log' \in [B!Prechecks -> Nat] /\ (toggle_job.rebuild => \A q \in B!Prechecks : log'[q] \in {0, run})
    BY <1>7, PrecheckIsOwn DEF B!StandardPrecheck, B!Prechecks
  <2>. QED
    BY <1>7, <2>1 DEF B!StandardPrecheck, B!options, B!outputs
<1>8. CASE B!CovPrecheck
  <2>1. log' \in [B!Prechecks -> Nat] /\ (toggle_job.rebuild => \A q \in B!Prechecks : log'[q] \in {0, run})
    BY <1>8, PrecheckIsOwn DEF B!CovPrecheck, B!Prechecks
  <2>. QED
    BY <1>8, <2>1 DEF B!CovPrecheck, B!options, B!outputs
<1>9. CASE B!Gate
  <2>1. B!GatePasses /\ B!gated /\ toggle_job.rebuild => log["standard"] = run /\ (Cov => log["gpu_cov"] = run)
    BY <1>9 DEF B!Gate, B!GatePasses, B!Prechecks
  <2>2. CASE toggle_job.gate_only
    BY <1>9, <2>2 DEF B!Gate, B!options
  <2>3. CASE ~toggle_job.gate_only
    BY <1>9, <2>1, <2>3 DEF B!Gate, B!options
  <2>. QED
    BY <2>2, <2>3
<1>10. CASE B!Choose \/ B!Preload \/ B!Launch
  BY <1>10 DEF B!Choose, B!Preload, B!Launch, B!options, B!prechecks, B!outputs
<1>11. CASE B!RunDirect
  BY <1>11, DumpedIsOwn DEF B!RunDirect, B!options, B!prechecks
<1>12. CASE B!RunWrapper
  BY <1>12, DumpedIsOwn DEF B!RunWrapper, B!options, B!prechecks
<1>13. CASE B!FailWrapper
  BY <1>13, DumpedIsOwn DEF B!FailWrapper, B!options, B!prechecks
<1>14. CASE B!Summarize
  <2>1. toggle_job.gpu \/ toggle_job.rebuild => B!Active = run
    BY <1>14 DEF B!Summarize, B!Active, B!Engines
  <2>. QED
    BY <1>14, <2>1 DEF B!Summarize, B!options, B!prechecks
<1>. QED
  BY <1>1, <1>2, <1>3, <1>4, <1>5, <1>6, <1>7, <1>8, <1>9, <1>10, <1>11, <1>12, <1>13, <1>14 DEF B!Next

\* A successful exit tells of its own run: its summary, its outputs unless it is
\* a run without the GPU in a directory that is used again, and its gate.
THEOREM RunsTellOfThemselves ==
  ASSUME B!BaselineAssumption
  PROVE  B!Spec => [](B!SuccessIsOfThisRun /\ B!RunsAreGated)
<1>1. B!Init => OwnRun
  BY OwnRunInit
<1>2. OwnRun /\ [B!Next]_B!vars => OwnRun'
  BY OwnRunStep
<1>3. OwnRun => B!SuccessIsOfThisRun /\ B!RunsAreGated
  BY DEF OwnRun
<1>. QED
  BY <1>1, <1>2, <1>3, PTL DEF B!Spec

-----------------------------------------------------------------------------
\* The image of a preload as it must be for this case.
ImageOf(p) == B!Edited(repo[B!wanted[p].from], B!EditOf(B!lowering, p, case))

Programmed ==
  /\ toggle_job \in Jobs
  /\ pc = "lower" => case.files \subseteq links
  /\ pc \in Lowered => \A p \in DOMAIN B!wanted : B!Read(B!wanted[p].image) = ImageOf(p)
  /\ \A e \in cache : e.held = e.key
  /\ layout = kernel \/ wrapped = "failed"
  /\ pc \in Staging \cup {"standard", "gpu_cov", "gate", "choose"} => given = B!NoPreloads
  /\ pc = "preload" =>
       DOMAIN given \subseteq DOMAIN B!wanted /\ given = [p \in DOMAIN given |-> B!Key(p)]
  /\ pc \in {"direct", "summarize"} => given = [p \in DOMAIN B!wanted |-> B!Key(p)]

\* What is preloaded is made of a file of the test.
LEMMA PreloadsAreLowered ==
  ASSUME NEW p \in DOMAIN B!wanted
  PROVE  \/ B!lowering = "entries" /\ p = "memory_image" /\ "program.hex" \in case.files
            /\ B!wanted[p] = [image |-> "program_entries.bin", from |-> "program.hex"]
         \/ B!lowering = "veer_hex" /\ p = "program_hex" /\ "program.hex" \in case.files
            /\ B!wanted[p] = [image |-> "program.hex", from |-> "program.hex"]
         \/ B!lowering = "pats" /\ p = "program_hex" /\ "inst.pat" \in case.files
            /\ B!wanted[p] = [image |-> "inst_preload.hex", from |-> "inst.pat"]
         \/ B!lowering = "pats" /\ p = "memory_image" /\ "data.pat" \in case.files
            /\ B!wanted[p] = [image |-> "data_preload.hex", from |-> "data.pat"]
         \/ B!lowering = "case_pat" /\ p = "program_hex" /\ "case.pat" \in case.files
            /\ B!wanted[p] = [image |-> "case_pat_preload.hex", from |-> "case.pat"]
         \/ B!lowering = "mem_bin" /\ p = "memory_image" /\ "mem.bin" \in case.files
            /\ B!wanted[p] = [image |-> "openpiton_mem.bin", from |-> "mem.bin"]
         \/ B!lowering = "init_mem" /\ p = "memory_image" /\ "prog.mem" \in case.files
            /\ B!wanted[p] = [image |-> "prog_mem_entries.bin", from |-> "prog.mem"]
<1>1. B!lowering \in {"entries", "veer_hex"} => "program.hex" \in case.files
  BY DEF B!lowering, B!Lowering
<1>2. B!lowering = "pats" => "inst.pat" \in case.files /\ "data.pat" \in case.files
  BY DEF B!lowering, B!Lowering
<1>3. B!lowering = "case_pat" => "case.pat" \in case.files
  BY DEF B!lowering, B!Lowering
<1>4. B!lowering = "mem_bin" => "mem.bin" \in case.files
  BY DEF B!lowering, B!Lowering
<1>5. B!lowering = "init_mem" => "prog.mem" \in case.files
  BY DEF B!lowering, B!Lowering
<1>6. B!lowering \in {"entries", "veer_hex", "pats", "case_pat", "mem_bin", "init_mem"}
  BY DEF B!wanted, B!Preloads
<1>. QED
  BY <1>1, <1>2, <1>3, <1>4, <1>5, <1>6 DEF B!wanted, B!Preloads

\* A case is lowered in the way that is its own.
LEMMA LowersItsWay ==
  ASSUME B!Lower
  PROVE  /\ B!lowering = "entries" => B!LowerEntries
         /\ B!lowering = "veer_hex" => B!LowerVeerHex
         /\ B!lowering = "pats" => B!LowerPats
         /\ B!lowering = "case_pat" => B!LowerCasePat
         /\ B!lowering = "mem_bin" => B!LowerMemBin
         /\ B!lowering = "init_mem" => B!LowerInitMem
BY DEF B!Lower, B!LowerEntries, B!LowerVeerHex, B!LowerPats, B!LowerCasePat, B!LowerProgramBin,
       B!LowerMemBin, B!LowerInitMem, B!LowerPlainHex, B!LowerNothing

\* Lowering makes the images.
LEMMA LowerMakesImages ==
  ASSUME B!BaselineAssumption, Typed, Programmed, B!Lower, NEW p \in DOMAIN B!wanted
  PROVE  B!Read(B!wanted[p].image)' = ImageOf(p)'
<1>. DEFINE from == B!wanted[p].from  image == B!wanted[p].image
<1>1. from \in links /\ from \in B!Staged /\ B!Read(from) = repo[from]
  BY PreloadsAreLowered, CaseTyped DEF Programmed, B!Lower, B!Read, B!Staged
<1>2. UNCHANGED <<case, B!lowering, B!wanted>>
  BY DEF B!Lower, B!options, B!lowering, B!wanted
<1>3. repo' = repo
  BY LowerKeeps, PreloadsAreLowered
<1>4. ImageOf(p)' = ImageOf(p)
  BY <1>2, <1>3 DEF ImageOf
<1>5. image \in B!Products => image \notin links /\ image \in B!Names
  BY ProductsAreFiles DEF B!Names
<1>6. B!Edited(repo[from], "none") = repo[from]
  BY DEF B!Edited
<1>7. CASE B!lowering = "entries"
  <2>1. B!LowerEntries /\ image = "program_entries.bin" /\ from = "program.hex" /\ p = "memory_image"
    BY <1>7, PreloadsAreLowered, LowersItsWay
  <2>2. own'[image] = B!Program(from) /\ image \notin links'
    BY <1>5, <2>1 DEF B!LowerEntries, B!Write, B!Products
  <2>. QED
    BY <1>1, <1>2, <1>4, <1>7, <2>1, <2>2 DEF B!Read, B!Program, ImageOf, B!EditOf
<1>8. CASE B!lowering = "veer_hex"
  <2>1. B!LowerVeerHex /\ image = "program.hex" /\ from = "program.hex" /\ p = "program_hex"
    BY <1>8, PreloadsAreLowered, LowersItsWay
  <2>2. CASE case.iterations = "none"
    BY <1>1, <1>2, <1>4, <1>6, <1>8, <2>1, <2>2 DEF B!LowerVeerHex, B!inputs, B!Read, ImageOf, B!EditOf
  <2>3. CASE case.iterations # "none"
    <3>1. own'[image] = B!Program(from) /\ image \notin links'
      BY <2>1, <2>3 DEF B!LowerVeerHex, B!Replace, B!Names, B!Programs
    <3>. QED
      BY <1>1, <1>2, <1>4, <1>8, <2>1, <3>1 DEF B!Read, B!Program, ImageOf, B!EditOf
  <2>. QED
    BY <2>2, <2>3
<1>9. CASE B!lowering = "pats"
  <2>1. B!LowerPats
    BY <1>9, LowersItsWay
  <2>2. CASE p = "program_hex"
    <3>1. image = "inst_preload.hex" /\ from = "inst.pat"
      BY <1>9, <2>2, PreloadsAreLowered
    <3>2. own'[image] = B!Read(from) /\ image \notin links'
      BY <1>5, <2>1, <3>1 DEF B!LowerPats, B!Write, B!Products
    <3>. QED
      BY <1>1, <1>2, <1>4, <1>6, <1>9, <2>2, <3>2 DEF B!Read, ImageOf, B!EditOf
  <2>3. CASE p # "program_hex"
    <3>1. image = "data_preload.hex" /\ from = "data.pat"
      BY <1>9, <2>3, PreloadsAreLowered
    <3>2. own'[image] = B!Program(from) /\ image \notin links'
      BY <1>5, <2>1, <3>1 DEF B!LowerPats, B!Write, B!Products
    <3>. QED
      BY <1>1, <1>2, <1>4, <1>9, <2>3, <3>2 DEF B!Read, B!Program, ImageOf, B!EditOf
  <2>. QED
    BY <2>2, <2>3
<1>10. CASE B!lowering = "case_pat"
  <2>1. B!LowerCasePat /\ image = "case_pat_preload.hex" /\ from = "case.pat" /\ p = "program_hex"
    BY <1>10, PreloadsAreLowered, LowersItsWay
  <2>2. own'[image] = B!Program(from) /\ image \notin links'
    BY <2>1 DEF B!LowerCasePat, B!Replace, B!Names, B!Products
  <2>. QED
    BY <1>1, <1>2, <1>4, <1>10, <2>1, <2>2 DEF B!Read, B!Program, ImageOf, B!EditOf
<1>11. CASE B!lowering = "mem_bin"
  <2>1. B!LowerMemBin /\ image = "openpiton_mem.bin" /\ from = "mem.bin" /\ p = "memory_image"
    BY <1>11, PreloadsAreLowered, LowersItsWay
  <2>2. own'[image] = B!Program(from) /\ image \notin links'
    BY <1>5, <2>1 DEF B!LowerMemBin, B!Write, B!Products
  <2>. QED
    BY <1>1, <1>2, <1>4, <1>11, <2>1, <2>2 DEF B!Read, B!Program, ImageOf, B!EditOf
<1>12. CASE B!lowering = "init_mem"
  <2>1. B!LowerInitMem /\ image = "prog_mem_entries.bin" /\ from = "prog.mem" /\ p = "memory_image"
    BY <1>12, PreloadsAreLowered, LowersItsWay
  <2>2. own'[image] = B!Program(from) /\ image \notin links'
    BY <1>5, <2>1 DEF B!LowerInitMem, B!Write, B!Products
  <2>. QED
    BY <1>1, <1>2, <1>4, <1>12, <2>1, <2>2 DEF B!Read, B!Program, ImageOf, B!EditOf
<1>. QED
  BY <1>7, <1>8, <1>9, <1>10, <1>11, <1>12, PreloadsAreLowered

\* A step that changes neither the files nor the case changes no image.
LEMMA ImagesStay ==
  ASSUME UNCHANGED <<case, B!inputs>>
  PROVE  /\ UNCHANGED <<B!lowering, B!wanted>>
         /\ \A p : UNCHANGED <<B!Read(B!wanted[p].image), ImageOf(p)>>
         /\ layout' = layout => \A p : B!Key(p)' = B!Key(p)
BY DEF B!inputs, B!lowering, B!wanted, B!Read, ImageOf, B!Key

\* Every job makes its preloads through the compile cache.
AllCached == \A j \in Jobs : j.cached

\* What is held under a key is what the key says, and so is what is given.
LEMMA CachedGivesItsKey ==
  ASSUME Programmed, NEW p \in DOMAIN B!wanted, B!Cached(p)
  PROVE  /\ \A e \in cache' : e.held = e.key
         /\ given' = [q \in DOMAIN given \cup {p} |-> IF q = p THEN B!Key(p) ELSE given[q]]
<1>1. \A e \in cache' : e.held = e.key
  BY DEF B!Cached, Programmed
<1>2. PICK e \in cache' : e.key = B!Key(p) /\ B!Give(p, e.held)
  BY DEF B!Cached
<1>. QED
  BY <1>1, <1>2 DEF B!Give

LEMMA PreloadProgrammed ==
  ASSUME AllCached, Programmed, B!Preload
  PROVE  Programmed'
<1>1. PICK p \in DOMAIN B!wanted \ DOMAIN given : B!Cached(p)
  BY DEF B!Preload, Programmed, AllCached
<1>2. UNCHANGED <<pc, toggle_job, case, B!built, B!inputs, B!lowering, B!wanted>>
  BY ImagesStay DEF B!Preload, B!options, B!built
<1>3. \A q : B!Key(q)' = B!Key(q) /\ UNCHANGED <<B!Read(B!wanted[q].image), ImageOf(q)>>
  BY <1>2, ImagesStay DEF B!built
<1>4. /\ \A e \in cache' : e.held = e.key
      /\ given' = [q \in DOMAIN given \cup {p} |-> IF q = p THEN B!Key(p) ELSE given[q]]
  BY <1>1, CachedGivesItsKey
<1>5. pc = "preload"
  BY DEF B!Preload
<1>6. DOMAIN given' \subseteq DOMAIN B!wanted /\ given' = [q \in DOMAIN given' |-> B!Key(q)]
  BY <1>1, <1>4, <1>5 DEF Programmed
<1>7. DOMAIN given' \subseteq DOMAIN B!wanted' /\ given' = [q \in DOMAIN given' |-> B!Key(q)']
  BY <1>2, <1>3, <1>6
<1>8. \A q \in DOMAIN B!wanted' : B!Read(B!wanted[q].image)' = ImageOf(q)'
  BY <1>2, <1>3, <1>5 DEF Programmed, Lowered
<1>. QED
  BY <1>2, <1>4, <1>5, <1>7, <1>8 DEF Programmed, Staging, B!built

LEMMA ProgrammedStep ==
  ASSUME B!BaselineAssumption, AllCached, Typed, Programmed, [B!Next]_B!vars
  PROVE  Programmed'
<1>. USE DEF Staging, Lowered
<1>1. CASE UNCHANGED B!vars
  <2>1. UNCHANGED <<case, B!inputs, B!built, pc, toggle_job, cache, given>>
    BY <1>1 DEF B!vars, B!options, B!preloads, B!built
  <2>. QED
    BY <2>1, ImagesStay DEF Programmed, B!built, B!inputs
<1>2. CASE B!Edit
  BY <1>2 DEF B!Edit, Programmed, B!options, B!preloads, B!built
<1>3. CASE B!Start
  BY <1>3 DEF B!Start, B!built, Programmed
<1>4. CASE B!Fail \/ B!TearProgramBin
  BY <1>4 DEF B!Fail, B!TearProgramBin, Programmed, B!options, B!preloads, B!built
<1>5. CASE B!StageFilelist \/ B!Patch
  BY <1>5 DEF B!StageFilelist, B!Patch, Programmed, B!options, B!preloads, B!built
<1>6. CASE B!StageExecuteFiles
  BY <1>6 DEF B!StageExecuteFiles, B!Link, Programmed, B!options, B!preloads, B!built
<1>7. CASE B!Lower
  <2>1. \A p \in DOMAIN B!wanted : B!Read(B!wanted[p].image)' = ImageOf(p)'
    BY <1>7, LowerMakesImages
  <2>2. UNCHANGED <<toggle_job, cache, given, kernel, layout, wrapped, B!wanted>> /\ pc = "lower" /\ pc' \in {"unlowered", "standard"}
    BY <1>7 DEF B!Lower, B!options, B!preloads, B!built, B!wanted, B!lowering
  <2>. QED
    BY <2>1, <2>2 DEF Programmed
<1>8. CASE B!StandardPrecheck \/ B!CovPrecheck \/ B!Gate \/ B!Choose
  <2>1. UNCHANGED <<toggle_job, case, B!inputs, B!built, cache, given>>
    BY <1>8 DEF B!StandardPrecheck, B!CovPrecheck, B!Gate, B!Choose, B!options, B!preloads, B!built
  <2>2. /\ pc \in {"standard", "gpu_cov", "gate", "choose"}
        /\ pc' \in {"idle", "gpu_cov", "gate", "choose", "preload", "wrapper"}
    BY <1>8 DEF B!StandardPrecheck, B!CovPrecheck, B!Gate, B!Choose
  <2>3. given = B!NoPreloads /\ DOMAIN given = {} /\ given = [p \in DOMAIN given |-> B!Key(p)']
    BY <2>2 DEF Programmed, B!NoPreloads
  <2>. QED
    BY <2>1, <2>2, <2>3, ImagesStay DEF Programmed, B!built
<1>9. CASE B!Preload
  BY <1>9, PreloadProgrammed
<1>10. CASE B!Launch
  <2>1. UNCHANGED <<toggle_job, case, B!inputs, B!built, cache, given>> /\ pc = "preload" /\ pc' = "direct"
        /\ DOMAIN given = DOMAIN B!wanted
    BY <1>10 DEF B!Launch, B!options, B!preloads, B!built
  <2>. QED
    BY <2>1, ImagesStay DEF Programmed, B!built
<1>11. CASE B!RunDirect
  <2>1. UNCHANGED <<toggle_job, case, B!inputs, B!built, cache, given>> /\ pc = "direct"
        /\ pc' \in {"summarize", "wrapper"}
    BY <1>11 DEF B!RunDirect, B!options, B!preloads, B!built
  <2>. QED
    BY <2>1, ImagesStay DEF Programmed, B!built
<1>12. CASE B!RunWrapper
  <2>1. UNCHANGED <<toggle_job, case, B!inputs, cache>> /\ pc = "wrapper" /\ pc' = "summarize" /\ kernel' = run
        /\ layout' = run
    BY <1>12 DEF B!RunWrapper, B!options
  <2>2. \A p : B!Key(p)' = [B!Key(p) EXCEPT !.layout = run]
    BY <2>1, ImagesStay DEF B!Key
  <2>3. given' = [p \in DOMAIN B!wanted' |-> B!Key(p)']
    BY <1>12, <2>1, <2>2, ImagesStay DEF B!RunWrapper
  <2>. QED
    BY <2>1, <2>3, ImagesStay DEF Programmed, B!built
<1>13. CASE B!FailWrapper \/ B!Summarize
  BY <1>13 DEF B!FailWrapper, B!Summarize, Programmed, B!options, B!preloads, B!built
<1>. QED
  BY <1>1, <1>2, <1>3, <1>4, <1>5, <1>6, <1>7, <1>8, <1>9, <1>10, <1>11, <1>12, <1>13 DEF B!Next

LEMMA ProgrammedInit ==
  ASSUME B!Init
  PROVE  Programmed
BY DEF B!Init, Programmed, Staging, Lowered

LEMMA ProgrammedGives ==
  ASSUME Programmed
  PROVE  B!KernelGetsItsPrograms
<1>. SUFFICES ASSUME pc \in {"direct", "summarize"}
              PROVE  given = [p \in DOMAIN B!wanted |-> [prefix |-> p, layout |-> layout, image |-> ImageOf(p)]]
  BY DEF B!KernelGetsItsPrograms, ImageOf, Programmed
<1>1. \A p \in DOMAIN B!wanted : B!Key(p) = [prefix |-> p, layout |-> layout, image |-> ImageOf(p)]
  BY DEF Programmed, Lowered, B!Key
<1>. QED
  BY <1>1 DEF Programmed

\* With the compile cache, every kernel is run with the programs of its own case,
\* whatever runs, kills and edits of the repository came before it.
THEOREM KernelsGetTheirPrograms ==
  ASSUME B!BaselineAssumption, AllCached
  PROVE  B!Spec => []B!KernelGetsItsPrograms
<1>1. B!Init => Programmed
  BY ProgrammedInit
<1>2. Typed /\ Programmed /\ [B!Next]_B!vars => Programmed'
  BY ProgrammedStep
<1>3. Programmed => B!KernelGetsItsPrograms
  BY ProgrammedGives
<1>. QED
  BY <1>1, <1>2, <1>3, TypedAlways, PTL DEF B!Spec

-----------------------------------------------------------------------------
\* A log that shows a fetch counts as activity, so the diagnosis of a core that
\* fetches and does nothing else is never made.
THEOREM FetchesAreActivity ==
  ASSUME NEW seen \in SUBSET B!Flags
  PROVE  B!DeadReason(seen) # "fetch_without_retire_or_lsu"
BY DEF B!DeadReason, B!Activity

-----------------------------------------------------------------------------

VARIABLES vpc, session, test, todo, summaries, results, overall, report
CONSTANTS Runner, Named, Tests, Returns

V == INSTANCE ToggleValidation WITH pc <- vpc, files <- summaries

\* The entries made so far are those of the targets that are done, and each is
\* of this session.
IsOwnEntry(entry) ==
  /\ entry.returncode \in {0} \cup Returns
  /\ entry.returncode = 0 => entry.summary = [session |-> session, test |-> test]
  /\ Runner.told => entry.execute_status = IF entry.returncode = 0 THEN "success" ELSE "failed"

Reported ==
  /\ vpc \in {"idle", "run", "done"} /\ session \in Nat
  /\ todo \subseteq V!Targets
  /\ overall \in Int /\ overall >= 0
  /\ vpc \in {"run", "done"} =>
       /\ DOMAIN results = V!Targets \ todo
       /\ \A t \in DOMAIN results : IsOwnEntry(results[t]) /\ results[t].returncode <= overall
  /\ vpc = "done" =>
       todo = {} /\ report = [session |-> session, results |-> results]

LEMMA ReturnCodesAreIntegers ==
  ASSUME V!ValidationAssumption, NEW entry, IsOwnEntry(entry)
  PROVE  entry.returncode \in Int
<1>1. \A rc \in {0} \cup Returns : rc \in Int
  BY DEF V!ValidationAssumption
<1>2. entry.returncode \in {0} \cup Returns
  BY DEF IsOwnEntry
<1>. QED
  BY <1>1, <1>2

LEMMA EntryIsOwn ==
  ASSUME V!ValidationAssumption, Reported, NEW t, NEW rc \in {0} \cup Returns,
         NEW file \in V!BaselineLeaves(t, rc)
  PROVE  IsOwnEntry(V!Entry(rc, file))
<1>1. rc = 0 => file = [session |-> session, test |-> test]
  BY DEF V!BaselineLeaves
<1>2. [session |-> session, test |-> test] \notin {V!Missing, V!Torn}
  <2>1. session >= 0
    BY DEF Reported
  <2>2. [session |-> session, test |-> test].session = session
    OBVIOUS
  <2>3. V!Missing.session = -1 /\ V!Torn.session = -2
    BY DEF V!Missing, V!Torn
  <2>. QED
    BY <2>1, <2>2, <2>3
<1>3. V!Entry(rc, file).returncode = rc
  BY DEF V!Entry
<1>4. rc = 0 => V!Entry(rc, file).summary = [session |-> session, test |-> test]
  BY <1>1, <1>2 DEF V!Entry
<1>5. Runner.told => V!Entry(rc, file).execute_status = IF rc = 0 THEN "success" ELSE "failed"
  BY DEF V!Entry
<1>. QED
  BY <1>3, <1>4, <1>5 DEF IsOwnEntry

LEMMA ReportedStep ==
  ASSUME V!ValidationAssumption, Reported, [V!Next]_V!vars
  PROVE  Reported'
<1>1. CASE UNCHANGED V!vars
  BY <1>1 DEF V!vars, Reported, IsOwnEntry, V!Targets
<1>2. CASE V!Start
  <2>1. /\ vpc' = "run" /\ session' = session + 1 /\ todo' = V!Targets
        /\ DOMAIN results' = {} /\ overall' = 0
    BY <1>2 DEF V!Start
  <2>. QED
    BY <2>1 DEF Reported, V!Targets
<1>3. CASE V!RunBaseline
  <2>0. PICK t \in todo, rc \in {0} \cup Returns :
          \E file \in V!BaselineLeaves(t, rc) :
            /\ results' = [u \in DOMAIN results \cup {t} |-> IF u = t THEN V!Entry(rc, file) ELSE results[u]]
            /\ overall' = V!Larger(overall, rc)
            /\ todo' = todo \ {t}
    BY <1>3 DEF V!RunBaseline
  <2>1. PICK file \in V!BaselineLeaves(t, rc) :
          /\ results' = [u \in DOMAIN results \cup {t} |-> IF u = t THEN V!Entry(rc, file) ELSE results[u]]
          /\ overall' = V!Larger(overall, rc)
          /\ todo' = todo \ {t}
    BY <2>0
  <2>2. vpc = "run" /\ vpc' = "run" /\ session' = session /\ test' = test
    BY <1>3 DEF V!RunBaseline
  <2>3. rc \in Int
    BY DEF V!ValidationAssumption
  <2>4. overall' \in Int /\ overall' >= 0 /\ overall' >= overall /\ overall' >= rc
    BY <2>1, <2>3 DEF V!Larger, Reported
  <2>5. IsOwnEntry(V!Entry(rc, file)) /\ V!Entry(rc, file).returncode = rc
    BY EntryIsOwn DEF V!Entry
  <2>6. DOMAIN results' = V!Targets \ todo'
    BY <2>1, <2>2 DEF Reported
  <2>7. ASSUME NEW u \in DOMAIN results'
        PROVE  IsOwnEntry(results'[u]) /\ results'[u].returncode <= overall'
    <3>1. CASE u = t
      BY <2>1, <2>4, <2>5, <3>1
    <3>2. CASE u # t
      <4>1. u \in DOMAIN results /\ results'[u] = results[u]
        BY <2>1, <3>2
      <4>2. IsOwnEntry(results[u]) /\ results[u].returncode <= overall
        BY <2>2, <4>1 DEF Reported
      <4>3. results[u].returncode \in Int
        BY <4>2, ReturnCodesAreIntegers
      <4>. QED
        BY <2>4, <4>1, <4>2, <4>3 DEF Reported
    <3>. QED
      BY <3>1, <3>2
  <2>8. \A u \in DOMAIN results' : IsOwnEntry(results[u])'
    BY <2>2, <2>7 DEF IsOwnEntry
  <2>. QED
    BY <2>1, <2>2, <2>4, <2>6, <2>7, <2>8 DEF Reported, V!Targets
<1>4. CASE V!Finish
  BY <1>4 DEF V!Finish, Reported, IsOwnEntry, V!Targets
<1>5. CASE V!Kill
  BY <1>5 DEF V!Kill, Reported, V!Targets
<1>. QED
  BY <1>1, <1>2, <1>3, <1>4, <1>5 DEF V!Next

LEMMA ReportedTells ==
  ASSUME V!ValidationAssumption, Reported
  PROVE  V!SuccessIsReportedFresh /\ V!ExitTellsFailures
<1>. SUFFICES ASSUME vpc = "done"
              PROVE  V!SuccessIsReportedFresh /\ V!ExitTellsFailures
  BY DEF V!SuccessIsReportedFresh, V!ExitTellsFailures
<1>1. report.session = session /\ report.results = results /\ DOMAIN results = V!Targets
  BY DEF Reported
<1>2. \A t \in V!Targets : IsOwnEntry(results[t]) /\ results[t].returncode <= overall
  BY <1>1 DEF Reported
<1>3. \A t \in V!Targets : results[t].returncode \in Int
  BY <1>2, ReturnCodesAreIntegers
<1>4. V!SuccessIsReportedFresh
  BY <1>1, <1>2 DEF V!SuccessIsReportedFresh, IsOwnEntry
<1>5. ASSUME overall = 0, NEW t \in V!Targets
      PROVE  /\ results[t].returncode <= 0
             /\ Returns \subseteq Nat => results[t].returncode = 0
             /\ Runner.told => (results[t].execute_status = "failed" <=> results[t].returncode < 0)
  <2>1. results[t].returncode <= 0
    BY <1>2, <1>5
  <2>2. Returns \subseteq Nat => results[t].returncode = 0
    <3>1. PICK rc : rc = results[t].returncode
      OBVIOUS
    <3>2. rc \in {0} \cup Returns /\ rc <= 0
      BY <1>2, <2>1, <3>1 DEF IsOwnEntry
    <3>3. Returns \subseteq Nat => rc = 0
      BY <3>2
    <3>. QED
      BY <3>1, <3>3
  <2>3. results[t].returncode = 0 <=> ~(results[t].returncode < 0)
    BY <1>3, <2>1
  <2>. QED
    BY <1>2, <2>1, <2>2, <2>3 DEF IsOwnEntry
<1>. QED
  BY <1>1, <1>4, <1>5 DEF V!ExitTellsFailures

\* A toggle validation report tells, of every target, the baseline of its own
\* session, and an exit status of 0 that no baseline failed other than by a signal.
THEOREM ReportsTellTheirSession ==
  ASSUME V!ValidationAssumption
  PROVE  V!Spec => [](V!SuccessIsReportedFresh /\ V!ExitTellsFailures)
<1>1. V!Init => Reported
  BY DEF V!Init, Reported
<1>2. Reported /\ [V!Next]_V!vars => Reported'
  BY ReportedStep
<1>3. Reported => V!SuccessIsReportedFresh /\ V!ExitTellsFailures
  BY ReportedTells
<1>. QED
  BY <1>1, <1>2, <1>3, PTL DEF V!Spec
=============================================================================
