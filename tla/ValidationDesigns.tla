-------------------------- MODULE ValidationDesigns --------------------------
(***************************************************************************)
(* The validation runners of src/src/runners: for each of twenty-one       *)
(* designs one that measures the hybrid simulation, one that measures the  *)
(* CPU baseline and one that compares the two files.  They repeat one      *)
(* logic (Validation) and differ in what is recorded here.                 *)
(***************************************************************************)
EXTENDS Integers

\* bits: the default of --campaign-threshold-bits, in the toggle bits that must
\* be hit.  cycles: those run after the reset.  edges: the clock levels the host
\* then sets one by one.  program: what is first put into the build directory,
\* which raises if it is absent.
Run(bits, cycles) == [bits |-> bits, cycles |-> cycles, edges |-> 0, program |-> "none"]
RunOf(program) == [Run(8, 64) EXCEPT !.program = program]

\* gate: what threshold_satisfied asks of the outputs besides.  reported:
\* whether status "ok" needs the host report.  exits: whose verdict the exit
\* code is.  layout: when the flow reads the host report, which tells where the
\* outputs are; socket_m1 has a header for it.
Replays(run) ==
  [run |-> run, gate |-> "replay", reported |-> TRUE, exits |-> "status", layout |-> "before"]

Ungated(run) ==
  [Replays(run) EXCEPT !.gate = "none", !.reported = FALSE, !.exits = "flow", !.layout = "after"]

Measures(run) == [run |-> run]

\* enrolled: the launch template has an enrollment section, for the trio tool.
Compares(hybrid, baseline) == [hybrid |-> hybrid, baseline |-> baseline, enrolled |-> FALSE]
Enrolled(hybrid, baseline) == [hybrid |-> hybrid, baseline |-> baseline, enrolled |-> TRUE]

Socket1nHybrid == Replays(Run(26, 8))
Socket1nBaseline == Measures(Run(26, 8))
Socket1n == Compares(Socket1nHybrid, Socket1nBaseline)

TlulErrHybrid == Replays(Run(9, 2))
TlulErrBaseline == Measures(Run(9, 2))
TlulErr == Compares(TlulErrHybrid, TlulErrBaseline)

TlulSinkHybrid == Replays(Run(5, 2))
TlulSinkBaseline == Measures(Run(5, 2))
TlulSink == Compares(TlulSinkHybrid, TlulSinkBaseline)

FifoAsyncHybrid == Replays(Run(35, 16))
FifoAsyncBaseline == Measures(Run(35, 16))
FifoAsync == Compares(FifoAsyncHybrid, FifoAsyncBaseline)

XbarMainHybrid == Replays(Run(47, 96))
XbarMainBaseline == Measures(Run(47, 96))
XbarMain == Compares(XbarMainHybrid, XbarMainBaseline)

XbarPeriHybrid == Replays(Run(47, 88))
XbarPeriBaseline == Measures(Run(47, 88))
XbarPeri == Compares(XbarPeriHybrid, XbarPeriBaseline)

\* Clock and reset belong to the host: the sequence 1,0 of clk_i is replayed.
EdgeRun == [Run(3, 2) EXCEPT !.edges = 2]
FifoSyncHybrid == [Replays(EdgeRun) EXCEPT !.gate = "edges", !.exits = "flow"]
FifoSyncBaseline == Measures(EdgeRun)
FifoSync == Compares(FifoSyncHybrid, FifoSyncBaseline)

\* The promotion and handoff gates of the loopback are reported, not asked for.
LoopbackHybrid == Ungated(Run(2, 2))
LoopbackBaseline == Measures(Run(2, 2))
Loopback == Compares(LoopbackHybrid, LoopbackBaseline)

SocketM1Hybrid == [Ungated(Run(3, 2)) EXCEPT !.layout = "header"]
SocketM1Baseline == Measures(Run(3, 2))
SocketM1 == Compares(SocketM1Hybrid, SocketM1Baseline)

XuanTieE902Hybrid == Replays(RunOf("hello/case.pat"))
XuanTieE902Baseline == Measures(RunOf("hello/case.pat"))
XuanTieE902 == Compares(XuanTieE902Hybrid, XuanTieE902Baseline)

XuanTieE906Hybrid == Replays(RunOf("cmark/case.pat"))
XuanTieE906Baseline == Measures(RunOf("cmark/case.pat"))
XuanTieE906 == Compares(XuanTieE906Hybrid, XuanTieE906Baseline)

XuanTieC906Hybrid == Replays(RunOf("hello/inst.pat and data.pat"))
XuanTieC906Baseline == Measures(RunOf("hello/inst.pat and data.pat"))
XuanTieC906 == Compares(XuanTieC906Hybrid, XuanTieC906Baseline)

XuanTieC910Hybrid == Replays(RunOf("hello/inst.pat and data.pat"))
XuanTieC910Baseline == Measures(RunOf("hello/inst.pat and data.pat"))
XuanTieC910 == Compares(XuanTieC910Hybrid, XuanTieC910Baseline)

VeerEh1Hybrid == Replays(RunOf("hello/program.hex"))
VeerEh1Baseline == Measures(RunOf("hello/program.hex"))
VeerEh1 == Enrolled(VeerEh1Hybrid, VeerEh1Baseline)

\* The thin runners, which call the functions of enrollment_common.
VeerEh2Hybrid == Replays(RunOf("hello/program.hex"))
VeerEh2Baseline == Measures(RunOf("hello/program.hex"))
VeerEh2 == Enrolled(VeerEh2Hybrid, VeerEh2Baseline)

VeerEl2Hybrid == Replays(RunOf("hello/program.hex"))
VeerEl2Baseline == Measures(RunOf("hello/program.hex"))
VeerEl2 == Enrolled(VeerEl2Hybrid, VeerEl2Baseline)

BlackParrotHybrid == Replays(RunOf("hello/prog.mem"))
BlackParrotBaseline == Measures(RunOf("hello/prog.mem"))
BlackParrot == Enrolled(BlackParrotHybrid, BlackParrotBaseline)

OpenPitonHybrid == Replays(RunOf("hello/mem.bin"))
OpenPitonBaseline == Measures(RunOf("hello/mem.bin"))
OpenPiton == Enrolled(OpenPitonHybrid, OpenPitonBaseline)

VortexHybrid == Replays(RunOf("hello/init.bin, post.bin and dcrs.bin"))
VortexBaseline == Measures(RunOf("hello/init.bin, post.bin and dcrs.bin"))
Vortex == Enrolled(VortexHybrid, VortexBaseline)

CaliptraHybrid == Replays(RunOf("hello/program.hex and the three memories"))
CaliptraBaseline == Measures(RunOf("hello/program.hex and the three memories"))
Caliptra == Enrolled(CaliptraHybrid, CaliptraBaseline)

XiangShanHybrid == Replays(RunOf("hello/program.bin"))
XiangShanBaseline == Measures(RunOf("hello/program.bin"))
XiangShan == Enrolled(XiangShanHybrid, XiangShanBaseline)

TlulDesigns ==
  {Socket1n, TlulErr, TlulSink, FifoAsync, XbarMain, XbarPeri, FifoSync, Loopback, SocketM1}
CpuDesigns ==
  {XuanTieE902, XuanTieE906, XuanTieC906, XuanTieC910, VeerEh1, VeerEh2, VeerEl2,
   BlackParrot, OpenPiton, Vortex, Caliptra, XiangShan}

\* Left to their defaults the two runners of a design run the same program for
\* as many cycles and clock edges, and aim at one threshold.
ASSUME DefaultsAgree == \A d \in TlulDesigns \cup CpuDesigns : d.hybrid.run = d.baseline.run
=============================================================================
