----------------------------- MODULE MailboxRun -----------------------------
(***************************************************************************)
(* How a mailbox session runs the design: RunUntilEvent with its epoch     *)
(* limit, timeout, external stop and breakpoint, and RunCycles with its    *)
(* cycle target (HYBRID_DEBUG_MAILBOX_LOOP_RUNTIME.h), one action per      *)
(* epoch.  Cycle counts and the pc are uint64_t and wrap; the step         *)
(* function, which launches the GPU pass, is known by what it reports.     *)
(***************************************************************************)
EXTENDS Integers

CONSTANTS
    Word,      \* 2^64: cycle_count and pc are taken modulo Word
    MaxDelta,  \* the most cycles one step reports
    PcDelta,   \* pc_delta_per_epoch: 4 unless the pc is a bound register
    MaxLimit,  \* bound of the model: the largest limit, timeout or target asked for
    SeedCycles,  \* bounds of the model: the cycle counts and the stop
    SeedReasons  \* reasons a session is seeded with

ASSUME WordAssumption == Word \in Nat /\ MaxDelta \in Nat \ {0} /\ PcDelta \in 0 .. Word - 1
\* A target or timeout as near to 2^64 as a step is long could be jumped over.
ASSUME LimitAssumption == MaxLimit \in Nat /\ MaxLimit + MaxDelta < Word
ASSUME SeedAssumption ==
    /\ SeedCycles \subseteq 0 .. Word - 1
    /\ SeedReasons \subseteq {"none", "epoch_limit", "run_cycles_done", "breakpoint",
                             "watchpoint", "external_stop", "timeout", "fault"}

VARIABLES
    cycle_count, pc, breakpoint,  \* hybrid_debug_mailbox_mock_state_t
    watchpoint,                   \* one is set
    last_stop_reason, last_fault, \* "step": of a run, "queue": of a ring
    phase,                        \* "idle", "loop" or "finish"
    run,                          \* the operation and its arguments
    start_cycle, epochs, stop_reason,
    event_type, status,           \* of the reply to the last run command
    ran, last_delta               \* cycles stepped by this run, by its last step
                                  \* (for the properties; the code has elapsedCycles)

arch == <<cycle_count, pc>>
reply == <<event_type, status>>
locals == <<start_cycle, epochs, stop_reason, ran, last_delta>>
vars == <<arch, breakpoint, watchpoint, last_stop_reason, last_fault, phase, run, locals, reply>>

Never == Word - 1     \* UINT64_MAX: no timeout, no external stop, here no breakpoint
Plus(a, b) == (a + b) % Word
Elapsed == (cycle_count + Word - start_cycle) % Word

Reason == {"none", "epoch_limit", "run_cycles_done", "breakpoint", "watchpoint",
           "external_stop", "timeout", "fault"}

\* Mutation: every stop reason is an event type of its own.
ClassifyAsReason(reason) == reason

\* hybridDebugMailboxClassifyStopEventType.
ClassifyStopEventType(reason) ==
    CASE reason \in {"breakpoint", "watchpoint", "fault", "none"} -> reason
      [] OTHER -> "stop"

NoRun == [op |-> "none", limit |-> 0, external_stop_at |-> Never, timeout_at |-> Never,
          pc_delta |-> 0]

Init ==
    /\ cycle_count \in SeedCycles /\ pc = 0 /\ breakpoint = Never /\ watchpoint = FALSE
    /\ last_stop_reason = "none" /\ last_fault = "none"
    /\ phase = "idle" /\ run = NoRun
    /\ start_cycle = 0 /\ epochs = 0 /\ stop_reason = "none" /\ ran = 0 /\ last_delta = 0
    /\ event_type = "none" /\ status = "ok"

-----------------------------------------------------------------------------
(* Between two runs: the other commands, hybrid_debug_mailbox_mock_execute_ *)
(* immediate or the dispatch hooks of the bench script.                    *)

Breakpoints == {Never, 0, PcDelta}
Pcs == {0, PcDelta}     \* bound of the model: the pcs written or seeded

\* The SET_BREAKPOINT and CLEAR_BREAKPOINT opcodes.
SetBreakpoint(at) ==
    /\ phase = "idle"
    /\ breakpoint' = at
    /\ UNCHANGED <<arch, watchpoint, last_stop_reason, last_fault, phase, run, locals, reply>>

\* The SET_WATCHPOINT and CLEAR_WATCHPOINT opcodes.
SetWatchpoint(on) ==
    /\ phase = "idle"
    /\ watchpoint' = on
    /\ UNCHANGED <<arch, breakpoint, last_stop_reason, last_fault, phase, run, locals, reply>>

\* WRITE_REG of the debug pc.
WritePc(at) ==
    /\ phase = "idle"
    /\ pc' = at
    /\ UNCHANGED <<cycle_count, breakpoint, watchpoint, last_stop_reason, last_fault, phase,
                   run, locals, reply>>

\* READ_MEM or WRITE_MEM of the watched word: the last stop is the watchpoint
\* now, and a recorded fault stays where it is.
HitWatchpoint ==
    /\ phase = "idle" /\ watchpoint
    /\ last_stop_reason' = "watchpoint"
    /\ UNCHANGED <<arch, breakpoint, watchpoint, last_fault, phase, run, locals, reply>>

\* A full ring, or a command that cannot be executed, is recorded as a fault by
\* the main loop and by the bench script; no run command is answered with it.
QueueFault ==
    /\ phase = "idle"
    /\ last_fault' = "queue" /\ last_stop_reason' = "fault"
    /\ UNCHANGED <<arch, breakpoint, watchpoint, phase, run, locals, reply>>

\* hybridDebugMailboxRuntimeSessionClearFault, called by the host.
ClearFault ==
    /\ phase = "idle"
    /\ last_fault' = "none"
    /\ UNCHANGED <<arch, breakpoint, watchpoint, last_stop_reason, phase, run, locals, reply>>

\* hybridDebugMailboxRuntimeSessionSeed, without and with a state to start from.
Seed(cycles, at, reason) ==
    /\ phase = "idle"
    /\ cycle_count' = cycles /\ pc' = at
    /\ last_stop_reason' = reason /\ last_fault' = "none"
    /\ \/ watchpoint' = FALSE /\ UNCHANGED breakpoint
       \/ watchpoint' \in BOOLEAN /\ breakpoint' \in Breakpoints
    /\ UNCHANGED <<phase, run, locals, reply>>

\* Mutation: a run starts without clearing the fault of the last one.
BeginKeepingFault(r) ==
    /\ phase = "idle"
    /\ phase' = "loop"
    /\ run' = r
    /\ start_cycle' = cycle_count
    /\ epochs' = 0 /\ stop_reason' = "none" /\ ran' = 0 /\ last_delta' = 0
    /\ UNCHANGED <<arch, breakpoint, watchpoint, last_stop_reason, last_fault, reply>>

Begin(r) ==
    /\ phase = "idle"
    /\ phase' = "loop"
    /\ run' = r
    /\ last_fault' = "none"
    /\ start_cycle' = cycle_count
    /\ epochs' = 0 /\ stop_reason' = "none" /\ ran' = 0 /\ last_delta' = 0
    /\ UNCHANGED <<arch, breakpoint, watchpoint, last_stop_reason, reply>>

RunUntilEvent(limit, external_stop_at, timeout_at) ==
    Begin([op |-> "run_until_event", limit |-> limit, external_stop_at |-> external_stop_at,
           timeout_at |-> timeout_at, pc_delta |-> PcDelta])

RunCycles(target) ==
    Begin([op |-> "run_cycles", limit |-> target, external_stop_at |-> Never,
           timeout_at |-> Never, pc_delta |-> 0])

-----------------------------------------------------------------------------
(* The loop of a run.                                                      *)

Until == run.op = "run_until_event"

\* The loop condition: epochs are counted by one, cycles are compared.
Continues == phase = "loop" /\ (IF Until THEN epochs < run.limit ELSE Elapsed < run.limit)

TimedOut(elapsed) == run.timeout_at # Never /\ elapsed >= run.timeout_at

Stop(reason) ==
    /\ stop_reason' = reason
    /\ phase' = "finish"

TimeoutBeforeStep ==
    /\ Continues
    /\ TimedOut(Elapsed)
    /\ Stop("timeout")
    /\ UNCHANGED <<arch, breakpoint, watchpoint, last_stop_reason, last_fault, run, start_cycle,
                   epochs, ran, last_delta, reply>>

\* Mutation: one epoch more than asked for.
ExternalStopDue == epochs > run.external_stop_at

ExternalStopAt == epochs >= run.external_stop_at

ExternalStop ==
    /\ Continues
    /\ ~TimedOut(Elapsed)
    /\ run.external_stop_at # Never /\ ExternalStopAt
    /\ Stop("external_stop")
    /\ UNCHANGED <<arch, breakpoint, watchpoint, last_stop_reason, last_fault, run, start_cycle,
                   epochs, ran, last_delta, reply>>

Steps ==
    /\ Continues
    /\ ~TimedOut(Elapsed)
    /\ ~(run.external_stop_at # Never /\ ExternalStopAt)

\* Mutation: a failed step rolls the run back and tries again.
StepFailsRetried ==
    /\ Steps
    /\ cycle_count' = start_cycle
    /\ epochs' = 0 /\ ran' = 0 /\ last_delta' = 0
    /\ UNCHANGED <<pc, breakpoint, watchpoint, last_fault, last_stop_reason, phase, run, start_cycle, stop_reason, reply>>

\* The step function failed: its detail, or one made up for it, is recorded.
StepFails ==
    /\ Steps
    /\ last_fault' = "step"
    /\ last_stop_reason' = "fault"
    /\ Stop("fault")
    /\ UNCHANGED <<arch, breakpoint, watchpoint, run, start_cycle, epochs, ran, last_delta, reply>>

\* A step that reports no cycles counts one.
CycleDelta(reported) == IF reported # 0 THEN reported ELSE 1

\* Mutation: elapsed cycles are compared as absolute counts.
AfterStepAbsolute(reason, cycles, at) ==
    IF reason # "none" THEN reason
    ELSE IF Until /\ breakpoint # Never /\ at = breakpoint THEN "breakpoint"
    ELSE IF Until /\ TimedOut(cycles - start_cycle) THEN "timeout"
    ELSE "none"

\* Why the run stops after a step that left these counts, in the order the
\* code asks: the step's own reason, the breakpoint, the timeout.
AfterStep(reason, cycles, at) ==
    IF reason # "none" THEN reason
    ELSE IF Until /\ breakpoint # Never /\ at = breakpoint THEN "breakpoint"
    ELSE IF Until /\ TimedOut((cycles + Word - start_cycle) % Word) THEN "timeout"
    ELSE "none"

Step(cycle_delta, pc_delta, reason) ==
    /\ Steps
    /\ cycle_count' = Plus(cycle_count, CycleDelta(cycle_delta))
    /\ pc' = Plus(pc, IF pc_delta # 0 THEN pc_delta ELSE run.pc_delta)
    /\ epochs' = epochs + 1
    /\ ran' = ran + CycleDelta(cycle_delta)
    /\ last_delta' = CycleDelta(cycle_delta)
    /\ stop_reason' = AfterStep(reason, cycle_count', pc')
    /\ phase' = IF stop_reason' = "none" THEN "loop" ELSE "finish"
    /\ UNCHANGED <<breakpoint, watchpoint, last_stop_reason, last_fault, run, start_cycle, reply>>

LoopEnds ==
    /\ phase = "loop" /\ ~Continues
    /\ Stop(IF Until THEN "epoch_limit" ELSE "run_cycles_done")
    /\ UNCHANGED <<arch, breakpoint, watchpoint, last_stop_reason, last_fault, run, start_cycle,
                   epochs, ran, last_delta, reply>>

\* The reply of the command handlers ExecuteRunUntilEvent and ExecuteRunCycles;
\* the locals of the run go out of scope.
Finish ==
    /\ phase = "finish"
    /\ last_stop_reason' = stop_reason
    /\ event_type' = ClassifyStopEventType(stop_reason)
    /\ status' = CASE stop_reason = "fault" -> "fault"
                   [] stop_reason = "timeout" /\ Until -> "timeout"
                   [] OTHER -> "ok"
    /\ phase' = "idle"
    /\ run' = NoRun
    /\ start_cycle' = 0 /\ epochs' = 0 /\ stop_reason' = "none" /\ ran' = 0 /\ last_delta' = 0
    /\ UNCHANGED <<arch, breakpoint, watchpoint, last_fault>>

Loop ==
    \/ TimeoutBeforeStep
    \/ ExternalStop
    \/ StepFails
    \/ \E c \in 0 .. MaxDelta, p \in {0, PcDelta}, r \in {"none", "watchpoint", "fault"} :
          Step(c, p, r)
    \/ LoopEnds
    \/ Finish

Limits == 0 .. MaxLimit

Next ==
    \/ \E at \in Breakpoints : SetBreakpoint(at)
    \/ \E on \in BOOLEAN : SetWatchpoint(on)
    \/ \E at \in Pcs : WritePc(at)
    \/ HitWatchpoint
    \/ QueueFault
    \/ ClearFault
    \/ \E c \in SeedCycles, at \in Pcs, r \in SeedReasons : Seed(c, at, r)
    \/ \E n \in Limits, x \in Limits \cup {Never}, t \in Limits \cup {Never} :
          RunUntilEvent(n, x, t)
    \/ \E n \in Limits : RunCycles(n)
    \/ Loop

Spec == Init /\ [][Next]_vars

\* A run is a loop on one thread: it goes on as long as its steps return.
FairSpec == Spec /\ WF_vars(Loop)

-----------------------------------------------------------------------------

TypeOK ==
    /\ cycle_count \in 0 .. Word - 1 /\ pc \in 0 .. Word - 1 /\ breakpoint \in 0 .. Word - 1
    /\ watchpoint \in BOOLEAN
    /\ last_stop_reason \in Reason /\ last_fault \in {"none", "step", "queue"}
    /\ phase \in {"idle", "loop", "finish"}
    /\ run \in [op : {"none", "run_until_event", "run_cycles"}, limit : Limits,
                external_stop_at : Limits \cup {Never}, timeout_at : Limits \cup {Never},
                pc_delta : {0, PcDelta}]
    /\ start_cycle \in 0 .. Word - 1 /\ epochs \in Nat /\ stop_reason \in Reason
    /\ event_type \in {"none", "stop", "breakpoint", "watchpoint", "fault"}
    /\ status \in {"ok", "fault", "timeout"}
    /\ ran \in Nat /\ last_delta \in 0 .. MaxDelta

\* The stop reason is the truth about the cycles and epochs that were run, even
\* when cycle_count wrapped on the way: a timeout or target is reported when it
\* is reached and not a step later, and a limit only if nothing came before it.
ReasonTellsWhy ==
    phase = "finish" =>
      /\ stop_reason = "timeout" =>
            run.timeout_at <= ran /\ (ran = 0 \/ ran - last_delta < run.timeout_at)
      /\ stop_reason = "external_stop" => epochs = run.external_stop_at
      /\ stop_reason = "epoch_limit" =>
            /\ epochs = run.limit
            /\ run.timeout_at = Never \/ ran < run.timeout_at \/ epochs = 0
            /\ run.external_stop_at = Never \/ epochs <= run.external_stop_at
      /\ stop_reason = "run_cycles_done" =>
            run.limit <= ran /\ (ran = 0 \/ ran - last_delta < run.limit)
      /\ stop_reason = "breakpoint" => pc = breakpoint /\ epochs > 0

\* A fault of a run that is still on record is that of the last run, and its
\* reply told it: no run that ended well leaves the detail of an earlier failure
\* behind, whatever commands came in between. The session still stands at the
\* fault, or at a watchpoint that a memory command has hit since.
FaultIsCurrent ==
    phase = "idle" /\ last_fault # "none" =>
      /\ last_stop_reason \in {"fault", "watchpoint"}
      /\ last_fault = "step" => event_type = "fault" /\ status = "fault"

\* Every run ends, by one of its limits if by nothing else.
RunEnds == phase = "loop" ~> phase = "idle"
=============================================================================
