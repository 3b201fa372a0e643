----------------------------- MODULE MailboxLoop ----------------------------
(***************************************************************************)
(* The runtime session of the hybrid debug mailbox: its three queues, the  *)
(* main loop that serves commands (HYBRID_DEBUG_MAILBOX_LOOP_RUNTIME.h)    *)
(* and the calls a host makes on the session between two dispatches        *)
(* (HYBRID_DEBUG_MAILBOX_EPOCH_RUNTIME.h).                                 *)
(*                                                                         *)
(* The queues are those of MailboxQueue, which MailboxRing implements with *)
(* Room = capacity_entries - 1.  Everything runs on one thread: the host   *)
(* acts while phase = "idle", and while a command executes only its        *)
(* dispatch hook does.  What a command reads and writes is abstracted to   *)
(* what the loop looks at: the event it raises, the fault it leaves and    *)
(* the request id of its response.                                         *)
(***************************************************************************)
EXTENDS Integers, Sequences

CONSTANTS
    Room,         \* entries each queue holds: 31 in a session
    CounterRange, \* the overflow counters are uint32_t: 2^32
    UintMax,      \* UINT32_MAX, the limit of a call made with maxCommands = 0
    MaxRequests,  \* bound of the model: commands the host ever pushes
    MaxCommands   \* bound of the model: the largest limit a host asks for

ASSUME RoomAssumption == Room \in Nat \ {0}
ASSUME CounterRangeAssumption == CounterRange \in Nat \ {0}
ASSUME UintMaxAssumption == UintMax \in Nat \ {0}
ASSUME MaxRequestsAssumption == MaxRequests \in Nat
ASSUME MaxCommandsAssumption == MaxCommands \in Nat

VARIABLES
    commands, responses, events,  \* the contents of the three rings
    overflow,                     \* their overflow_count
    dispatch_busy,
    last_fault,
    phase,                        \* where the main loop stands
    call,                         \* the arguments of the call being served
    processed, total_processed,   \* of this pass, of the passes of RunLoop
    cmd, rsp, ev,                 \* the main loop's locals
    stop_event,                   \* *stopEventp
    accepted, collected,          \* commands accepted, answers handed out
    raised, taken                 \* events raised, events handed out
                                  \* (these four count; the code does not)

host == <<accepted, collected, raised, taken>>
local == <<cmd, rsp, ev>>
progress == <<call, processed, total_processed, stop_event>>
vars == <<commands, responses, events, overflow, dispatch_busy, last_fault,
          phase, progress, local, host>>

\* Opcodes by what they can do: "query" answers and no more (NOP,
\* GET_STOP_REASON, the breakpoint and watchpoint opcodes, unknown ones),
\* "run" steps the design, "access" reads or writes a register or memory
\* through a dispatch hook or the mock.
Op == {"query", "run", "access"}

\* The communication faults of the loop by the place that records them;
\* "step" stands for the faults of a step function, "h2d" for the host's.
Fault == {"none", "response_full", "event_full", "execute", "event_push",
          "response_push", "step", "h2d"}

Phase == {"idle", "check", "execute", "reply", "finish"}

\* "stop" stands for the STOP, BREAKPOINT and WATCHPOINT events.
NoEvent == [type |-> "none", serial |-> 0]
FaultEvent == [type |-> "fault", serial |-> 0]
NoCommand == [id |-> 0, op |-> "query"]
Full(queue) == Len(queue) = Room
Holding == IF phase \in {"execute", "reply"} THEN 1 ELSE 0

\* hybridDebugMailboxRuntimeSessionInit.
Init ==
    /\ commands = <<>> /\ responses = <<>> /\ events = <<>>
    /\ overflow = [commands |-> 0, responses |-> 0, events |-> 0]
    /\ dispatch_busy = FALSE
    /\ last_fault = "none"
    /\ phase = "idle"
    /\ call = [limit |-> 1, stop_on_event |-> FALSE, consume |-> FALSE, run_loop |-> FALSE]
    /\ processed = 0 /\ total_processed = 0
    /\ cmd = NoCommand /\ rsp = 0 /\ ev = NoEvent
    /\ stop_event = NoEvent
    /\ accepted = 0 /\ collected = 0 /\ raised = 0 /\ taken = 0

-----------------------------------------------------------------------------
(* Calls on the session.  A push is made by the host between dispatches or *)
(* by a dispatch hook while a command executes.                            *)

\* Mutation: the session does not look at dispatch_busy.
PushWhileBusy(op) ==
    /\ phase \in {"idle", "execute"}
    /\ ~Full(commands)
    /\ accepted < MaxRequests
    /\ commands' = Append(commands, [id |-> accepted + 1, op |-> op])
    /\ accepted' = accepted + 1
    /\ UNCHANGED <<responses, events, overflow, dispatch_busy, last_fault, phase,
                   progress, local, collected, raised, taken>>

PushCommand(op) ==
    /\ phase \in {"idle", "execute"}
    /\ ~dispatch_busy
    /\ ~Full(commands)
    /\ accepted < MaxRequests
    /\ commands' = Append(commands, [id |-> accepted + 1, op |-> op])
    /\ accepted' = accepted + 1
    /\ UNCHANGED <<responses, events, overflow, dispatch_busy, last_fault, phase,
                   progress, local, collected, raised, taken>>

PushRefused ==
    /\ phase \in {"idle", "execute"}
    /\ ~dispatch_busy
    /\ Full(commands)
    /\ overflow' = [overflow EXCEPT !.commands = (@ + 1) % CounterRange]
    /\ UNCHANGED <<commands, responses, events, dispatch_busy, last_fault, phase,
                   progress, local, host>>

PopResponse ==
    /\ phase = "idle"
    /\ responses # <<>>
    /\ responses' = Tail(responses)
    /\ collected' = collected + 1
    /\ UNCHANGED <<commands, events, overflow, dispatch_busy, last_fault, phase,
                   progress, local, accepted, raised, taken>>

PopEvent ==
    /\ phase = "idle"
    /\ events # <<>>
    /\ events' = Tail(events)
    /\ taken' = taken + 1
    /\ UNCHANGED <<commands, responses, overflow, dispatch_busy, last_fault, phase,
                   progress, local, accepted, collected, raised>>

\* The host gives up what it has not collected: nothing is owed to it.
ResetQueues ==
    /\ phase = "idle"
    /\ commands' = <<>> /\ responses' = <<>> /\ events' = <<>>
    /\ overflow' = [commands |-> 0, responses |-> 0, events |-> 0]
    /\ collected' = accepted
    /\ taken' = raised
    /\ UNCHANGED <<dispatch_busy, last_fault, phase, progress, local, accepted, raised>>

\* SessionSeed, SessionClearFault, or a RunUntilEvent of the host itself.
ClearFault ==
    /\ phase = "idle"
    /\ last_fault # "none"
    /\ last_fault' = "none"
    /\ UNCHANGED <<commands, responses, events, overflow, dispatch_busy, phase,
                   progress, local, host>>

\* The host records that its push was refused, or that its own run failed.
SetFault ==
    /\ phase = "idle"
    /\ last_fault' \in {"h2d", "step"}
    /\ UNCHANGED <<commands, responses, events, overflow, dispatch_busy, phase,
                   progress, local, host>>

\* Mutation: a limit of zero is taken as it is.
LimitAsGiven(maxCommands) == maxCommands

Limit(maxCommands) == IF maxCommands = 0 THEN UintMax ELSE maxCommands

Begin(maxCommands, stop_on_event, consume, run_loop) ==
    /\ phase = "idle"
    /\ phase' = "check"
    /\ call' = [limit |-> Limit(maxCommands), stop_on_event |-> stop_on_event,
                consume |-> consume, run_loop |-> run_loop]
    /\ processed' = 0 /\ total_processed' = 0
    /\ stop_event' = NoEvent
    /\ UNCHANGED <<commands, responses, events, overflow, dispatch_busy, last_fault,
                   local, host>>

Dispatch(n) == Begin(n, FALSE, FALSE, FALSE)
Serve(n) == Begin(n, TRUE, FALSE, FALSE)
ServeUntilEvent(n) == Begin(n, TRUE, TRUE, FALSE)
RunLoop(n) == Begin(n, TRUE, TRUE, TRUE)

-----------------------------------------------------------------------------
(* The main loop.                                                          *)

\* limit of this pass of the main loop: RunLoop passes what is left of its own.
PassLimit == call.limit - total_processed

\* Mutation: backpressure records the fault and looks again.
BackpressureSpins ==
    /\ phase = "check" /\ processed < PassLimit
    /\ Full(responses) \/ Full(events)
    /\ last_fault' = IF Full(responses) THEN "response_full" ELSE "event_full"
    /\ UNCHANGED <<commands, responses, events, overflow, dispatch_busy, phase,
                   progress, local, host>>

\* Mutation: backpressure ends the loop and records nothing.
BackpressureSilent ==
    /\ phase = "check" /\ processed < PassLimit
    /\ Full(responses) \/ Full(events)
    /\ phase' = "finish"
    /\ UNCHANGED <<commands, responses, events, overflow, dispatch_busy, last_fault,
                   progress, local, host>>

Backpressure ==
    /\ phase = "check" /\ processed < PassLimit
    /\ Full(responses) \/ Full(events)
    /\ last_fault' = IF Full(responses) THEN "response_full" ELSE "event_full"
    /\ phase' = "finish"
    /\ UNCHANGED <<commands, responses, events, overflow, dispatch_busy, progress, local, host>>

NothingToDo ==
    /\ phase = "check"
    /\ \/ processed >= PassLimit
       \/ commands = <<>> /\ ~Full(responses) /\ ~Full(events)
    /\ phase' = "finish"
    /\ UNCHANGED <<commands, responses, events, overflow, dispatch_busy, last_fault,
                   progress, local, host>>

\* Mutation: only the response ring is asked for room.
TakeCommandUnchecked ==
    /\ phase = "check" /\ processed < PassLimit
    /\ ~Full(responses)
    /\ commands # <<>>
    /\ cmd' = Head(commands)
    /\ commands' = Tail(commands)
    /\ rsp' = 0 /\ ev' = NoEvent
    /\ dispatch_busy' = TRUE
    /\ phase' = "execute"
    /\ UNCHANGED <<responses, events, overflow, last_fault, progress, host>>

TakeCommand ==
    /\ phase = "check" /\ processed < PassLimit
    /\ ~Full(responses) /\ ~Full(events)
    /\ commands # <<>>
    /\ cmd' = Head(commands)
    /\ commands' = Tail(commands)
    /\ rsp' = 0 /\ ev' = NoEvent
    /\ dispatch_busy' = TRUE
    /\ phase' = "execute"
    /\ UNCHANGED <<responses, events, overflow, last_fault, progress, host>>

\* What executing a command can come to: the request id of its response, the
\* type of its event and the fault it leaves.  A run clears last_fault, always
\* ends in an event, and faults either with a detail of the step function or by
\* a FAULT stop reason of a step that succeeded.  A hook that returns a negative
\* value makes the function "return -1", which is true: the loop goes on with
\* the empty response it passed in, whose request id is 0.
Outcome(c) ==
    CASE c.op = "query" -> {[id |-> c.id, event |-> "none", fault |-> last_fault]}
      [] c.op = "run" -> {[id |-> c.id, event |-> "stop", fault |-> "none"],
                          [id |-> c.id, event |-> "fault", fault |-> "step"],
                          [id |-> c.id, event |-> "fault", fault |-> "none"]}
      [] c.op = "access" -> {[id |-> c.id, event |-> "none", fault |-> last_fault],
                             [id |-> c.id, event |-> "stop", fault |-> last_fault],
                             [id |-> 0, event |-> "none", fault |-> last_fault]}

ExecuteCommand ==
    /\ phase = "execute"
    /\ \E o \in Outcome(cmd) :
         /\ rsp' = o.id
         /\ last_fault' = o.fault
         /\ IF o.event = "none"
            THEN ev' = NoEvent /\ UNCHANGED raised
            ELSE ev' = [type |-> o.event, serial |-> raised + 1] /\ raised' = raised + 1
    /\ dispatch_busy' = FALSE
    /\ phase' = "reply"
    /\ UNCHANGED <<commands, responses, events, overflow, progress, cmd,
                   accepted, collected, taken>>

\* The event is pushed, then the response, and a stopping event is popped again;
\* cmd, rsp and ev go out of scope.
EventLost == ev # NoEvent /\ Full(events)
ResponseLost == ~EventLost /\ Full(responses)
Replied == ~EventLost /\ ~ResponseLost
Stopping == Replied /\ call.stop_on_event /\ ev # NoEvent
EventsPushed == IF ev = NoEvent \/ EventLost THEN events ELSE Append(events, ev)

\* Mutation: a stopping event leaves the loop before the response is pushed.
ReplyEventFirst ==
    /\ phase = "reply"
    /\ responses' = IF Replied /\ ~Stopping THEN Append(responses, rsp) ELSE responses
    /\ events' = IF Stopping /\ call.consume THEN Tail(EventsPushed) ELSE EventsPushed
    /\ stop_event' = IF Stopping /\ call.consume THEN Head(EventsPushed) ELSE stop_event
    /\ taken' = IF Stopping /\ call.consume THEN taken + 1 ELSE taken
    /\ processed' = processed + 1
    /\ phase' = IF Stopping THEN "finish" ELSE "check"
    /\ cmd' = NoCommand /\ rsp' = 0 /\ ev' = NoEvent
    /\ UNCHANGED <<commands, overflow, dispatch_busy, last_fault, call, total_processed,
                   accepted, collected, raised>>

\* Mutation: the stopping event is handed out and not popped.
ReplyPeeks ==
    /\ phase = "reply"
    /\ responses' = Append(responses, rsp)
    /\ events' = EventsPushed
    /\ stop_event' = IF Stopping /\ call.consume THEN Head(EventsPushed) ELSE stop_event
    /\ taken' = IF Stopping /\ call.consume THEN taken + 1 ELSE taken
    /\ processed' = processed + 1
    /\ phase' = IF Stopping THEN "finish" ELSE "check"
    /\ cmd' = NoCommand /\ rsp' = 0 /\ ev' = NoEvent
    /\ UNCHANGED <<commands, overflow, dispatch_busy, last_fault, call, total_processed,
                   accepted, collected, raised>>

Reply ==
    /\ phase = "reply"
    /\ responses' = IF Replied THEN Append(responses, rsp) ELSE responses
    /\ events' = IF Stopping /\ call.consume THEN Tail(EventsPushed) ELSE EventsPushed
    /\ stop_event' = IF Stopping /\ call.consume THEN Head(EventsPushed) ELSE stop_event
    /\ taken' = IF Stopping /\ call.consume THEN taken + 1 ELSE taken
    /\ overflow' = [overflow EXCEPT
            !.events = IF EventLost THEN (@ + 1) % CounterRange ELSE @,
            !.responses = IF ResponseLost THEN (@ + 1) % CounterRange ELSE @]
    /\ last_fault' = CASE EventLost -> "event_push"
                       [] ResponseLost -> "response_push"
                       [] OTHER -> last_fault
    /\ processed' = IF Replied THEN processed + 1 ELSE processed
    /\ phase' = IF Replied /\ ~Stopping THEN "check" ELSE "finish"
    /\ cmd' = NoCommand /\ rsp' = 0 /\ ev' = NoEvent
    /\ UNCHANGED <<commands, dispatch_busy, call, total_processed,
                   accepted, collected, raised>>

\* The end of a pass: a fault is reported when no event is, and RunLoop decides
\* whether to make another pass.
Reported == IF call.consume /\ stop_event = NoEvent /\ last_fault # "none"
            THEN FaultEvent ELSE stop_event

Again ==
    /\ call.run_loop
    /\ Reported = NoEvent
    /\ last_fault = "none"
    /\ processed # 0
    /\ commands # <<>>
    /\ total_processed + processed < call.limit

Return ==
    /\ phase = "finish"
    /\ stop_event' = Reported
    /\ total_processed' = total_processed + processed
    /\ processed' = 0
    /\ phase' = IF Again THEN "check" ELSE "idle"
    /\ UNCHANGED <<commands, responses, events, overflow, dispatch_busy, last_fault,
                   call, local, host>>

-----------------------------------------------------------------------------

Host ==
    \/ \E op \in Op : PushCommand(op)
    \/ PushRefused
    \/ PopResponse
    \/ PopEvent
    \/ ResetQueues
    \/ ClearFault
    \/ SetFault
    \/ \E n \in 0 .. MaxCommands : Dispatch(n) \/ Serve(n) \/ ServeUntilEvent(n) \/ RunLoop(n)

MainLoop ==
    \/ Backpressure
    \/ NothingToDo
    \/ TakeCommand
    \/ ExecuteCommand
    \/ Reply
    \/ Return

Next == Host \/ MainLoop

Spec == Init /\ [][Next]_vars

\* The thread that made a call runs it: hooks and step functions return.
FairSpec == Spec /\ WF_vars(MainLoop)

-----------------------------------------------------------------------------

Command == [id : 1 .. MaxRequests, op : Op]
Event == [type : {"stop", "fault"}, serial : Nat]

TypeOK ==
    /\ commands \in Seq(Command)
    /\ responses \in Seq(Nat)
    /\ events \in Seq(Event)
    /\ overflow \in [{"commands", "responses", "events"} -> 0 .. CounterRange - 1]
    /\ dispatch_busy \in BOOLEAN
    /\ last_fault \in Fault
    /\ phase \in Phase
    /\ call \in [limit : Nat \ {0}, stop_on_event : BOOLEAN, consume : BOOLEAN,
                 run_loop : BOOLEAN]
    /\ processed \in Nat /\ total_processed \in Nat
    /\ cmd \in Command \cup {NoCommand}
    /\ rsp \in Nat
    /\ ev \in Event \cup {NoEvent}
    /\ stop_event \in Event \cup {NoEvent}
    /\ accepted \in 0 .. MaxRequests
    /\ collected \in Nat /\ raised \in Nat /\ taken \in Nat

\* Every command the session accepted is waiting, executing, answered or
\* collected, in the order of the pushes: no path out of the main loop drops a
\* command or answers it twice.  An answer carries the id of its command, or 0
\* when a hook failed.
AnsweredOnceInOrder ==
    /\ accepted = collected + Len(responses) + Holding + Len(commands)
    /\ \A i \in DOMAIN responses : responses[i] \in {collected + i, 0}
    /\ phase \in {"execute", "reply"} => cmd.id = collected + Len(responses) + 1
    /\ \A i \in DOMAIN commands :
          commands[i].id = collected + Len(responses) + Holding + i

\* Every event raised is in the ring, about to be pushed, or was handed out,
\* and events are handed out in the order they were raised, whichever of
\* PopEvent and a consuming dispatch takes them.
EventsInOrder ==
    /\ raised = taken + Len(events) + (IF phase = "reply" /\ ev # NoEvent THEN 1 ELSE 0)
    /\ \A i \in DOMAIN events : events[i].serial = taken + i
    /\ phase = "reply" /\ ev # NoEvent => ev.serial = raised

\* The loop takes a command only when its reply will fit: the two pushes of
\* a reply never fail, so the faults 4 and 5 of the loop are never recorded and
\* a ring that is full never costs an answer.
RepliesHaveRoom ==
    /\ Len(commands) <= Room /\ Len(responses) <= Room /\ Len(events) <= Room
    /\ phase \in {"execute", "reply"} => Len(responses) < Room /\ Len(events) < Room
    /\ overflow.responses = 0 /\ overflow.events = 0
    /\ last_fault \notin {"event_push", "response_push", "execute"}

\* No command enters the session while one is being served, a hook's included,
\* so a dispatch works on the commands that were waiting when it began.
DispatchOnlyDrains ==
    [][phase # "idle" => Len(commands') <= Len(commands)]_vars

\* A call that hands out an event says so when it stops early: without an event
\* it served every waiting command, or as many as it was allowed.
NoSilentStop ==
    [][phase = "finish" /\ phase' = "idle" /\ call.consume /\ stop_event' = NoEvent
        => commands = <<>> \/ total_processed' = call.limit]_vars

\* Every call on the session returns: backpressure, faults and the retries of
\* RunLoop end it.
CallReturns == phase # "idle" ~> phase = "idle"
=============================================================================
