------------------------- MODULE MailboxLoop_proofs -------------------------
(***************************************************************************)
(* Proofs about the mailbox main loop, for every size of the rings and     *)
(* every number of commands.                                               *)
(***************************************************************************)
EXTENDS MailboxLoop, SequenceTheorems, TLAPS

USE RoomAssumption, CounterRangeAssumption, UintMaxAssumption, MaxRequestsAssumption,
    MaxCommandsAssumption

\* dispatch_busy is the execution of a command, no more and no less.
BusyWhileExecuting == dispatch_busy = (phase = "execute")

\* Where the loop stands, and why it stopped.
LoopProgress ==
    /\ call.consume => call.stop_on_event
    /\ phase # "idle" => processed <= PassLimit
    /\ phase \in {"execute", "reply"} => processed < PassLimit
    /\ phase \in {"check", "execute", "reply"} => stop_event = NoEvent
    /\ phase = "finish" /\ call.consume /\ stop_event = NoEvent /\ last_fault = "none"
         => commands = <<>> \/ processed = PassLimit

\* The response about to be pushed is the command's, or empty.
ResponseMatches == phase = "reply" => rsp \in {cmd.id, 0}

Inv ==
    /\ TypeOK
    /\ ResponseMatches
    /\ BusyWhileExecuting
    /\ RepliesHaveRoom
    /\ LoopProgress
    /\ AnsweredOnceInOrder
    /\ EventsInOrder

-----------------------------------------------------------------------------

\* The head and the tail of a nonempty sequence, entry by entry.
LEMMA TailFacts ==
    ASSUME NEW S, NEW q \in Seq(S), q # <<>>
    PROVE  /\ Tail(q) \in Seq(S)
           /\ Head(q) \in S
           /\ Head(q) = q[1]
           /\ Len(q) \in Nat /\ Len(q) > 0
           /\ Len(Tail(q)) = Len(q) - 1
           /\ \A i \in 1 .. Len(q) - 1 : Tail(q)[i] = q[i + 1]
<1>1. Len(q) \in Nat /\ Len(q) > 0
  BY LenProperties, EmptySeq
<1>2. Tail(q) \in Seq(S) /\ Len(Tail(q)) = Len(q) - 1
      /\ \A i \in 1 .. Len(q) - 1 : Tail(q)[i] = q[i + 1]
  BY HeadTailProperties
<1>3. Head(q) \in S /\ Head(q) = q[1]
  BY <1>1, HeadTailProperties, ElementOfSeq
<1>. QED  BY <1>1, <1>2, <1>3

LEMMA AppendFacts ==
    ASSUME NEW S, NEW q \in Seq(S), NEW x \in S
    PROVE  /\ Append(q, x) \in Seq(S)
           /\ Append(q, x) # <<>>
           /\ Len(q) \in Nat
           /\ Len(Append(q, x)) = Len(q) + 1
           /\ \A i \in 1 .. Len(q) : Append(q, x)[i] = q[i]
           /\ Append(q, x)[Len(q) + 1] = x
BY AppendProperties, LenProperties, EmptySeq

LEMMA EmptyFacts ==
    ASSUME NEW S
    PROVE  /\ <<>> \in Seq(S) /\ Len(<<>>) = 0
BY EmptySeq

\* What a command can come to, as far as types go.
LEMMA OutcomeType ==
    ASSUME TypeOK, phase = "execute", NEW o \in Outcome(cmd)
    PROVE  /\ o.id \in Nat
           /\ o.fault \in {last_fault, "none", "step"}
           /\ o.event \in {"none", "stop", "fault"}
           /\ o.id \in {cmd.id, 0}
<1>1. cmd.op \in Op /\ cmd.id \in Nat
  BY DEF TypeOK, Command, NoCommand, Op
<1>2. CASE cmd.op = "query"
  BY <1>1, <1>2 DEF Outcome
<1>3. CASE cmd.op = "run"
  BY <1>1, <1>3 DEF Outcome
<1>4. CASE cmd.op = "access"
  BY <1>1, <1>4 DEF Outcome
<1>. QED  BY <1>1, <1>2, <1>3, <1>4 DEF Op

LEMMA CounterStep ==
    ASSUME NEW n \in 0 .. CounterRange - 1
    PROVE  (n + 1) % CounterRange \in 0 .. CounterRange - 1
OBVIOUS

\* Advancing one of the overflow counters.
Counters == [{"commands", "responses", "events"} -> 0 .. CounterRange - 1]

LEMMA OverflowStep ==
    ASSUME NEW o \in Counters, NEW k \in {"commands", "responses", "events"},
           NEW n \in 0 .. CounterRange - 1
    PROVE  [o EXCEPT ![k] = n] \in Counters
BY DEF Counters

\* What Reply does to the events when it does not lose one.
LEMMA EventsPushedType ==
    ASSUME TypeOK
    PROVE  /\ EventsPushed \in Seq(Event)
           /\ Stopping => EventsPushed # <<>> /\ ev \in Event
                          /\ Tail(EventsPushed) \in Seq(Event)
                          /\ Head(EventsPushed) \in Event
<1>1. CASE ev = NoEvent \/ EventLost
  BY <1>1 DEF EventsPushed, TypeOK, Stopping, Replied
<1>2. CASE ~(ev = NoEvent \/ EventLost)
  <2>1. ev \in Event /\ events \in Seq(Event)
    BY <1>2 DEF TypeOK
  <2>2. EventsPushed = Append(events, ev)
    BY <1>2 DEF EventsPushed
  <2>3. EventsPushed \in Seq(Event) /\ EventsPushed # <<>>
    BY <2>1, <2>2, AppendFacts
  <2>. QED  BY <2>1, <2>3, TailFacts
<1>. QED  BY <1>1, <1>2

LEMMA TypeStep == TypeOK /\ [Next]_vars => TypeOK'
<1>. SUFFICES ASSUME TypeOK, [Next]_vars PROVE TypeOK'
  OBVIOUS
<1>. USE DEF host, local, progress
<1>e. /\ <<>> \in Seq(Command) /\ <<>> \in Seq(Nat) /\ <<>> \in Seq(Event)
      /\ NoEvent \in Event \cup {NoEvent}
  BY EmptyFacts
<1>1. ASSUME NEW op \in Op, PushCommand(op) PROVE TypeOK'
  <2>1. [id |-> accepted + 1, op |-> op] \in Command
    BY <1>1 DEF PushCommand, Command, TypeOK
  <2>2. commands' \in Seq(Command)
    BY <1>1, <2>1, AppendFacts DEF PushCommand, TypeOK
  <2>. QED  BY <1>1, <2>2 DEF PushCommand, TypeOK
<1>2. CASE PushRefused
  <2>1. overflow' = [overflow EXCEPT !["commands"] = (overflow["commands"] + 1) % CounterRange]
    BY <1>2 DEF PushRefused
  <2>2. overflow \in Counters /\ overflow["commands"] \in 0 .. CounterRange - 1
    BY DEF TypeOK, Counters
  <2>3. overflow' \in Counters
    BY <2>1, <2>2, CounterStep, OverflowStep
  <2>. QED  BY <1>2, <2>3 DEF PushRefused, TypeOK, Counters
<1>3. CASE PopResponse
  <2>1. responses' \in Seq(Nat)
    BY <1>3, TailFacts DEF PopResponse, TypeOK
  <2>. QED  BY <1>3, <2>1 DEF PopResponse, TypeOK
<1>4. CASE PopEvent
  <2>1. events' \in Seq(Event)
    BY <1>4, TailFacts DEF PopEvent, TypeOK
  <2>. QED  BY <1>4, <2>1 DEF PopEvent, TypeOK
<1>5. CASE ResetQueues
  BY <1>5, <1>e DEF ResetQueues, TypeOK
<1>6. CASE ClearFault
  BY <1>6 DEF ClearFault, TypeOK, Fault
<1>7. CASE SetFault
  BY <1>7 DEF SetFault, TypeOK, Fault
<1>8. ASSUME NEW n \in 0 .. MaxCommands,
             Dispatch(n) \/ Serve(n) \/ ServeUntilEvent(n) \/ RunLoop(n)
      PROVE  TypeOK'
  <2>1. PICK s \in BOOLEAN, c \in BOOLEAN, r \in BOOLEAN : Begin(n, s, c, r)
    BY <1>8 DEF Dispatch, Serve, ServeUntilEvent, RunLoop
  <2>2. Limit(n) \in Nat \ {0}
    BY DEF Limit
  <2>3. call' \in [limit : Nat \ {0}, stop_on_event : BOOLEAN, consume : BOOLEAN,
                  run_loop : BOOLEAN]
    BY <2>1, <2>2 DEF Begin
  <2>. QED  BY <2>1, <2>3, <1>e DEF Begin, TypeOK, Phase
<1>9. CASE Backpressure
  BY <1>9 DEF Backpressure, TypeOK, Fault, Phase
<1>10. CASE NothingToDo
  BY <1>10 DEF NothingToDo, TypeOK, Phase
<1>11. CASE TakeCommand
  <2>1. commands' \in Seq(Command) /\ cmd' \in Command
    BY <1>11, TailFacts DEF TakeCommand, TypeOK
  <2>. QED  BY <1>11, <1>e, <2>1 DEF TakeCommand, TypeOK, Phase
<1>12. CASE ExecuteCommand
  <2>1. PICK o \in Outcome(cmd) :
          /\ rsp' = o.id
          /\ last_fault' = o.fault
          /\ IF o.event = "none"
             THEN ev' = NoEvent /\ UNCHANGED raised
             ELSE ev' = [type |-> o.event, serial |-> raised + 1] /\ raised' = raised + 1
    BY <1>12 DEF ExecuteCommand
  <2>2. rsp' \in Nat /\ last_fault' \in Fault
    BY <1>12, <2>1, OutcomeType DEF ExecuteCommand, TypeOK, Fault
  <2>3. ev' \in Event \cup {NoEvent} /\ raised' \in Nat
    BY <1>12, <2>1, OutcomeType DEF ExecuteCommand, TypeOK, Event
  <2>. QED  BY <1>12, <2>2, <2>3 DEF ExecuteCommand, TypeOK, Phase
<1>13. CASE Reply
  <2>1. responses' \in Seq(Nat)
    BY <1>13, AppendFacts DEF Reply, TypeOK
  <2>2. events' \in Seq(Event) /\ stop_event' \in Event \cup {NoEvent}
    BY <1>13, EventsPushedType DEF Reply, TypeOK
  <2>3. overflow' \in [{"commands", "responses", "events"} -> 0 .. CounterRange - 1]
    <3>. DEFINE e == IF EventLost THEN (overflow["events"] + 1) % CounterRange
                                  ELSE overflow["events"]
                r == IF ResponseLost THEN (overflow["responses"] + 1) % CounterRange
                                     ELSE overflow["responses"]
    <3>1. overflow \in Counters /\ overflow["events"] \in 0 .. CounterRange - 1
          /\ overflow["responses"] \in 0 .. CounterRange - 1
      BY DEF TypeOK, Counters
    <3>2. e \in 0 .. CounterRange - 1 /\ r \in 0 .. CounterRange - 1
      BY <3>1, CounterStep
    <3>3. overflow' = [[overflow EXCEPT !["events"] = e] EXCEPT !["responses"] = r]
      BY <1>13 DEF Reply, Counters
    <3>. HIDE DEF e, r
    <3>4. [overflow EXCEPT !["events"] = e] \in Counters
      BY <3>1, <3>2, OverflowStep
    <3>5. overflow' \in Counters
      BY <3>2, <3>3, <3>4, OverflowStep
    <3>. QED  BY <3>5 DEF Counters
  <2>4. last_fault' \in Fault
    BY <1>13 DEF Reply, TypeOK, Fault
  <2>5. phase' \in Phase /\ processed' \in Nat /\ taken' \in Nat
    <3>1. phase' = "check" \/ phase' = "finish"
      BY <1>13 DEF Reply
    <3>2. processed' = processed + 1 \/ processed' = processed
      BY <1>13 DEF Reply
    <3>3. taken' = taken + 1 \/ taken' = taken
      BY <1>13 DEF Reply
    <3>. QED  BY <3>1, <3>2, <3>3, SMTT(30) DEF TypeOK, Phase
  <2>6. /\ UNCHANGED <<commands, dispatch_busy, call, total_processed, accepted, collected, raised>>
        /\ cmd' = NoCommand /\ rsp' = 0 /\ ev' = NoEvent
    BY <1>13 DEF Reply
  <2>. QED  BY <2>1, <2>2, <2>3, <2>4, <2>5, <2>6 DEF TypeOK
<1>14. CASE Return
  <2>1. stop_event' \in Event \cup {NoEvent} \cup {FaultEvent}
    BY <1>14 DEF Return, Reported, TypeOK
  <2>2. FaultEvent \in Event
    BY DEF FaultEvent, Event
  <2>. QED  BY <1>14, <2>1, <2>2 DEF Return, TypeOK, Phase
<1>15. CASE UNCHANGED vars
  BY <1>15 DEF vars, TypeOK
<1>. QED
  BY <1>1, <1>2, <1>3, <1>4, <1>5, <1>6, <1>7, <1>8, <1>9, <1>10, <1>11, <1>12, <1>13,
     <1>14, <1>15 DEF Next, Host, MainLoop

LEMMA TypeInit == Init => TypeOK
<1>. SUFFICES ASSUME Init PROVE TypeOK
  OBVIOUS
<1>1. commands \in Seq(Command) /\ responses \in Seq(Nat) /\ events \in Seq(Event)
  BY EmptyFacts DEF Init
<1>2. overflow \in [{"commands", "responses", "events"} -> 0 .. CounterRange - 1]
  BY DEF Init
<1>3. call \in [limit : Nat \ {0}, stop_on_event : BOOLEAN, consume : BOOLEAN,
               run_loop : BOOLEAN]
  BY DEF Init
<1>4. /\ dispatch_busy \in BOOLEAN /\ last_fault \in Fault /\ phase \in Phase
      /\ processed \in Nat /\ total_processed \in Nat
  BY DEF Init, Fault, Phase
<1>5. cmd = NoCommand /\ rsp = 0 /\ ev = NoEvent /\ stop_event = NoEvent
      /\ accepted = 0 /\ collected = 0 /\ raised = 0 /\ taken = 0
  BY DEF Init
<1>. QED  BY <1>1, <1>2, <1>3, <1>4, <1>5 DEF TypeOK

\* The fields of the session and of the loop keep their types; in particular a
\* call's limit is never the zero that stands for "no limit".
THEOREM TypeCorrect == Spec => []TypeOK
BY TypeInit, TypeStep, PTL DEF Spec

-----------------------------------------------------------------------------
(* The safety invariants.  RepliesHaveRoom is what makes Reply store both   *)
(* the event and the response; the other parts follow action by action.     *)

LEMMA StepTypes == Inv /\ [Next]_vars => TypeOK /\ TypeOK'
BY TypeStep DEF Inv

\* With room for both, Reply stores the response and the event.
LEMMA ReplyStores ==
    ASSUME Inv, Reply
    PROVE  /\ responses' = Append(responses, rsp)
           /\ overflow' = overflow
           /\ last_fault' = last_fault
           /\ processed' = processed + 1
           /\ Replied
           /\ Stopping <=> call.stop_on_event /\ ev # NoEvent
           /\ EventsPushed = IF ev = NoEvent THEN events ELSE Append(events, ev)
           /\ phase' = IF Stopping THEN "finish" ELSE "check"
<1>1. phase = "reply" /\ Len(responses) \in Nat /\ Len(events) \in Nat
  BY LenProperties DEF Reply, Inv, TypeOK
<1>2. Len(responses) < Room /\ Len(events) < Room
  BY <1>1 DEF Inv, RepliesHaveRoom
<1>3. ~EventLost /\ ~ResponseLost
  BY <1>1, <1>2 DEF EventLost, ResponseLost, Full
<1>4. Replied
  BY <1>3 DEF Replied
<1>5. overflow' = overflow
  <2>1. overflow' = [overflow EXCEPT !.events = overflow.events,
                                     !.responses = overflow.responses]
    BY <1>3 DEF Reply
  <2>. QED  BY <2>1 DEF Inv, TypeOK
<1>6. last_fault' = last_fault
  BY <1>3 DEF Reply
<1>7. EventsPushed = IF ev = NoEvent THEN events ELSE Append(events, ev)
  BY <1>3 DEF EventsPushed
<1>. QED  BY <1>4, <1>5, <1>6, <1>7 DEF Reply, Stopping

LEMMA BusyStep == Inv /\ [Next]_vars => BusyWhileExecuting'
<1>. SUFFICES ASSUME Inv, [Next]_vars PROVE BusyWhileExecuting'
  OBVIOUS
<1>. USE DEF BusyWhileExecuting, Inv
<1>1. CASE Host
  BY <1>1 DEF Host, PushCommand, PushRefused, PopResponse, PopEvent, ResetQueues, ClearFault,
     SetFault, Dispatch, Serve, ServeUntilEvent, RunLoop, Begin
<1>2. CASE Backpressure \/ NothingToDo \/ TakeCommand \/ ExecuteCommand
  BY <1>2 DEF Backpressure, NothingToDo, TakeCommand, ExecuteCommand
<1>3. CASE Reply
  BY <1>3 DEF Reply
<1>4. CASE Return
  BY <1>4 DEF Return
<1>5. CASE UNCHANGED vars
  BY <1>5 DEF vars
<1>. QED  BY <1>1, <1>2, <1>3, <1>4, <1>5 DEF Next, MainLoop

LEMMA RoomStep == Inv /\ [Next]_vars => RepliesHaveRoom'
<1>. SUFFICES ASSUME Inv, [Next]_vars PROVE RepliesHaveRoom'
  OBVIOUS
<1>. USE DEF RepliesHaveRoom, Full
<1>t. TypeOK /\ TypeOK' /\ RepliesHaveRoom
  BY StepTypes DEF Inv
<1>l. /\ Len(commands) \in Nat /\ Len(responses) \in Nat /\ Len(events) \in Nat
      /\ Len(commands') \in Nat /\ Len(responses') \in Nat /\ Len(events') \in Nat
  BY <1>t, LenProperties DEF TypeOK
<1>1. ASSUME NEW op \in Op, PushCommand(op) PROVE RepliesHaveRoom'
  <2>1. [id |-> accepted + 1, op |-> op] \in Command
    BY <1>1, <1>t DEF PushCommand, Command, TypeOK
  <2>2. Len(commands') = Len(commands) + 1
    BY <1>1, <1>t, <2>1, AppendFacts DEF PushCommand, TypeOK
  <2>. QED  BY <1>1, <1>t, <1>l, <2>2 DEF PushCommand
<1>2. CASE PushRefused
  <2>1. overflow'.responses = overflow.responses /\ overflow'.events = overflow.events
    BY <1>2, <1>t DEF PushRefused, TypeOK
  <2>. QED  BY <1>2, <1>t, <2>1 DEF PushRefused
<1>3. CASE PopResponse
  <2>1. Len(responses') = Len(responses) - 1
    BY <1>3, <1>t, TailFacts DEF PopResponse, TypeOK
  <2>. QED  BY <1>3, <1>t, <1>l, <2>1 DEF PopResponse
<1>4. CASE PopEvent
  <2>1. Len(events') = Len(events) - 1
    BY <1>4, <1>t, TailFacts DEF PopEvent, TypeOK
  <2>. QED  BY <1>4, <1>t, <1>l, <2>1 DEF PopEvent
<1>5. CASE ResetQueues
  BY <1>5, <1>t, EmptyFacts DEF ResetQueues
<1>6. CASE ClearFault \/ SetFault
  BY <1>6, <1>t DEF ClearFault, SetFault
<1>7. ASSUME NEW n \in 0 .. MaxCommands,
             Dispatch(n) \/ Serve(n) \/ ServeUntilEvent(n) \/ RunLoop(n)
      PROVE  RepliesHaveRoom'
  BY <1>7, <1>t DEF Dispatch, Serve, ServeUntilEvent, RunLoop, Begin
<1>8. CASE Backpressure \/ NothingToDo
  BY <1>8, <1>t DEF Backpressure, NothingToDo
<1>9. CASE TakeCommand
  <2>1. Len(commands') = Len(commands) - 1
    BY <1>9, <1>t, TailFacts DEF TakeCommand, TypeOK
  <2>. QED  BY <1>9, <1>t, <1>l, <2>1 DEF TakeCommand
<1>10. CASE ExecuteCommand
  <2>1. last_fault' \in {last_fault, "none", "step"}
    BY <1>10, <1>t, OutcomeType DEF ExecuteCommand
  <2>. QED  BY <1>10, <1>t, <2>1 DEF ExecuteCommand
<1>11. CASE Reply
  <2>1. Len(responses) < Room /\ Len(events) < Room
    BY <1>11, <1>t DEF Reply
  <2>2. Len(responses') = Len(responses) + 1
    BY <1>11, <1>t, ReplyStores, AppendFacts DEF TypeOK
  <2>3. Len(EventsPushed) <= Len(events) + 1 /\ Len(EventsPushed) \in Nat
    <3>1. CASE ev = NoEvent
      BY <1>11, <1>l, <3>1, ReplyStores
    <3>2. CASE ev # NoEvent
      <4>1. ev \in Event /\ events \in Seq(Event)
        BY <1>t, <3>2 DEF TypeOK
      <4>2. EventsPushed = Append(events, ev)
        BY <1>11, <3>2, ReplyStores
      <4>. QED  BY <1>l, <4>1, <4>2, AppendFacts
    <3>. QED  BY <3>1, <3>2
  <2>4. Len(events') <= Len(events) + 1
    <3>1. CASE Stopping /\ call.consume
      <4>1. EventsPushed \in Seq(Event) /\ EventsPushed # <<>>
        BY <1>t, <3>1, EventsPushedType
      <4>2. events' = Tail(EventsPushed)
        BY <1>11, <3>1 DEF Reply
      <4>3. Len(events') = Len(EventsPushed) - 1
        BY <4>1, <4>2, TailFacts
      <4>. QED  BY <1>l, <2>3, <4>3
    <3>2. CASE ~(Stopping /\ call.consume)
      BY <1>11, <2>3, <3>2 DEF Reply
    <3>. QED  BY <3>1, <3>2
  <2>5. phase' \in {"finish", "check"} /\ overflow' = overflow /\ last_fault' = last_fault
        /\ commands' = commands
    BY <1>11, ReplyStores DEF Reply
  <2>. QED  BY <1>t, <1>l, <2>1, <2>2, <2>4, <2>5
<1>12. CASE Return
  BY <1>12, <1>t DEF Return
<1>13. CASE UNCHANGED vars
  BY <1>13, <1>t DEF vars
<1>. QED
  BY <1>1, <1>2, <1>3, <1>4, <1>5, <1>6, <1>7, <1>8, <1>9, <1>10, <1>11, <1>12, <1>13
  DEF Next, Host, MainLoop

LEMMA ProgressStep == Inv /\ [Next]_vars => LoopProgress'
<1>. SUFFICES ASSUME Inv, [Next]_vars PROVE LoopProgress'
  OBVIOUS
<1>. USE DEF LoopProgress, PassLimit
<1>t. TypeOK /\ TypeOK' /\ LoopProgress /\ BusyWhileExecuting
  BY StepTypes DEF Inv
<1>n. /\ processed \in Nat /\ total_processed \in Nat /\ call.limit \in Nat \ {0}
      /\ phase \in Phase
  BY <1>t DEF TypeOK
<1>1. ASSUME NEW op \in Op, PushCommand(op) PROVE LoopProgress'
  <2>1. phase = "idle"
    BY <1>1, <1>t DEF PushCommand, BusyWhileExecuting
  <2>. QED  BY <1>1, <1>t, <2>1 DEF PushCommand, progress, local
<1>2. CASE PushRefused \/ PopResponse \/ PopEvent
  BY <1>2, <1>t DEF PushRefused, PopResponse, PopEvent, progress, local, host
<1>3. CASE ResetQueues \/ ClearFault \/ SetFault
  BY <1>3, <1>t DEF ResetQueues, ClearFault, SetFault, progress, local, host
<1>4. ASSUME NEW n \in 0 .. MaxCommands,
             Dispatch(n) \/ Serve(n) \/ ServeUntilEvent(n) \/ RunLoop(n)
      PROVE  LoopProgress'
  <2>1. PICK s \in BOOLEAN, c \in BOOLEAN, r \in BOOLEAN : Begin(n, s, c, r) /\ (c => s)
    BY <1>4 DEF Dispatch, Serve, ServeUntilEvent, RunLoop
  <2>2. Limit(n) \in Nat \ {0}
    BY DEF Limit
  <2>. QED  BY <2>1, <2>2 DEF Begin
<1>5. CASE Backpressure
  BY <1>5, <1>t, <1>n DEF Backpressure, progress
<1>6. CASE NothingToDo
  BY <1>6, <1>t, <1>n DEF NothingToDo, progress
<1>7. CASE TakeCommand
  BY <1>7, <1>t, <1>n DEF TakeCommand, progress
<1>8. CASE ExecuteCommand
  BY <1>8, <1>t, <1>n DEF ExecuteCommand, progress
<1>9. CASE Reply
  <2>1. processed < PassLimit /\ stop_event = NoEvent
    BY <1>9, <1>t DEF Reply
  <2>2. processed' = processed + 1 /\ UNCHANGED <<call, total_processed>>
    BY <1>9, ReplyStores DEF Reply
  <2>3. processed' <= PassLimit'
    BY <1>n, <2>1, <2>2
  <2>4. CASE Stopping
    <3>1. phase' = "finish" /\ call.stop_on_event /\ ev # NoEvent
      BY <1>9, <2>4, ReplyStores
    <3>2. call.consume => stop_event' # NoEvent
      <4>1. call.consume => stop_event' \in Event
        BY <1>9, <1>t, <2>4, EventsPushedType DEF Reply
      <4>. QED  BY <4>1 DEF Event, NoEvent
    <3>. QED  BY <1>t, <2>2, <2>3, <3>1, <3>2
  <2>5. CASE ~Stopping
    <3>1. phase' = "check" /\ stop_event' = stop_event
      BY <1>9, <2>5, ReplyStores DEF Reply
    <3>. QED  BY <1>t, <2>1, <2>2, <2>3, <3>1
  <2>. QED  BY <2>4, <2>5
<1>10. CASE Return
  <2>1. CASE Again
    <3>1. stop_event' = NoEvent /\ phase' = "check" /\ processed' = 0 /\ call' = call
      BY <1>10, <2>1 DEF Return, Again
    <3>2. total_processed' = total_processed + processed
      BY <1>10 DEF Return
    <3>3. total_processed + processed < call.limit
      BY <2>1 DEF Again
    <3>. QED  BY <1>t, <1>n, <3>1, <3>2, <3>3
  <2>2. CASE ~Again
    BY <1>10, <1>t, <2>2 DEF Return
  <2>. QED  BY <2>1, <2>2
<1>11. CASE UNCHANGED vars
  BY <1>11, <1>t DEF vars, progress
<1>. QED
  BY <1>1, <1>2, <1>3, <1>4, <1>5, <1>6, <1>7, <1>8, <1>9, <1>10, <1>11
  DEF Next, Host, MainLoop

LEMMA AnsweredStep == Inv /\ [Next]_vars => AnsweredOnceInOrder'
<1>. SUFFICES ASSUME Inv, [Next]_vars PROVE AnsweredOnceInOrder'
  OBVIOUS
<1>t. TypeOK /\ TypeOK' /\ AnsweredOnceInOrder /\ BusyWhileExecuting
  BY StepTypes DEF Inv
<1>l. /\ Len(commands) \in Nat /\ Len(responses) \in Nat
      /\ DOMAIN commands = 1 .. Len(commands) /\ DOMAIN responses = 1 .. Len(responses)
      /\ DOMAIN commands' = 1 .. Len(commands') /\ DOMAIN responses' = 1 .. Len(responses')
      /\ collected \in Nat /\ accepted \in Nat /\ Holding \in {0, 1}
  BY <1>t, LenProperties DEF TypeOK, Holding
<1>. USE DEF AnsweredOnceInOrder
<1>1. ASSUME NEW op \in Op, PushCommand(op) PROVE AnsweredOnceInOrder'
  <2>1. phase = "idle" /\ Holding = 0 /\ Holding' = 0
    BY <1>1, <1>t DEF PushCommand, BusyWhileExecuting, Holding
  <2>2. [id |-> accepted + 1, op |-> op] \in Command
    BY <1>1, <1>t DEF PushCommand, Command, TypeOK
  <2>3. /\ Len(commands') = Len(commands) + 1
        /\ \A i \in 1 .. Len(commands) : commands'[i] = commands[i]
        /\ commands'[Len(commands) + 1] = [id |-> accepted + 1, op |-> op]
    BY <1>1, <1>t, <2>2, AppendFacts DEF PushCommand, TypeOK
  <2>4. \A i \in DOMAIN commands' : commands'[i].id = collected + Len(responses) + i
    <3>. SUFFICES ASSUME NEW i \in 1 .. Len(commands) + 1
                  PROVE  commands'[i].id = collected + Len(responses) + i
      BY <1>l, <2>3
    <3>1. CASE i \in 1 .. Len(commands)
      BY <1>t, <1>l, <2>1, <2>3, <3>1
    <3>2. CASE i = Len(commands) + 1
      BY <1>t, <1>l, <2>1, <2>3, <3>2
    <3>. QED  BY <1>l, <3>1, <3>2
  <2>. QED  BY <1>1, <1>t, <1>l, <2>1, <2>3, <2>4 DEF PushCommand
<1>2. CASE PopResponse
  <2>1. /\ Len(responses') = Len(responses) - 1 /\ Len(responses) > 0
        /\ \A i \in 1 .. Len(responses) - 1 : responses'[i] = responses[i + 1]
    BY <1>2, <1>t, TailFacts DEF PopResponse, TypeOK
  <2>2. UNCHANGED <<commands, phase, accepted>> /\ collected' = collected + 1 /\ phase = "idle"
    BY <1>2 DEF PopResponse
  <2>3. Holding = 0 /\ Holding' = 0
    BY <2>2 DEF Holding
  <2>4. \A i \in DOMAIN responses' : responses'[i] \in {collected' + i, 0}
    <3>. SUFFICES ASSUME NEW i \in 1 .. Len(responses) - 1
                  PROVE  responses'[i] \in {collected' + i, 0}
      BY <1>l, <2>1
    <3>1. i + 1 \in DOMAIN responses /\ responses'[i] = responses[i + 1]
      BY <1>l, <2>1
    <3>2. responses[i + 1] \in {collected + (i + 1), 0}
      BY <1>t, <3>1
    <3>. QED  BY <1>l, <2>2, <3>1, <3>2
  <2>. QED  BY <1>t, <1>l, <2>1, <2>2, <2>3, <2>4
<1>3. CASE ResetQueues
  <2>1. /\ commands' = <<>> /\ responses' = <<>> /\ collected' = accepted
        /\ accepted' = accepted /\ phase' = "idle"
    BY <1>3 DEF ResetQueues
  <2>2. Len(commands') = 0 /\ Len(responses') = 0 /\ Holding' = 0
    BY <2>1, EmptyFacts DEF Holding
  <2>. QED  BY <1>l, <2>1, <2>2
<1>4. CASE TakeCommand
  <2>1. /\ Len(commands') = Len(commands) - 1 /\ Len(commands) > 0
        /\ \A i \in 1 .. Len(commands) - 1 : commands'[i] = commands[i + 1]
        /\ cmd' = commands[1]
    BY <1>4, <1>t, TailFacts DEF TakeCommand, TypeOK
  <2>2. UNCHANGED <<responses, accepted, collected>>
        /\ Holding = 0 /\ Holding' = 1 /\ phase' = "execute"
    BY <1>4 DEF TakeCommand, Holding, host
  <2>3. cmd'.id = collected + Len(responses) + 1
    BY <1>t, <1>l, <2>1, <2>2, SMTT(30)
  <2>4. \A i \in DOMAIN commands' : commands'[i].id = collected + Len(responses) + 1 + i
    <3>. SUFFICES ASSUME NEW i \in 1 .. Len(commands) - 1
                  PROVE  commands'[i].id = collected + Len(responses) + 1 + i
      BY <1>l, <2>1
    <3>1. i + 1 \in DOMAIN commands /\ commands'[i] = commands[i + 1]
      BY <1>l, <2>1
    <3>2. commands[i + 1].id = collected + Len(responses) + (i + 1)
      BY <1>t, <1>l, <2>2, <3>1
    <3>. QED  BY <1>l, <3>1, <3>2
  <2>. QED  BY <1>t, <1>l, <2>1, <2>2, <2>3, <2>4
<1>5. CASE ExecuteCommand
  <2>1. UNCHANGED <<commands, responses, accepted, collected, cmd>>
        /\ phase = "execute" /\ phase' = "reply"
    BY <1>5 DEF ExecuteCommand
  <2>2. rsp' \in {cmd.id, 0}
    BY <1>5, <1>t, OutcomeType DEF ExecuteCommand
  <2>. QED  BY <1>t, <2>1, <2>2 DEF Holding
<1>6. CASE Reply
  <2>1. /\ Len(responses') = Len(responses) + 1
        /\ \A i \in 1 .. Len(responses) : responses'[i] = responses[i]
        /\ responses'[Len(responses) + 1] = rsp
    <3>1. responses' = Append(responses, rsp) /\ responses \in Seq(Nat) /\ rsp \in Nat
      BY <1>6, <1>t, ReplyStores DEF TypeOK
    <3>. QED  BY <3>1, AppendFacts
  <2>2. UNCHANGED <<commands, accepted, collected>>
        /\ phase = "reply" /\ Holding = 1 /\ Holding' = 0 /\ phase' \notin {"execute", "reply"}
    BY <1>6, ReplyStores DEF Reply, Holding
  <2>3. rsp \in {cmd.id, 0}
    BY <2>2 DEF Inv, ResponseMatches
  <2>4. cmd.id = collected + Len(responses) + 1
    BY <1>t, <2>2
  <2>5. \A i \in DOMAIN responses' : responses'[i] \in {collected + i, 0}
    <3>. SUFFICES ASSUME NEW i \in 1 .. Len(responses) + 1
                  PROVE  responses'[i] \in {collected + i, 0}
      BY <1>l, <2>1
    <3>1. CASE i \in 1 .. Len(responses)
      BY <1>t, <1>l, <2>1, <3>1
    <3>2. CASE i = Len(responses) + 1
      BY <1>l, <2>1, <2>3, <2>4, <3>2
    <3>. QED  BY <1>l, <3>1, <3>2
  <2>. QED  BY <1>t, <1>l, <2>1, <2>2, <2>5
<1>7. CASE Return
  <2>1. UNCHANGED <<commands, responses, accepted, collected, cmd>>
        /\ Holding = 0 /\ Holding' = 0 /\ phase' \notin {"execute", "reply"}
    BY <1>7 DEF Return, Holding, host, local
  <2>. QED  BY <1>t, <2>1
<1>8. CASE UNCHANGED <<commands, responses, accepted, collected, cmd>>
           /\ (phase \in {"execute", "reply"} <=> phase' \in {"execute", "reply"})
  BY <1>8, <1>t DEF Holding
<1>9. CASE PushRefused \/ PopEvent \/ ClearFault \/ SetFault
  BY <1>8, <1>9 DEF PushRefused, PopEvent, ClearFault, SetFault, host, local
<1>10. ASSUME NEW n \in 0 .. MaxCommands,
              Dispatch(n) \/ Serve(n) \/ ServeUntilEvent(n) \/ RunLoop(n)
       PROVE  AnsweredOnceInOrder'
  BY <1>8, <1>10 DEF Dispatch, Serve, ServeUntilEvent, RunLoop, Begin, host, local
<1>11. CASE Backpressure \/ NothingToDo
  BY <1>8, <1>11 DEF Backpressure, NothingToDo, host, local
<1>12. CASE UNCHANGED vars
  BY <1>8, <1>12 DEF vars, host, local
<1>. QED
  BY <1>1, <1>2, <1>3, <1>4, <1>5, <1>6, <1>7, <1>9, <1>10, <1>11, <1>12
  DEF Next, Host, MainLoop

LEMMA MatchesStep == Inv /\ [Next]_vars => ResponseMatches'
<1>. SUFFICES ASSUME Inv, [Next]_vars PROVE ResponseMatches'
  OBVIOUS
<1>. USE DEF ResponseMatches
<1>t. TypeOK /\ ResponseMatches /\ BusyWhileExecuting
  BY DEF Inv
<1>1. CASE ExecuteCommand
  BY <1>1, <1>t, OutcomeType DEF ExecuteCommand
<1>2. CASE Host
  BY <1>2, <1>t DEF Host, PushCommand, PushRefused, PopResponse, PopEvent, ResetQueues,
     ClearFault, SetFault, Dispatch, Serve, ServeUntilEvent, RunLoop, Begin, local
<1>3. CASE Backpressure \/ NothingToDo \/ TakeCommand
  BY <1>3, <1>t DEF Backpressure, NothingToDo, TakeCommand, local
<1>4. CASE Reply \/ Return
  BY <1>4, <1>t, ReplyStores DEF Reply, Return, local
<1>5. CASE UNCHANGED vars
  BY <1>5, <1>t DEF vars, local
<1>. QED  BY <1>1, <1>2, <1>3, <1>4, <1>5 DEF Next, MainLoop

LEMMA EventsStep == Inv /\ [Next]_vars => EventsInOrder'
<1>. SUFFICES ASSUME Inv, [Next]_vars PROVE EventsInOrder'
  OBVIOUS
<1>t. TypeOK /\ TypeOK' /\ EventsInOrder /\ BusyWhileExecuting
  BY StepTypes DEF Inv
<1>l. /\ Len(events) \in Nat /\ DOMAIN events = 1 .. Len(events)
      /\ DOMAIN events' = 1 .. Len(events')
      /\ raised \in Nat /\ taken \in Nat
  BY <1>t, LenProperties DEF TypeOK
<1>. USE DEF EventsInOrder
<1>1. CASE PopEvent
  <2>1. /\ Len(events') = Len(events) - 1 /\ Len(events) > 0
        /\ \A i \in 1 .. Len(events) - 1 : events'[i] = events[i + 1]
    BY <1>1, <1>t, TailFacts DEF PopEvent, TypeOK
  <2>2. UNCHANGED <<raised, phase, ev>> /\ taken' = taken + 1 /\ phase = "idle"
    BY <1>1 DEF PopEvent, local
  <2>3. \A i \in DOMAIN events' : events'[i].serial = taken' + i
    <3>. SUFFICES ASSUME NEW i \in 1 .. Len(events) - 1
                  PROVE  events'[i].serial = taken' + i
      BY <1>l, <2>1
    <3>1. i + 1 \in DOMAIN events /\ events'[i] = events[i + 1]
      BY <1>l, <2>1
    <3>2. events[i + 1].serial = taken + (i + 1)
      BY <1>t, <3>1
    <3>. QED  BY <1>l, <2>2, <3>1, <3>2
  <2>. QED  BY <1>t, <1>l, <2>1, <2>2, <2>3
<1>2. CASE ResetQueues
  <2>1. events' = <<>> /\ taken' = raised /\ raised' = raised /\ phase' = "idle"
    BY <1>2 DEF ResetQueues
  <2>2. Len(events') = 0
    BY <2>1, EmptyFacts
  <2>. QED  BY <1>l, <2>1, <2>2
<1>3. CASE ExecuteCommand
  <2>1. UNCHANGED <<events, taken>> /\ phase = "execute" /\ phase' = "reply"
    BY <1>3 DEF ExecuteCommand
  <2>2. \/ ev' = NoEvent /\ raised' = raised
        \/ \E t \in {"none", "stop", "fault"} :
              ev' = [type |-> t, serial |-> raised + 1] /\ raised' = raised + 1
    BY <1>3, <1>t, OutcomeType DEF ExecuteCommand
  <2>3. raised = taken + Len(events)
    BY <1>t, <1>l, <2>1
  <2>4. CASE ev' = NoEvent /\ raised' = raised
    BY <1>t, <1>l, <2>1, <2>3, <2>4
  <2>5. ASSUME NEW t \in {"none", "stop", "fault"},
               ev' = [type |-> t, serial |-> raised + 1], raised' = raised + 1
        PROVE  EventsInOrder'
    <3>1. ev'.serial = raised + 1 /\ ev' # NoEvent
      BY <1>l, <2>5 DEF NoEvent
    <3>. QED  BY <1>t, <1>l, <2>1, <2>3, <2>5, <3>1
  <2>. QED  BY <2>2, <2>4, <2>5
<1>4. CASE Reply
  <2>1. /\ phase = "reply" /\ phase' \in {"check", "finish"} /\ raised' = raised
    BY <1>4, ReplyStores DEF Reply
  <2>2. EventsPushed \in Seq(Event) /\ Len(EventsPushed) \in Nat
    BY <1>t, EventsPushedType, LenProperties
  <2>3. /\ raised = taken + Len(EventsPushed)
        /\ \A i \in 1 .. Len(EventsPushed) : EventsPushed[i].serial = taken + i
    <3>1. CASE ev = NoEvent
      BY <1>4, <1>t, <1>l, <2>1, <3>1, ReplyStores
    <3>2. CASE ev # NoEvent
      <4>1. ev \in Event /\ events \in Seq(Event)
        BY <1>t, <3>2 DEF TypeOK
      <4>2. EventsPushed = Append(events, ev)
        BY <1>4, <3>2, ReplyStores
      <4>3. /\ Len(EventsPushed) = Len(events) + 1
            /\ \A i \in 1 .. Len(events) : EventsPushed[i] = events[i]
            /\ EventsPushed[Len(events) + 1] = ev
        BY <4>1, <4>2, AppendFacts
      <4>4. raised = taken + Len(events) + 1 /\ ev.serial = raised
        BY <1>t, <2>1, <3>2
      <4>5. ASSUME NEW i \in 1 .. Len(events) + 1
            PROVE  EventsPushed[i].serial = taken + i
        <5>1. CASE i \in 1 .. Len(events)
          BY <1>t, <1>l, <4>3, <5>1
        <5>2. CASE i = Len(events) + 1
          BY <1>l, <4>3, <4>4, <5>2
        <5>. QED  BY <1>l, <5>1, <5>2
      <4>6. \A i \in 1 .. Len(EventsPushed) : EventsPushed[i].serial = taken + i
        BY <4>3, <4>5
      <4>7. raised = taken + Len(EventsPushed)
        BY <1>l, <4>3, <4>4
      <4>. QED  BY <4>6, <4>7
    <3>. QED  BY <3>1, <3>2
  <2>4. CASE Stopping /\ call.consume
    <3>1. EventsPushed # <<>> /\ events' = Tail(EventsPushed) /\ taken' = taken + 1
      BY <1>4, <1>t, <2>4, EventsPushedType DEF Reply
    <3>2. /\ Len(events') = Len(EventsPushed) - 1
          /\ \A i \in 1 .. Len(EventsPushed) - 1 : events'[i] = EventsPushed[i + 1]
      BY <2>2, <3>1, TailFacts
    <3>3. ASSUME NEW i \in 1 .. Len(EventsPushed) - 1
          PROVE  events'[i].serial = taken' + i
      <4>1. i + 1 \in 1 .. Len(EventsPushed) /\ events'[i] = EventsPushed[i + 1]
        BY <2>2, <3>2
      <4>2. EventsPushed[i + 1].serial = taken + (i + 1)
        BY <2>3, <4>1
      <4>. QED  BY <1>l, <3>1, <4>1, <4>2
    <3>4. \A i \in DOMAIN events' : events'[i].serial = taken' + i
      BY <1>l, <3>2, <3>3
    <3>5. raised' = taken' + Len(events')
      BY <1>l, <2>1, <2>2, <2>3, <3>1, <3>2
    <3>. QED  BY <2>1, <3>4, <3>5
  <2>5. CASE ~(Stopping /\ call.consume)
    <3>1. events' = EventsPushed /\ taken' = taken
      BY <1>4, <2>5 DEF Reply
    <3>. QED  BY <1>l, <2>1, <2>2, <2>3, <3>1
  <2>. QED  BY <2>4, <2>5
<1>5. CASE UNCHANGED <<events, raised, taken>> /\ phase # "reply" /\ phase' # "reply"
  BY <1>5, <1>t
<1>6. CASE \E op \in Op : PushCommand(op)
  BY <1>5, <1>6 DEF PushCommand
<1>7. CASE PushRefused \/ PopResponse \/ ClearFault \/ SetFault
  BY <1>5, <1>7 DEF PushRefused, PopResponse, ClearFault, SetFault, host
<1>8. ASSUME NEW n \in 0 .. MaxCommands,
             Dispatch(n) \/ Serve(n) \/ ServeUntilEvent(n) \/ RunLoop(n)
      PROVE  EventsInOrder'
  BY <1>5, <1>8 DEF Dispatch, Serve, ServeUntilEvent, RunLoop, Begin, host
<1>9. CASE Backpressure \/ NothingToDo \/ TakeCommand \/ Return
  BY <1>5, <1>9 DEF Backpressure, NothingToDo, TakeCommand, Return, host
<1>10. CASE UNCHANGED vars
  BY <1>10, <1>t DEF vars, host, local
<1>. QED
  BY <1>1, <1>2, <1>3, <1>4, <1>6, <1>7, <1>8, <1>9, <1>10 DEF Next, Host, MainLoop

-----------------------------------------------------------------------------

LEMMA InvInit == Init => Inv
<1>. SUFFICES ASSUME Init PROVE Inv
  OBVIOUS
<1>1. TypeOK
  BY TypeInit
<1>2. Len(commands) = 0 /\ Len(responses) = 0 /\ Len(events) = 0
  BY EmptyFacts DEF Init
<1>3. RepliesHaveRoom
  BY <1>2 DEF Init, RepliesHaveRoom
<1>4. LoopProgress /\ BusyWhileExecuting /\ ResponseMatches
  BY DEF Init, LoopProgress, BusyWhileExecuting, ResponseMatches
<1>5. DOMAIN commands = 1 .. 0 /\ DOMAIN responses = 1 .. 0 /\ DOMAIN events = 1 .. 0
  BY <1>1, <1>2, LenProperties DEF TypeOK
<1>6. AnsweredOnceInOrder /\ EventsInOrder
  BY <1>2, <1>5 DEF Init, AnsweredOnceInOrder, EventsInOrder, Holding
<1>. QED  BY <1>1, <1>3, <1>4, <1>6 DEF Inv

LEMMA InvStep == Inv /\ [Next]_vars => Inv'
BY TypeStep, BusyStep, RoomStep, ProgressStep, AnsweredStep, MatchesStep, EventsStep DEF Inv

LEMMA InvHolds == Spec => []Inv
BY InvInit, InvStep, PTL DEF Spec

\* A reply always fits, so the loop never loses an event or a response and
\* never records the faults of a failed push.
THEOREM ReplyRoom == Spec => []RepliesHaveRoom
BY InvHolds, PTL DEF Inv

\* Every accepted command is answered once, in order, whatever mix of dispatch
\* calls, limits, events, faults and full rings it meets.
THEOREM AnsweredOnce == Spec => []AnsweredOnceInOrder
BY InvHolds, PTL DEF Inv

\* Events are handed out once, in the order they were raised.
THEOREM EventOrder == Spec => []EventsInOrder
BY InvHolds, PTL DEF Inv

\* No command enters the session while one is being served.
THEOREM OnlyDrains == Spec => DispatchOnlyDrains
<1>1. Inv /\ [Next]_vars => [phase # "idle" => Len(commands') <= Len(commands)]_vars
  <2>. SUFFICES ASSUME Inv, Next, phase # "idle" PROVE Len(commands') <= Len(commands)
    BY DEF vars
  <2>t. TypeOK /\ BusyWhileExecuting /\ Len(commands) \in Nat
    BY LenProperties DEF Inv, TypeOK
  <2>1. CASE commands' = commands
    BY <2>t, <2>1
  <2>2. CASE Host
    BY <2>1, <2>2, <2>t DEF Host, PushCommand, PushRefused, PopResponse, PopEvent, ResetQueues,
       ClearFault, SetFault, Dispatch, Serve, ServeUntilEvent, RunLoop, Begin,
       BusyWhileExecuting
  <2>3. CASE TakeCommand
    <3>1. Len(commands') = Len(commands) - 1
      BY <2>3, <2>t, TailFacts DEF TakeCommand, TypeOK
    <3>. QED  BY <2>t, <3>1
  <2>4. CASE Backpressure \/ NothingToDo \/ ExecuteCommand \/ Reply \/ Return
    BY <2>1, <2>4 DEF Backpressure, NothingToDo, ExecuteCommand, Reply, Return
  <2>. QED  BY <2>2, <2>3, <2>4 DEF Next, MainLoop
<1>. QED  BY <1>1, InvHolds, PTL DEF Spec, DispatchOnlyDrains

\* A consuming call that hands out no event has served all it could.
THEOREM SilentMeansDone == Spec => NoSilentStop
<1>1. Inv /\ [Next]_vars =>
        [phase = "finish" /\ phase' = "idle" /\ call.consume /\ stop_event' = NoEvent
           => commands = <<>> \/ total_processed' = call.limit]_vars
  <2>. SUFFICES ASSUME Inv, Next, phase = "finish", phase' = "idle", call.consume,
                       stop_event' = NoEvent
                PROVE  commands = <<>> \/ total_processed' = call.limit
    BY DEF vars
  <2>t. TypeOK /\ LoopProgress /\ BusyWhileExecuting
    BY DEF Inv
  <2>1. Return
    BY <2>t DEF Next, Host, MainLoop, PushCommand, PushRefused, PopResponse, PopEvent,
       ResetQueues, ClearFault, SetFault, Dispatch, Serve, ServeUntilEvent, RunLoop, Begin,
       Backpressure, NothingToDo, TakeCommand, ExecuteCommand, Reply
  <2>2. stop_event = NoEvent /\ last_fault = "none"
    BY <2>1 DEF Return, Reported, NoEvent, FaultEvent
  <2>3. commands = <<>> \/ processed = PassLimit
    BY <2>t, <2>2 DEF LoopProgress
  <2>4. total_processed' = total_processed + processed
    BY <2>1 DEF Return
  <2>. QED  BY <2>t, <2>3, <2>4, SMTT(30) DEF PassLimit, TypeOK
<1>. QED  BY <1>1, InvHolds, PTL DEF Spec, NoSilentStop
=============================================================================
