-------------------------- MODULE Mailbox_proofs ---------------------------
(***************************************************************************)
(* Proofs about the debug mailbox below its main loop.  A ring keeps its   *)
(* indices and entries well formed and implements the bounded FIFO queue   *)
(* of MailboxQueue, for every capacity above one.  A run of the session    *)
(* tells the truth about where it stopped and why, for every word size and *)
(* every limit that leaves room for one step below it.                     *)
(***************************************************************************)
EXTENDS MailboxRing, MailboxRun, SequenceTheorems, TLAPS

-----------------------------------------------------------------------------
(* The ring. *)

\* What % Capacity does to the sums the ring computes: each is below twice
\* the capacity, so the result is the sum or the sum less one capacity.
LEMMA ModCapacity ==
    ASSUME NEW x \in 0 .. 2 * Capacity - 1
    PROVE  x % Capacity = IF x < Capacity THEN x ELSE x - Capacity
<1>1. CASE x < Capacity
  BY <1>1, CapacityAssumption
<1>2. CASE x >= Capacity
  BY <1>2, CapacityAssumption
<1>3. QED
  BY <1>1, <1>2, CapacityAssumption

\* ring_init produces, and every push, pop and reset preserves, indices
\* inside the array and entries of the entry type.
THEOREM RingTypeCorrect == RingSpec => []RingTypeOK
<1>1. RingInit => RingTypeOK
  BY CapacityAssumption, ValueAssumption, CounterAssumption
  DEF RingInit, RingTypeOK, Index
<1>2. RingTypeOK /\ [RingNext]_ringVars => RingTypeOK'
  <2> SUFFICES ASSUME RingTypeOK, [RingNext]_ringVars PROVE RingTypeOK'
    OBVIOUS
  <2> USE CapacityAssumption, ValueAssumption, CounterAssumption DEF RingTypeOK, Index
  <2>1. ASSUME NEW v \in Value, PushStored(v) PROVE RingTypeOK'
    BY <2>1 DEF PushStored
  <2>2. CASE PushRefused
    BY <2>2 DEF PushRefused
  <2>3. CASE Pop
    BY <2>3 DEF Pop
  <2>4. CASE ResetQueue
    BY <2>4 DEF ResetQueue
  <2>5. CASE UNCHANGED ringVars
    BY <2>5 DEF ringVars
  <2>6. QED
    BY <2>1, <2>2, <2>3, <2>4, <2>5 DEF RingNext
<1>3. QED
  BY <1>1, <1>2, PTL DEF RingSpec

-----------------------------------------------------------------------------

\* The distance from index c to index p going round the ring.
LEMMA CountValue ==
    ASSUME NEW p \in Index, NEW c \in Index
    PROVE  /\ (p + Capacity - c) % Capacity \in 0 .. Capacity - 1
           /\ (p + Capacity - c) % Capacity =
                 IF c <= p THEN p - c ELSE p + Capacity - c
<1> DEFINE d == p + Capacity - c
<1>1. d \in 0 .. 2 * Capacity - 1
  BY CapacityAssumption DEF Index
<1>2. d % Capacity = IF d < Capacity THEN d ELSE d - Capacity
  <2> HIDE DEF d
  <2> QED
    BY <1>1, ModCapacity
<1>3. QED
  BY <1>1, <1>2, CapacityAssumption DEF Index

\* The index of the i-th entry after the consumer index c.
LEMMA SlotValue ==
    ASSUME NEW c \in Index, NEW i \in 1 .. Capacity
    PROVE  /\ (c + (i - 1)) % Capacity \in Index
           /\ (c + (i - 1)) % Capacity =
                 IF c + (i - 1) < Capacity THEN c + (i - 1)
                                           ELSE c + (i - 1) - Capacity
<1> DEFINE s == c + (i - 1)
<1>1. s \in 0 .. 2 * Capacity - 1
  BY CapacityAssumption DEF Index
<1>2. s % Capacity = IF s < Capacity THEN s ELSE s - Capacity
  <2> HIDE DEF s
  <2> QED
    BY <1>1, ModCapacity
<1>3. s % Capacity \in Index
  <2> HIDE DEF s
  <2> QED
    BY <1>1, <1>2, CapacityAssumption DEF Index
<1>4. QED
  BY <1>2, <1>3, CapacityAssumption DEF Index

\* Advancing an index by one slot.
LEMMA NextIndex ==
    ASSUME NEW p \in Index
    PROVE  /\ (p + 1) % Capacity \in Index
           /\ (p + 1) % Capacity = IF p + 1 < Capacity THEN p + 1 ELSE 0
<1> DEFINE s == p + 1
<1>1. s \in 0 .. 2 * Capacity - 1
  BY CapacityAssumption DEF Index
<1>2. s % Capacity = IF s < Capacity THEN s ELSE s - Capacity
  <2> HIDE DEF s
  <2> QED
    BY <1>1, ModCapacity
<1>3. QED
  BY <1>2, CapacityAssumption DEF Index

\* What the ring stands for is a sequence of entries, as long as the count.
LEMMA ContentsSeq ==
    RingTypeOK => /\ ring_count \in 0 .. Capacity - 1
              /\ Contents \in Seq(Value)
              /\ Len(Contents) = ring_count
              /\ DOMAIN Contents = 1 .. ring_count
<1> SUFFICES ASSUME RingTypeOK
             PROVE  /\ ring_count \in 0 .. Capacity - 1
                    /\ Contents \in Seq(Value)
                    /\ Len(Contents) = ring_count
                    /\ DOMAIN Contents = 1 .. ring_count
  OBVIOUS
<1>1. ring_count \in 0 .. Capacity - 1
  BY CountValue DEF RingTypeOK, ring_count
<1>2. ASSUME NEW i \in 1 .. ring_count
      PROVE  entries[(consumer_index + (i - 1)) % Capacity] \in Value
  <2>1. i \in 1 .. Capacity
    BY <1>1, CapacityAssumption
  <2>2. QED
    BY <2>1, SlotValue DEF RingTypeOK
<1>3. QED
  BY <1>1, <1>2, CapacityAssumption DEF Contents

\* A stored entry joins the end of the queue and moves no other.
LEMMA PushEnqueues ==
    ASSUME RingTypeOK, NEW v \in Value, PushStored(v)
    PROVE  Queue!Enqueue(v)
<1> DEFINE n == ring_count
<1> DEFINE slot(i) == (consumer_index + (i - 1)) % Capacity
<1>1. n \in 0 .. Capacity - 2
  <2>1. n # Capacity - 1 /\ n \in 0 .. Capacity - 1
    BY ContentsSeq, CapacityAssumption DEF PushStored, ring_full, ring_space
  <2>2. QED
    BY <2>1, CapacityAssumption
<1>2. ring_count' = n + 1
  <2>1. (producer_index + 1) % Capacity \in Index
    BY NextIndex DEF RingTypeOK
  <2>2. ring_count' = IF consumer_index <= producer_index'
                      THEN producer_index' - consumer_index
                      ELSE producer_index' + Capacity - consumer_index
    BY <2>1, CountValue DEF RingTypeOK, PushStored, ring_count
  <2>3. n = IF consumer_index <= producer_index
            THEN producer_index - consumer_index
            ELSE producer_index + Capacity - consumer_index
    BY CountValue DEF RingTypeOK, ring_count
  <2>4. producer_index' = IF producer_index + 1 < Capacity THEN producer_index + 1 ELSE 0
    BY NextIndex DEF RingTypeOK, PushStored
  <2>5. QED
    BY <1>1, <2>2, <2>3, <2>4, CapacityAssumption DEF RingTypeOK, Index
<1>3. slot(n + 1) = producer_index
  <2>1. n + 1 \in 1 .. Capacity
    BY <1>1, CapacityAssumption
  <2>2. slot(n + 1) = IF consumer_index + n < Capacity
                      THEN consumer_index + n ELSE consumer_index + n - Capacity
    BY <2>1, <1>1, SlotValue, CapacityAssumption DEF RingTypeOK, Index
  <2>3. n = IF consumer_index <= producer_index
            THEN producer_index - consumer_index
            ELSE producer_index + Capacity - consumer_index
    BY CountValue DEF RingTypeOK, ring_count
  <2>4. QED
    BY <2>2, <2>3, CapacityAssumption DEF RingTypeOK, Index
<1>4. ASSUME NEW i \in 1 .. n
      PROVE  slot(i) \in Index /\ slot(i) # producer_index
  <2>1. i \in 1 .. Capacity
    BY <1>1, CapacityAssumption
  <2>2. /\ slot(i) \in Index
        /\ slot(i) = IF consumer_index + (i - 1) < Capacity
                     THEN consumer_index + (i - 1)
                     ELSE consumer_index + (i - 1) - Capacity
    BY <2>1, SlotValue DEF RingTypeOK
  <2>3. n = IF consumer_index <= producer_index
            THEN producer_index - consumer_index
            ELSE producer_index + Capacity - consumer_index
    BY CountValue DEF RingTypeOK, ring_count
  <2>4. QED
    BY <1>1, <2>2, <2>3, CapacityAssumption DEF RingTypeOK, Index
<1>5. Contents' = [i \in 1 .. n + 1 |-> entries'[slot(i)]]
  BY <1>2 DEF Contents, PushStored
<1>6. Contents = [i \in 1 .. n |-> entries[slot(i)]]
  BY DEF Contents
<1>7. \A i \in 1 .. n : entries'[slot(i)] = entries[slot(i)]
  BY <1>4 DEF RingTypeOK, PushStored
<1>8. entries'[slot(n + 1)] = v
  BY <1>3 DEF RingTypeOK, PushStored
<1>9. Contents' = Append(Contents, v)
  <2> HIDE DEF slot, n
  <2>1. Contents \in Seq(Value) /\ Len(Contents) = n
    BY ContentsSeq DEF n
  <2>2. /\ Append(Contents, v) \in Seq(Value)
        /\ Len(Append(Contents, v)) = n + 1
        /\ \A i \in 1 .. n : Append(Contents, v)[i] = Contents[i]
        /\ Append(Contents, v)[n + 1] = v
    BY <2>1, AppendProperties
  <2>3. ASSUME NEW i \in 1 .. n + 1
        PROVE  /\ entries'[slot(i)] = Append(Contents, v)[i]
               /\ entries'[slot(i)] \in Value
    <3>1. CASE i = n + 1
      BY <3>1, <1>8, <2>2
    <3>2. CASE i # n + 1
      <4>1. i \in 1 .. n
        BY <3>2, <1>1
      <4>2. entries'[slot(i)] = Contents[i]
        BY <4>1, <1>6, <1>7
      <4>3. Contents[i] \in Value
        BY <4>1, <2>1, ElementOfSeq
      <4>4. QED
        BY <4>1, <4>2, <4>3, <2>2
    <3>3. QED
      BY <3>1, <3>2
  <2>4. Contents' \in Seq(Value) /\ Len(Contents') = n + 1
    BY <1>1, <1>5, <2>3
  <2>5. \A i \in 1 .. n + 1 : Contents'[i] = Append(Contents, v)[i]
    BY <1>5, <2>3
  <2>6. QED
    BY <2>2, <2>4, <2>5, SeqEqual
<1>10. Len(Contents) < Capacity - 1
  BY <1>1, ContentsSeq, CapacityAssumption
<1>11. QED
  BY <1>9, <1>10 DEF Queue!Enqueue, PushStored

\* A pop hands out the head of the queue and moves no other entry.
LEMMA PopDequeues ==
    ASSUME RingTypeOK, Pop
    PROVE  Queue!Dequeue
<1> DEFINE n == ring_count
<1> DEFINE slot(c, i) == (c + (i - 1)) % Capacity
<1>1. n \in 1 .. Capacity - 1
  <2>1. n # 0 /\ n \in 0 .. Capacity - 1
    BY ContentsSeq DEF Pop, ring_empty
  <2>2. QED
    BY <2>1, CapacityAssumption
<1>2. /\ consumer_index' \in Index
      /\ consumer_index' = IF consumer_index + 1 < Capacity THEN consumer_index + 1 ELSE 0
  BY NextIndex DEF RingTypeOK, Pop
<1>3. ring_count' = n - 1
  <2>1. ring_count' = IF consumer_index' <= producer_index
                      THEN producer_index - consumer_index'
                      ELSE producer_index + Capacity - consumer_index'
    BY <1>2, CountValue DEF RingTypeOK, Pop, ring_count
  <2>2. n = IF consumer_index <= producer_index
            THEN producer_index - consumer_index
            ELSE producer_index + Capacity - consumer_index
    BY CountValue DEF RingTypeOK, ring_count
  <2>3. QED
    BY <1>1, <1>2, <2>1, <2>2, CapacityAssumption DEF RingTypeOK, Index
<1>4. slot(consumer_index, 1) = consumer_index
  BY SlotValue, CapacityAssumption DEF RingTypeOK, Index
<1>5. ASSUME NEW i \in 1 .. n - 1
      PROVE  slot(consumer_index', i) = slot(consumer_index, i + 1)
  <2>1. i \in 1 .. Capacity /\ i + 1 \in 1 .. Capacity
    BY <1>1, CapacityAssumption
  <2>2. slot(consumer_index', i) = IF consumer_index' + (i - 1) < Capacity
                                   THEN consumer_index' + (i - 1)
                                   ELSE consumer_index' + (i - 1) - Capacity
    BY <1>2, <2>1, SlotValue
  <2>3. slot(consumer_index, i + 1) = IF consumer_index + i < Capacity
                                      THEN consumer_index + i
                                      ELSE consumer_index + i - Capacity
    <3>1. slot(consumer_index, i + 1) = IF consumer_index + ((i + 1) - 1) < Capacity
                                        THEN consumer_index + ((i + 1) - 1)
                                        ELSE consumer_index + ((i + 1) - 1) - Capacity
      BY <2>1, SlotValue DEF RingTypeOK
    <3>2. (i + 1) - 1 = i
      OBVIOUS
    <3>3. QED
      BY <3>1, <3>2
  <2>4. QED
    BY <1>2, <2>1, <2>2, <2>3, CapacityAssumption DEF RingTypeOK, Index
<1>6. Contents' = [i \in 1 .. n - 1 |-> entries[slot(consumer_index', i)]]
  BY <1>3 DEF Contents, Pop
<1>7. Contents = [i \in 1 .. n |-> entries[slot(consumer_index, i)]]
  BY DEF Contents
<1>8. Contents \in Seq(Value) /\ Len(Contents) = n /\ Contents # <<>>
  BY <1>1, ContentsSeq
<1>9. Head(Contents) = value'
  <2>1. Head(Contents) = Contents[1]
    BY <1>8
  <2>2. QED
    BY <2>1, <1>1, <1>4, <1>7 DEF Pop
<1>10. Contents' = Tail(Contents)
  <2> HIDE DEF slot, n
  <2>1. /\ Tail(Contents) \in Seq(Value)
        /\ Len(Tail(Contents)) = n - 1
        /\ \A i \in 1 .. n - 1 : Tail(Contents)[i] = Contents[i + 1]
    BY <1>8, HeadTailProperties
  <2>2. ASSUME NEW i \in 1 .. n - 1
        PROVE  /\ entries[slot(consumer_index', i)] = Tail(Contents)[i]
               /\ entries[slot(consumer_index', i)] \in Value
    <3>1. i + 1 \in 1 .. n
      BY <1>1
    <3>2. Contents[i + 1] = entries[slot(consumer_index', i)]
      BY <3>1, <1>5, <1>7
    <3>3. QED
      BY <3>1, <3>2, <1>8, <2>1
  <2>3. Contents' \in Seq(Value) /\ Len(Contents') = n - 1
    BY <1>1, <1>6, <2>2
  <2>4. \A i \in 1 .. n - 1 : Contents'[i] = Tail(Contents)[i]
    BY <1>6, <2>2
  <2>5. QED
    BY <2>1, <2>3, <2>4, SeqEqual
<1>11. QED
  BY <1>8, <1>9, <1>10 DEF Queue!Dequeue, Pop

\* An empty ring stands for the empty queue.
LEMMA EmptyRing ==
    ASSUME NEW c \in Index
    PROVE  (c + Capacity - c) % Capacity = 0
BY CountValue, CapacityAssumption DEF Index

\* The ring implements the bounded FIFO queue: its pushes, pops and resets are
\* the queue's, whatever the capacity, the entries and the position of the
\* indices (ring_push_bytes, ring_pop_bytes, ring_init).
THEOREM RingImplementsQueue == RingSpec => ImplementsQueue
<1>1. RingInit => Queue!QueueInit
  <2> SUFFICES ASSUME RingInit PROVE Queue!QueueInit
    OBVIOUS
  <2>1. ring_count = 0
    BY EmptyRing, CapacityAssumption DEF RingInit, Index, ring_count
  <2>2. Contents = <<>>
    BY <2>1 DEF Contents
  <2>3. QED
    BY <2>2, ValueAssumption DEF RingInit, Queue!QueueInit
<1>2. RingTypeOK /\ [RingNext]_ringVars => [Queue!QueueNext]_(Queue!qvars)
  <2> SUFFICES ASSUME RingTypeOK, [RingNext]_ringVars
               PROVE  [Queue!QueueNext]_(Queue!qvars)
    OBVIOUS
  <2>1. ASSUME NEW v \in Value, PushStored(v) PROVE Queue!QueueNext
    BY <2>1, PushEnqueues DEF Queue!QueueNext
  <2>2. CASE PushRefused
    <3>1. Contents' = Contents
      BY <2>2 DEF PushRefused, Contents, ring_count
    <3>2. Len(Contents) = Capacity - 1
      BY <2>2, ContentsSeq, CapacityAssumption DEF PushRefused, ring_full, ring_space
    <3>3. QED
      BY <2>2, <3>1, <3>2 DEF PushRefused, Queue!QueueNext, Queue!Refuse
  <2>3. CASE Pop
    BY <2>3, PopDequeues DEF Queue!QueueNext
  <2>4. CASE ResetQueue
    <3>1. ring_count' = 0
      BY <2>4, EmptyRing, CapacityAssumption DEF ResetQueue, Index, ring_count
    <3>2. Contents' = <<>>
      BY <3>1 DEF Contents
    <3>3. QED
      BY <2>4, <3>2 DEF ResetQueue, Queue!QueueNext, Queue!Clear
  <2>5. CASE UNCHANGED ringVars
    BY <2>5 DEF ringVars, Queue!qvars, Contents, ring_count
  <2>6. QED
    BY <2>1, <2>2, <2>3, <2>4, <2>5 DEF RingNext
<1>3. QED
  BY <1>1, <1>2, RingTypeCorrect, PTL DEF RingSpec, ImplementsQueue, Queue!QueueSpec

-----------------------------------------------------------------------------
(* The runs of the session. *)

USE WordAssumption, LimitAssumption, SeedAssumption

\* cycle_count is start_cycle and the cycles run, as long as these fit a word.
CyclesCounted ==
    ran < Word => cycle_count = IF start_cycle + ran < Word THEN start_cycle + ran
                                ELSE start_cycle + ran - Word

\* Within the loop no limit has been passed by more than the last step.
LoopInvariant ==
    phase = "loop" =>
      /\ run.op \in {"run_until_event", "run_cycles"}
      /\ stop_reason = "none"
      /\ CyclesCounted
      /\ epochs <= ran
      /\ last_delta <= ran
      /\ Until =>
           /\ epochs <= run.limit
           /\ run.external_stop_at = Never \/ epochs <= run.external_stop_at
           /\ run.timeout_at = Never \/ ran = 0 \/ ran < run.timeout_at
      /\ ~Until =>
           /\ run.external_stop_at = Never /\ run.timeout_at = Never
           /\ ran = 0 \/ ran - last_delta < run.limit

\* A recorded fault is that of this run, which has failed, or one of the last
\* run or of a ring, and then the session has not gone on since.
FaultWhere ==
    last_fault # "none" =>
      /\ phase # "loop"
      /\ phase = "finish" => stop_reason = "fault"
      /\ phase = "idle" =>
            /\ last_stop_reason \in {"fault", "watchpoint"}
            /\ last_fault = "step" => event_type = "fault" /\ status = "fault"

Inv == TypeOK /\ LoopInvariant /\ FaultWhere /\ ReasonTellsWhy

-----------------------------------------------------------------------------

LEMMA ModWord ==
    ASSUME NEW x \in 0 .. 2 * Word - 1
    PROVE  x % Word = IF x < Word THEN x ELSE x - Word
<1>1. CASE x < Word
  BY <1>1
<1>2. CASE x >= Word
  BY <1>2
<1>. QED  BY <1>1, <1>2

LEMMA PlusType ==
    ASSUME NEW a \in Nat, NEW b \in Nat
    PROVE  Plus(a, b) \in 0 .. Word - 1
BY DEF Plus

\* The fields of the run in progress.
LEMMA RunFields ==
    ASSUME TypeOK
    PROVE  /\ run.op \in {"none", "run_until_event", "run_cycles"}
           /\ run.limit \in Nat /\ run.limit <= MaxLimit
           /\ run.external_stop_at # Never =>
                run.external_stop_at \in Nat /\ run.external_stop_at <= MaxLimit
           /\ run.timeout_at # Never =>
                run.timeout_at \in Nat /\ run.timeout_at <= MaxLimit
           /\ run.pc_delta \in {0, PcDelta}
BY DEF TypeOK, Limits

\* The difference of two cycle counts is the cycles between them, wrapped or not.
LEMMA Difference ==
    ASSUME NEW from \in 0 .. Word - 1, NEW n \in 0 .. Word - 1, NEW to,
           to = IF from + n < Word THEN from + n ELSE from + n - Word
    PROVE  (to + Word - from) % Word = n
<1> DEFINE d == to + Word - from
<1>1. d \in 0 .. 2 * Word - 1 /\ d = IF from + n < Word THEN n + Word ELSE n
  OBVIOUS
<1>2. d % Word = IF d < Word THEN d ELSE d - Word
  <2> HIDE DEF d
  <2>. QED  BY <1>1, ModWord
<1>. QED  BY <1>1, <1>2

LEMMA ElapsedIsRan ==
    ASSUME TypeOK, CyclesCounted, ran < Word
    PROVE  Elapsed = ran
<1>1. /\ start_cycle \in 0 .. Word - 1 /\ ran \in 0 .. Word - 1
      /\ cycle_count = IF start_cycle + ran < Word THEN start_cycle + ran
                       ELSE start_cycle + ran - Word
  BY DEF TypeOK, CyclesCounted
<1>2. (cycle_count + Word - start_cycle) % Word = ran
  BY <1>1, Difference
<1>. QED  BY <1>2 DEF Elapsed

\* One more step keeps the count, unless a whole word has been run.
LEMMA StepCounted ==
    ASSUME TypeOK, CyclesCounted, NEW d \in 1 .. MaxDelta,
           cycle_count' = Plus(cycle_count, d), ran' = ran + d, start_cycle' = start_cycle
    PROVE  CyclesCounted'
<1> SUFFICES ASSUME ran + d < Word
             PROVE  cycle_count' = IF start_cycle + (ran + d) < Word THEN start_cycle + (ran + d)
                                   ELSE start_cycle + (ran + d) - Word
  BY DEF CyclesCounted
<1> DEFINE x == cycle_count + d
<1>1. cycle_count = IF start_cycle + ran < Word THEN start_cycle + ran
                    ELSE start_cycle + ran - Word
  BY DEF CyclesCounted, TypeOK
<1>2. x \in 0 .. 2 * Word - 1
  BY DEF TypeOK
<1>3. x % Word = IF x < Word THEN x ELSE x - Word
  <2> HIDE DEF x
  <2>. QED  BY <1>2, ModWord
<1>. QED  BY <1>1, <1>2, <1>3 DEF Plus, TypeOK

LEMMA CycleDeltaType ==
    ASSUME NEW c \in 0 .. MaxDelta
    PROVE  CycleDelta(c) \in 1 .. MaxDelta
BY DEF CycleDelta

\* How far a run can have gone when it is about to make a step.
LEMMA RanFits ==
    ASSUME TypeOK, LoopInvariant, phase = "loop"
    PROVE  /\ ~Until => ran < Word
           /\ Until /\ run.timeout_at # Never => ran + MaxDelta < Word
           /\ Until /\ run.timeout_at # Never => Elapsed = ran
           /\ ~Until => Elapsed = ran
<1>1. /\ ~Until => ran < Word
      /\ Until /\ run.timeout_at # Never => ran + MaxDelta < Word
  BY RunFields DEF LoopInvariant, TypeOK
<1>. QED  BY <1>1, ElapsedIsRan DEF LoopInvariant, TypeOK

-----------------------------------------------------------------------------
(* Each action keeps the invariant.                                        *)

LEMMA InitInv == Init => Inv
<1> SUFFICES ASSUME Init PROVE Inv
  OBVIOUS
<1>1. watchpoint \in BOOLEAN
  BY Zenon DEF Init
<1>2. TypeOK
  BY <1>1 DEF Init, TypeOK, NoRun, Never, Reason, Limits
<1>. QED  BY <1>2 DEF Init, Inv, LoopInvariant, FaultWhere, ReasonTellsWhy

\* Between runs only the phase and the recorded fault matter.
Between ==
    \/ \E at \in Breakpoints : SetBreakpoint(at)
    \/ \E on \in BOOLEAN : SetWatchpoint(on)
    \/ \E at \in Pcs : WritePc(at)
    \/ HitWatchpoint
    \/ QueueFault
    \/ ClearFault
    \/ \E c \in SeedCycles, at \in Pcs, r \in SeedReasons : Seed(c, at, r)

LEMMA BetweenInv ==
    ASSUME Inv, Between
    PROVE  Inv'
<1> USE DEF Inv, TypeOK, FaultWhere, arch, reply, locals
<1>1. ASSUME NEW at \in Breakpoints, SetBreakpoint(at)
      PROVE  TypeOK' /\ FaultWhere' /\ phase' = "idle"
  BY <1>1 DEF SetBreakpoint, Breakpoints, Never
<1>2. ASSUME NEW on \in BOOLEAN, SetWatchpoint(on)
      PROVE  TypeOK' /\ FaultWhere' /\ phase' = "idle"
  BY <1>2 DEF SetWatchpoint
<1>3. ASSUME NEW at \in Pcs, WritePc(at)
      PROVE  TypeOK' /\ FaultWhere' /\ phase' = "idle"
  BY <1>3 DEF WritePc, Pcs
<1>4. CASE HitWatchpoint
  <2>. TypeOK' /\ FaultWhere' /\ phase' = "idle"
    BY <1>4 DEF HitWatchpoint, Reason
  <2>. QED  BY DEF LoopInvariant, ReasonTellsWhy
<1>5. CASE QueueFault
  <2>. TypeOK' /\ FaultWhere' /\ phase' = "idle"
    BY <1>5 DEF QueueFault, Reason
  <2>. QED  BY DEF LoopInvariant, ReasonTellsWhy
<1>6. CASE ClearFault
  <2>. TypeOK' /\ FaultWhere' /\ phase' = "idle"
    BY <1>6 DEF ClearFault
  <2>. QED  BY DEF LoopInvariant, ReasonTellsWhy
<1>7. ASSUME NEW c \in SeedCycles, NEW at \in Pcs, NEW r \in SeedReasons, Seed(c, at, r)
      PROVE  TypeOK' /\ FaultWhere' /\ phase' = "idle"
  <2>1. watchpoint' \in BOOLEAN
    BY <1>7, Zenon DEF Seed
  <2>2. breakpoint' \in 0 .. Word - 1
    BY <1>7 DEF Seed, Breakpoints, Never
  <2>. QED  BY <1>7, <2>1, <2>2 DEF Seed, Pcs, Reason
<1>. QED
  BY <1>1, <1>2, <1>3, <1>4, <1>5, <1>6, <1>7 DEF Between, LoopInvariant, ReasonTellsWhy

\* A run begins with nothing counted and no fault on record.
LEMMA BeginInv ==
    ASSUME Inv,
           NEW r \in [op : {"run_until_event", "run_cycles"}, limit : Limits,
                      external_stop_at : Limits \cup {Never},
                      timeout_at : Limits \cup {Never}, pc_delta : {0, PcDelta}],
           r.op = "run_cycles" => r.external_stop_at = Never /\ r.timeout_at = Never,
           Begin(r)
    PROVE  Inv'
<1>1. TypeOK'
  <2>1. run' \in [op : {"none", "run_until_event", "run_cycles"}, limit : Limits,
                  external_stop_at : Limits \cup {Never},
                  timeout_at : Limits \cup {Never}, pc_delta : {0, PcDelta}]
    BY DEF Begin
  <2>. QED  BY <2>1 DEF Inv, TypeOK, Begin, arch, reply, Reason
<1>2. CyclesCounted'
  BY DEF Inv, TypeOK, CyclesCounted, Begin, arch
<1>3. LoopInvariant'
  <2>1. run'.op \in {"run_until_event", "run_cycles"} /\ run'.limit \in Nat
    BY DEF Begin, Limits
  <2>2. /\ run'.external_stop_at = Never \/ 0 <= run'.external_stop_at
        /\ run'.op = "run_cycles" => run'.external_stop_at = Never /\ run'.timeout_at = Never
    BY DEF Begin, Limits
  <2>. QED  BY <1>2, <2>1, <2>2 DEF LoopInvariant, Begin, Until, Never
<1>. QED  BY <1>1, <1>3 DEF Inv, FaultWhere, ReasonTellsWhy, Begin

LEMMA BeginSteps ==
    ASSUME Inv,
           \/ \E n \in Limits, x \in Limits \cup {Never}, t \in Limits \cup {Never} :
                 RunUntilEvent(n, x, t)
           \/ \E n \in Limits : RunCycles(n)
    PROVE  Inv'
<1>1. CASE \E n \in Limits, x \in Limits \cup {Never}, t \in Limits \cup {Never} :
              RunUntilEvent(n, x, t)
  <2>1. PICK n \in Limits, x \in Limits \cup {Never}, t \in Limits \cup {Never} :
            RunUntilEvent(n, x, t)
    BY <1>1
  <2>. QED  BY <2>1, BeginInv DEF RunUntilEvent
<1>2. CASE \E n \in Limits : RunCycles(n)
  <2>1. PICK n \in Limits : RunCycles(n)
    BY <1>2
  <2>. QED  BY <2>1, BeginInv DEF RunCycles
<1>. QED  BY <1>1, <1>2

\* A loop that stops without another step: its counts are those of the loop.
LEMMA StopSteps ==
    ASSUME Inv, TimeoutBeforeStep \/ ExternalStop \/ StepFails \/ LoopEnds
    PROVE  Inv'
<1>1. phase = "loop" /\ phase' = "finish" /\ LoopInvariant
  BY DEF Inv, TimeoutBeforeStep, ExternalStop, StepFails, Steps, LoopEnds, Continues, Stop
<1>2. TypeOK'
  BY DEF Inv, TypeOK, TimeoutBeforeStep, ExternalStop, StepFails, LoopEnds, Stop, arch,
         reply, Reason
<1>3. FaultWhere'
  BY <1>1 DEF Inv, FaultWhere, TimeoutBeforeStep, ExternalStop, StepFails, LoopEnds, Stop
<1>4. ReasonTellsWhy'
  <2>1. CASE TimeoutBeforeStep
    <3>1. Until /\ run.timeout_at # Never /\ Elapsed >= run.timeout_at
      BY <1>1, <2>1 DEF TimeoutBeforeStep, TimedOut, LoopInvariant
    <3>2. Elapsed = ran /\ run.timeout_at <= ran /\ ran = 0
      BY <1>1, <3>1, RanFits, RunFields DEF Inv, LoopInvariant, TypeOK
    <3>. QED  BY <1>1, <2>1, <3>2 DEF ReasonTellsWhy, TimeoutBeforeStep, Stop
  <2>2. CASE ExternalStop
    <3>1. Until /\ run.external_stop_at # Never /\ epochs >= run.external_stop_at
      BY <1>1, <2>2 DEF ExternalStop, ExternalStopAt, LoopInvariant
    <3>2. epochs = run.external_stop_at
      BY <1>1, <3>1, RunFields DEF Inv, LoopInvariant, TypeOK
    <3>. QED  BY <1>1, <2>2, <3>2 DEF ReasonTellsWhy, ExternalStop, Stop
  <2>3. CASE StepFails
    BY <1>1, <2>3 DEF ReasonTellsWhy, StepFails, Stop
  <2>4. CASE LoopEnds /\ Until
    <3>1. epochs = run.limit
      BY <1>1, <2>4, RunFields DEF Inv, LoopEnds, Continues, LoopInvariant, TypeOK
    <3>2. run.timeout_at = Never \/ ran < run.timeout_at \/ epochs = 0
      BY <1>1, <2>4 DEF Inv, LoopInvariant, TypeOK
    <3>3. run.external_stop_at = Never \/ epochs <= run.external_stop_at
      BY <1>1, <2>4 DEF LoopInvariant
    <3>. QED  BY <1>1, <2>4, <3>1, <3>2, <3>3 DEF ReasonTellsWhy, LoopEnds, Stop, Never
  <2>5. CASE LoopEnds /\ ~Until
    <3>1. run.limit <= ran
      BY <1>1, <2>5, RanFits, RunFields DEF Inv, LoopEnds, Continues, TypeOK
    <3>2. ran = 0 \/ ran - last_delta < run.limit
      BY <1>1, <2>5 DEF LoopInvariant
    <3>. QED  BY <1>1, <2>5, <3>1, <3>2 DEF ReasonTellsWhy, LoopEnds, Stop
  <2>. QED  BY <2>1, <2>2, <2>3, <2>4, <2>5
<1>. QED  BY <1>1, <1>2, <1>3, <1>4 DEF Inv, LoopInvariant

LEMMA FinishInv ==
    ASSUME Inv, Finish
    PROVE  Inv'
<1>1. TypeOK'
  <2>1. run' \in [op : {"none", "run_until_event", "run_cycles"}, limit : Limits,
                  external_stop_at : Limits \cup {Never},
                  timeout_at : Limits \cup {Never}, pc_delta : {0, PcDelta}]
    BY DEF Finish, NoRun, Limits
  <2>2. event_type' \in {"none", "stop", "breakpoint", "watchpoint", "fault"}
    BY DEF Inv, TypeOK, Finish, ClassifyStopEventType, Reason
  <2>3. status' \in {"ok", "fault", "timeout"}
    BY DEF Finish
  <2>. QED  BY <2>1, <2>2, <2>3 DEF Inv, TypeOK, Finish, arch, Reason
<1>2. FaultWhere'
  BY DEF Inv, FaultWhere, Finish, ClassifyStopEventType
<1>. QED  BY <1>1, <1>2 DEF Inv, Finish, LoopInvariant, ReasonTellsWhy

\* A step of the design: what it does to the counts, and why the run stops then.
LEMMA StepInv ==
    ASSUME Inv, NEW c \in 0 .. MaxDelta, NEW p \in {0, PcDelta},
           NEW reason \in {"none", "watchpoint", "fault"}, Step(c, p, reason)
    PROVE  Inv'
<1> DEFINE d == CycleDelta(c)
<1>1. /\ d \in 1 .. MaxDelta
      /\ phase = "loop" /\ LoopInvariant /\ CyclesCounted /\ TypeOK
      /\ Continues /\ ~TimedOut(Elapsed)
      /\ run.external_stop_at # Never => epochs < run.external_stop_at
  BY CycleDeltaType, RunFields DEF Inv, Step, Steps, Continues, LoopInvariant, ExternalStopAt, TypeOK
<1>2. /\ cycle_count' = Plus(cycle_count, d) /\ ran' = ran + d /\ last_delta' = d
      /\ epochs' = epochs + 1 /\ start_cycle' = start_cycle /\ run' = run
      /\ breakpoint' = breakpoint /\ watchpoint' = watchpoint /\ last_fault' = last_fault
      /\ last_stop_reason' = last_stop_reason
      /\ event_type' = event_type /\ status' = status
      /\ pc' = Plus(pc, IF p # 0 THEN p ELSE run.pc_delta)
      /\ stop_reason' = AfterStep(reason, cycle_count', pc')
      /\ phase' = IF stop_reason' = "none" THEN "loop" ELSE "finish"
  BY DEF Step, reply
<1> HIDE DEF d
<1>3. cycle_count' \in 0 .. Word - 1 /\ pc' \in 0 .. Word - 1
  <2> DEFINE q == IF p # 0 THEN p ELSE run.pc_delta
  <2>1. cycle_count \in Nat /\ pc \in Nat /\ d \in Nat /\ q \in Nat
    BY <1>1, RunFields DEF TypeOK
  <2> HIDE DEF q
  <2>2. Plus(cycle_count, d) \in 0 .. Word - 1 /\ Plus(pc, q) \in 0 .. Word - 1
    BY <2>1, PlusType
  <2>. QED  BY <1>2, <2>2 DEF q
<1>4. stop_reason' \in {"none", "watchpoint", "fault", "breakpoint", "timeout"}
  BY <1>2 DEF AfterStep
<1>5. TypeOK'
  BY <1>1, <1>2, <1>3, <1>4 DEF TypeOK, Reason
<1>6. CyclesCounted'
  BY <1>1, <1>2, StepCounted
<1>7. ASSUME Until, run.timeout_at # Never
      PROVE  /\ ran < run.timeout_at
             /\ TimedOut((cycle_count' + Word - start_cycle) % Word) <=> ran' >= run.timeout_at
  <2>1. ran' \in 0 .. Word - 1 /\ Elapsed = ran
    BY <1>1, <1>2, <1>7, RanFits DEF TypeOK
  <2>2. (cycle_count' + Word - start_cycle) % Word = ran'
    BY <1>1, <1>2, <1>6, <2>1, Difference DEF CyclesCounted, TypeOK
  <2>3. run.timeout_at \in Nat /\ ran \in Nat
    BY <1>1, <1>7, RunFields DEF TypeOK
  <2>. QED  BY <1>1, <1>7, <2>1, <2>2, <2>3 DEF TimedOut
<1>8. LoopInvariant'
  <2> SUFFICES ASSUME phase' = "loop"
               PROVE  LoopInvariant'
    BY DEF LoopInvariant
  <2>1. stop_reason' = "none"
    BY <1>2
  <2>2. epochs' <= ran' /\ last_delta' <= ran'
    BY <1>1, <1>2 DEF LoopInvariant, TypeOK
  <2>3. ASSUME Until
        PROVE  /\ epochs' <= run.limit
               /\ run.external_stop_at = Never \/ epochs' <= run.external_stop_at
               /\ run.timeout_at = Never \/ ran' = 0 \/ ran' < run.timeout_at
    <3>1. epochs' <= run.limit
      BY <1>1, <1>2, <2>3, RunFields DEF Continues, TypeOK
    <3>2. run.external_stop_at = Never \/ epochs' <= run.external_stop_at
      BY <1>1, <1>2, RunFields DEF TypeOK
    <3>3. ASSUME run.timeout_at # Never
          PROVE  ran' < run.timeout_at
      <4>1. ~TimedOut((cycle_count' + Word - start_cycle) % Word)
        BY <1>2, <2>1, <2>3 DEF AfterStep
      <4>2. ran' \in Nat /\ run.timeout_at \in Nat
        BY <1>1, <1>2, <3>3, RunFields DEF TypeOK
      <4>. QED  BY <1>7, <2>3, <3>3, <4>1, <4>2
    <3>. QED  BY <3>1, <3>2, <3>3
  <2>4. ASSUME ~Until
        PROVE  ran' - last_delta' < run.limit
    BY <1>1, <1>2, <2>4, RanFits, RunFields DEF Continues, TypeOK
  <2>. QED  BY <1>1, <1>2, <1>6, <2>1, <2>2, <2>3, <2>4 DEF LoopInvariant, Until
<1>9. FaultWhere'
  BY <1>1, <1>2 DEF Inv, FaultWhere
<1>10. ReasonTellsWhy'
  <2>1. ASSUME stop_reason' = "timeout"
        PROVE  run.timeout_at <= ran' /\ ran' - last_delta' < run.timeout_at
    <3>1. Until /\ TimedOut((cycle_count' + Word - start_cycle) % Word)
      BY <1>2, <2>1 DEF AfterStep
    <3>2. run.timeout_at # Never
      BY <3>1 DEF TimedOut
    <3>3. ran' >= run.timeout_at /\ ran < run.timeout_at
      BY <1>7, <3>1, <3>2
    <3>. QED  BY <1>1, <1>2, <3>2, <3>3, RunFields DEF TypeOK
  <2>2. ASSUME stop_reason' = "breakpoint"
        PROVE  pc' = breakpoint' /\ epochs' > 0
    BY <1>1, <1>2, <2>2 DEF AfterStep, TypeOK
  <2>. QED  BY <1>2, <1>4, <2>1, <2>2 DEF ReasonTellsWhy
<1>. QED  BY <1>5, <1>8, <1>9, <1>10 DEF Inv

LEMMA Preserved == Inv /\ [Next]_vars => Inv'
<1> SUFFICES ASSUME Inv, [Next]_vars
             PROVE  Inv'
  OBVIOUS
<1>1. CASE Between
  BY <1>1, BetweenInv
<1>2. CASE \/ \E n \in Limits, x \in Limits \cup {Never}, t \in Limits \cup {Never} :
                 RunUntilEvent(n, x, t)
           \/ \E n \in Limits : RunCycles(n)
  BY <1>2, BeginSteps
<1>3. CASE TimeoutBeforeStep \/ ExternalStop \/ StepFails \/ LoopEnds
  BY <1>3, StopSteps
<1>4. CASE \E c \in 0 .. MaxDelta, p \in {0, PcDelta}, r \in {"none", "watchpoint", "fault"} :
              Step(c, p, r)
  BY <1>4, StepInv
<1>5. CASE Finish
  BY <1>5, FinishInv
<1>6. CASE UNCHANGED vars
  <2>0. TypeOK'
    BY <1>6 DEF Inv, TypeOK, vars, arch, reply, locals
  <2>1. FaultWhere'
    <3>1. /\ last_fault' = last_fault /\ phase' = phase /\ stop_reason' = stop_reason
          /\ last_stop_reason' = last_stop_reason
          /\ event_type' = event_type /\ status' = status
      BY <1>6 DEF vars, locals, reply
    <3>2. phase \in {"idle", "loop", "finish"}
      BY DEF Inv, TypeOK
    <3>. QED
      BY <3>1, <3>2 DEF Inv, FaultWhere
  <2>2. LoopInvariant'
    BY <1>6 DEF Inv, LoopInvariant, CyclesCounted, Until, vars, arch, reply, locals
  <2>3. ReasonTellsWhy'
    BY <1>6 DEF Inv, ReasonTellsWhy, Until, vars, arch, reply, locals
  <2>. QED  BY <2>0, <2>1, <2>2, <2>3 DEF Inv
<1>. QED  BY <1>1, <1>2, <1>3, <1>4, <1>5, <1>6 DEF Next, Between, Loop

LEMMA Invariance == Spec => []Inv
<1>. QED  BY InitInv, Preserved, PTL DEF Spec

-----------------------------------------------------------------------------

\* Counters, pc and reply stay within their types.
THEOREM RunTypeCorrect == Spec => []TypeOK
<1>1. Inv => TypeOK
  BY DEF Inv
<1>. QED  BY <1>1, Invariance, PTL

\* Between two commands, a run's fault on record (last_fault of the session) is
\* that of the last run, whose reply told it: a run that ends well leaves none of
\* an earlier failure, whatever memory commands, faults of a ring and seeds came
\* in between. The session stands at the fault or at a watchpoint hit since.
THEOREM FaultTold == Spec => []FaultIsCurrent
<1>1. Inv => FaultIsCurrent
  BY DEF Inv, FaultWhere, FaultIsCurrent
<1>. QED  BY <1>1, Invariance, PTL

\* The reason a run replies is the truth about its epochs and cycles: a timeout
\* or a cycle target is met and overshot by less than the last step, however
\* often and wherever cycle_count wraps on the way.
THEOREM ReasonTrue == Spec => []ReasonTellsWhy
<1>1. Inv => ReasonTellsWhy
  BY DEF Inv
<1>. QED  BY <1>1, Invariance, PTL
=============================================================================
