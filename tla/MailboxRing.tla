---------------------------- MODULE MailboxRing -----------------------------
(***************************************************************************)
(* The ring the debug mailbox keeps its commands, responses and events in  *)
(* (HYBRID_DEBUG_MAILBOX_RUNTIME.h): a producer and a consumer index into  *)
(* Capacity slots, taken modulo Capacity, with one slot always left empty  *)
(* so that equal indices mean "empty".                                     *)
(***************************************************************************)
EXTENDS Integers, Sequences

CONSTANTS
    Value,        \* what an entry can hold
    Zero,         \* the entry memset leaves behind
    Capacity,     \* capacity_entries: 32 in a session, 8 in an epoch context
    CounterRange  \* overflow_count is a uint32_t: 2^32 in the code

\* layout_init is only called with 32 and 8, and ring_validate refuses
\* a capacity of 1 or less.
ASSUME CapacityAssumption == Capacity \in Nat /\ Capacity > 1
ASSUME ValueAssumption == Zero \in Value
ASSUME CounterAssumption == CounterRange \in Nat \ {0}

VARIABLES
    producer_index,
    consumer_index,
    overflow_count,
    entries,      \* the array the caller passes with the ring
    value,        \* the caller's buffer ring_pop_bytes copies into
    generation    \* parity of the resets so far, so that losing every entry
                  \* is not mistaken for a reset (no field of the code)

ringVars == <<producer_index, consumer_index, overflow_count, entries, value, generation>>

Index == 0 .. Capacity - 1

-----------------------------------------------------------------------------

ring_count == (producer_index + Capacity - consumer_index) % Capacity

\* Mutation: the slot kept free is given away.
ring_space_all_slots == Capacity - ring_count

ring_space == (Capacity - 1) - ring_count

ring_empty == ring_count = 0

ring_full == ring_space = 0

\* The check at the head of every push and pop.  The ABI version and the
\* entry size are constants of the build and always agree.
ring_validate == producer_index < Capacity /\ consumer_index < Capacity

\* ring_init with the entries cleared, as SessionInit and ResetQueues do.
RingInit ==
    /\ producer_index = 0
    /\ consumer_index = 0
    /\ overflow_count = 0
    /\ entries = [i \in Index |-> Zero]
    /\ value = Zero
    /\ generation = 0

\* Mutation: the producer index is advanced without the wrap.
PushStoredNoWrap(v) ==
    /\ ~ring_full
    /\ entries' = [entries EXCEPT ![producer_index] = v]
    /\ producer_index' = producer_index + 1
    /\ UNCHANGED <<consumer_index, overflow_count, value, generation>>

PushStored(v) ==
    /\ ring_validate
    /\ ~ring_full
    /\ entries' = [entries EXCEPT ![producer_index] = v]
    /\ producer_index' = (producer_index + 1) % Capacity
    /\ UNCHANGED <<consumer_index, overflow_count, value, generation>>

PushRefused ==
    /\ ring_validate
    /\ ring_full
    /\ overflow_count' = (overflow_count + 1) % CounterRange
    /\ UNCHANGED <<producer_index, consumer_index, entries, value, generation>>

Pop ==
    /\ ring_validate
    /\ ~ring_empty
    /\ value' = entries[consumer_index]
    /\ consumer_index' = (consumer_index + 1) % Capacity
    /\ UNCHANGED <<producer_index, overflow_count, entries, generation>>

ResetQueue ==
    /\ producer_index' = 0
    /\ consumer_index' = 0
    /\ overflow_count' = 0
    /\ entries' = [i \in Index |-> Zero]
    /\ generation' = 1 - generation
    /\ UNCHANGED value

RingNext ==
    \/ \E v \in Value : PushStored(v)
    \/ PushRefused
    \/ Pop
    \/ ResetQueue

RingSpec == RingInit /\ [][RingNext]_ringVars

-----------------------------------------------------------------------------

RingTypeOK ==
    /\ producer_index \in Index
    /\ consumer_index \in Index
    /\ overflow_count \in 0 .. CounterRange - 1
    /\ entries \in [Index -> Value]
    /\ value \in Value
    /\ generation \in {0, 1}

\* The slots between the indices, oldest first: what the ring stands for.
Contents == [i \in 1 .. ring_count |->
                entries[(consumer_index + (i - 1)) % Capacity]]

Queue == INSTANCE MailboxQueue WITH
    queue <- Contents, overflow <- overflow_count, out <- value,
    Room <- Capacity - 1

\* The ring is a bounded FIFO queue: through every wrap of the two indices
\* each stored entry is handed out once, in order and unchanged, a push is
\* refused exactly when Capacity - 1 entries are waiting, and a refusal
\* disturbs nothing but overflow_count.
ImplementsQueue == Queue!QueueSpec
=============================================================================
