---------------------------- MODULE MailboxQueue ----------------------------
(***************************************************************************)
(* What one ring of the debug mailbox promises to its producer and its     *)
(* consumer: a FIFO queue of at most Room entries that hands every entry   *)
(* out once, and counts the entries it had to refuse.  The module          *)
(* MailboxRing shows how the indices of the C ring keep that promise, and  *)
(* MailboxLoop is written over queues of this kind.                        *)
(***************************************************************************)
EXTENDS Naturals, Sequences

CONSTANTS
    Value,       \* what an entry can hold
    Room,        \* entries a ring holds at most
    CounterRange \* the overflow counter counts modulo this

VARIABLES
    queue,       \* the entries not yet popped, oldest first
    overflow,    \* pushes refused so far, modulo CounterRange
    out,         \* the entry the consumer popped last
    generation   \* parity of the times the queue was cleared

qvars == <<queue, overflow, out, generation>>

QueueInit ==
    /\ queue = <<>>
    /\ overflow = 0
    /\ out \in Value
    /\ generation = 0

Enqueue(v) ==
    /\ Len(queue) < Room
    /\ queue' = Append(queue, v)
    /\ UNCHANGED <<overflow, out, generation>>

Refuse ==
    /\ Len(queue) = Room
    /\ overflow' = (overflow + 1) % CounterRange
    /\ UNCHANGED <<queue, out, generation>>

Dequeue ==
    /\ queue # <<>>
    /\ out' = Head(queue)
    /\ queue' = Tail(queue)
    /\ UNCHANGED <<overflow, generation>>

Clear ==
    /\ queue' = <<>>
    /\ overflow' = 0
    /\ generation' = 1 - generation
    /\ UNCHANGED out

QueueNext ==
    \/ \E v \in Value : Enqueue(v)
    \/ Refuse
    \/ Dequeue
    \/ Clear

QueueSpec == QueueInit /\ [][QueueNext]_qvars
=============================================================================
