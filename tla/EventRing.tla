----------------------------- MODULE EventRing -----------------------------
(***************************************************************************)
(* The functions of yaml_event_queue (src/yaml/yaml_pull_reader.c): a ring *)
(* of slots that grows to twice its size when it is full, by moving its    *)
(* events to the front of a new array.                                     *)
(***************************************************************************)
EXTENDS Naturals, Sequences

CONSTANTS
    Nothing,         \* what is in a slot that was never written
    FirstCapacity    \* the capacity of the first array, 8 in the code
ASSUME RingAssumption == FirstCapacity \in Nat \ {0}

EmptyQueue == [items |-> [i \in {} |-> Nothing], head |-> 0, count |-> 0, capacity |-> 0]

\* The slot of the event that i others precede.
Slot(q, i) == (q.head + i) % q.capacity
Contents(q) == [i \in 1..q.count |-> q.items[Slot(q, i - 1)]]

Larger(q) == IF q.capacity = 0 THEN FirstCapacity ELSE 2 * q.capacity
\* Faulty: the slots are copied as they lie, whatever the head.
GrownAsIs(q) ==
    [items    |-> [i \in 0..(Larger(q) - 1) |-> IF i < q.count THEN q.items[i] ELSE Nothing],
     head     |-> 0,
     count    |-> q.count,
     capacity |-> Larger(q)]
\* queue_reserve of a full queue.
Grown(q) ==
    [items    |-> [i \in 0..(Larger(q) - 1) |-> IF i < q.count THEN q.items[Slot(q, i)] ELSE Nothing],
     head     |-> 0,
     count    |-> q.count,
     capacity |-> Larger(q)]
Reserved(q) == IF q.count < q.capacity THEN q ELSE Grown(q)

\* queue_push and queue_pop.
Push(q, e) ==
    LET r == Reserved(q)
    IN  [items |-> [r.items EXCEPT ![Slot(r, r.count)] = e], head |-> r.head,
         count |-> r.count + 1, capacity |-> r.capacity]
Pop(q)   == [items |-> q.items, head |-> Slot(q, 1), count |-> q.count - 1, capacity |-> q.capacity]
First(q) == q.items[q.head]
=============================================================================
