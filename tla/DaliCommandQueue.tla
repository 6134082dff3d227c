--------------------------- MODULE DaliCommandQueue ---------------------------
(***************************************************************************)
(* The bounded priority queue of components/dali_protocol                  *)
(* (dali_command_queue.h).  A queue is a sequence of request records; only *)
(* the field "priority" matters to the queue itself, and "ticket", the     *)
(* order in which the requests were accepted, is what first-in-first-out   *)
(* is judged by.  The array items_ with its count_ is the sequence; the    *)
(* two shifting loops of the code are insertion and removal at the head.   *)
(***************************************************************************)
EXTENDS Integers, SequencesExt

CONSTANT
    Capacity                    \* kCapacity, 64 in the code

ASSUME CapacityAssumption == Capacity \in Nat \ {0}

-----------------------------------------------------------------------------

\* CommandPriority: Critical = 0, High = 1, Normal = 2, Low = 3.
CommandPriority == 0..3
Critical == 0
High     == 1
Normal   == 2
Low      == 3

\* Mutant of IsFull: one item more than the array holds.
IsFullLate(queue) == Len(queue) = Capacity + 1

\* count_ == kCapacity, the one reason enqueue refuses a request.
IsFull(queue) == Len(queue) = Capacity

\* Mutant of Insertion: the scan stops at an equally urgent item, too.
InsertionAheadOfEquals(queue, request) ==
    CHOOSE k \in 0..Len(queue) :
        /\ \A i \in 1..k : queue[i].priority < request.priority
        /\ k < Len(queue) => request.priority <= queue[k + 1].priority

\* Mutant of Insertion: the priority is not looked at.
InsertionAtEnd(queue, request) == Len(queue)

\* The scan of enqueue: how many items it passes over.  It passes every item
\* at least as urgent as the request and stops at the first less urgent one.
Insertion(queue, request) ==
    CHOOSE k \in 0..Len(queue) :
        /\ \A i \in 1..k : queue[i].priority <= request.priority
        /\ k < Len(queue) => request.priority < queue[k + 1].priority

\* enqueue on a queue that is not full.
Enqueued(queue, request) ==
    InsertAt(queue, Insertion(queue, request) + 1, request)

\* Mutant of Popped: the item at the end of the array.
PoppedFromEnd(queue) == Last(queue)

\* pop on a queue that is not empty: the request handed out, and what is left.
Popped(queue) == Head(queue)
AfterPop(queue) == Tail(queue)

-----------------------------------------------------------------------------

\* The requests a queue holds.
Elements(queue) == {queue[i] : i \in 1..Len(queue)}

\* One request goes before another: it is more urgent, or as urgent and older.
Before(r, s) ==
    \/ r.priority < s.priority
    \/ r.priority = s.priority /\ r.ticket < s.ticket

\* The order the queue keeps its requests in.
Ordered(queue) ==
    \A i, j \in 1..Len(queue) : i < j => Before(queue[i], queue[j])
===============================================================================
