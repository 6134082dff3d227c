--------------------------------- MODULE Ring ---------------------------------
(***************************************************************************)
(* The fixed arrays the code uses as rings: the scripted responses of      *)
(* SimulatedDaliPhy and the records of EventHistory.  Both keep the index  *)
(* of the oldest entry and how many there are.                             *)
(***************************************************************************)
EXTENDS Integers, Sequences

CONSTANT
    Capacity        \* kResponseCapacity, 32; EventHistory::kCapacity, 128

ASSUME RingAssumption == Capacity \in Nat \ {0}

Indices == 0 .. Capacity - 1

\* Where the entry i places after the oldest one is.
SlotAt(head, i) == (head + i) % Capacity

\* The entries, oldest first.
Contents(ring, head, count) == [i \in 1 .. count |-> ring[SlotAt(head, i - 1)]]
===============================================================================
