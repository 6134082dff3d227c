------------------------------ MODULE EventHistory ------------------------------
(***************************************************************************)
(* The local event history of components/local_storage: a ring of stored   *)
(* events, each with the checksum it was stored with.  The checksum is     *)
(* modelled by what it tells: whether the record was damaged since (flipping *)
(* all its bits twice restores it).  The module constrains only its own    *)
(* variables.                                                              *)
(***************************************************************************)
EXTENDS Ring

CONSTANTS
    Events,         \* StoredEvent without its checksum
    EmptyRecord     \* what a slot holds before it is used

ASSUME EventHistoryAssumption == EmptyRecord \notin [event : Events, damaged : BOOLEAN]

VARIABLES
    stored,         \* records_
    head, size

historyVars == <<stored, head, size>>

Record == [event : Events, damaged : BOOLEAN]

HistoryInit ==
    /\ stored = [i \in Indices |-> EmptyRecord]
    /\ head = 0
    /\ size = 0

-----------------------------------------------------------------------------

\* Mutant of HeadAfterAppend: a full ring keeps its head.
HeadAfterAppendKept == head

\* The oldest record goes when the ring is full: it is the one written over.
HeadAfterAppend == IF size < Capacity THEN head ELSE SlotAt(head, 1)

\* append, with the checksum of the event as it is stored.
AppendRecord(e) ==
    /\ stored' = [stored EXCEPT ![SlotAt(head, size)] = [event |-> e, damaged |-> FALSE]]
    /\ size' = IF size < Capacity THEN size + 1 ELSE size
    /\ head' = HeadAfterAppend

\* All the bits of the checksum are flipped.
Flipped(record) == [record EXCEPT !.damaged = ~@]

\* corruptNewestForTest.
CorruptNewest ==
    /\ size > 0
    /\ stored' = [stored EXCEPT ![SlotAt(head, size - 1)] = Flipped(@)]
    /\ UNCHANGED <<head, size>>

\* The records between head and the newest, oldest first.
Kept == Contents(stored, head, size)

\* The checksum fits.
Fits(record) == ~record.damaged

\* recover.
Recovered == SelectSeq(Kept, Fits)

\* The memory is lost: the object is built anew.
HistoryLost ==
    /\ stored' = [i \in Indices |-> EmptyRecord]
    /\ head' = 0
    /\ size' = 0
===============================================================================
