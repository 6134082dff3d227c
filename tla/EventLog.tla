-------------------------------- MODULE EventLog --------------------------------
(***************************************************************************)
(* What the local event history promises: a log of the latest Limit events *)
(* in the order they were appended, of which the damaged ones are not      *)
(* handed out.  It is kept in memory and lost with it.                     *)
(***************************************************************************)
EXTENDS Integers, Sequences

CONSTANTS
    Events,         \* what can be appended
    Limit,          \* how many events are kept
    Intact(_)       \* how a reader tells that an entry is not damaged

VARIABLES
    log,            \* the entries, oldest first: an event, and whether it was damaged
    readable        \* the events a reader is handed

logVars == <<log, readable>>

\* The reader is handed what is intact, in order.
Shown == readable' = SelectSeq(log', Intact)

Init == log = << >> /\ readable = SelectSeq(log, Intact)

\* The entry comes last, and the oldest one goes when there are Limit of them.
AppendEvent(e) ==
    LET entry == [event |-> e, damaged |-> FALSE] IN
    /\ log' = Append(IF Len(log) = Limit THEN Tail(log) ELSE log, entry)
    /\ Shown

Flipped(entry) == [entry EXCEPT !.damaged = ~@]

DamageLatest ==
    /\ log # << >>
    /\ log' = [log EXCEPT ![Len(log)] = Flipped(@)]
    /\ Shown

LoseAll == log' = << >> /\ Shown

Next == (\E e \in Events : AppendEvent(e)) \/ DamageLatest \/ LoseAll

Spec == Init /\ [][Next]_logVars
===============================================================================
