----------------------------- MODULE EventManager -----------------------------
(***************************************************************************)
(* The alarm table of components/event_manager: raise, clear, acknowledge  *)
(* and reminder over a fixed number of slots.  An alarm is a light address *)
(* with an event family; of an event only its severity and its time stamp  *)
(* matter here.  The module constrains only its own variables, so that the *)
(* modules that use the table conjoin its actions with theirs.             *)
(***************************************************************************)
EXTENDS Integers, FiniteSets

CONSTANTS
    Alarms,         \* the pairs of address and family that are ever raised
    NoAlarm,        \* what a slot that is not used holds
    MaxActive       \* kCapacity, 128 in the code

ASSUME EventManagerAssumption ==
    /\ NoAlarm \notin Alarms
    /\ MaxActive \in Nat \ {0}

\* EventSeverity: Info, Warning, Critical.
EventSeverity == 0..2

EventAction == {"Activated", "Escalated", "Cleared", "Reminder"}

VARIABLES
    active,         \* active_: the slots
    transition      \* what the last call returned, or NoTransition

eventVars == <<active, transition>>

Slots == 1..MaxActive
NoTransition ==
    [action |-> "None", alarm |-> NoAlarm, severity |-> 0, acknowledged |-> FALSE]

EventInit ==
    /\ active = [i \in Slots |-> [alarm |-> NoAlarm, severity |-> 0,
                                  acknowledged |-> FALSE, lastEmitted |-> 0]]
    /\ transition = NoTransition

-----------------------------------------------------------------------------

\* Mutant of SlotsOf: an alarm somebody acknowledged is not found.
SlotsOfUnacknowledged(alarm) ==
    {i \in Slots : active[i].alarm = alarm /\ ~ active[i].acknowledged}

\* The slots find may return for an alarm, and the unused ones.
SlotsOf(alarm) == {i \in Slots : active[i].alarm = alarm}

\* The first of a set of slots: both searches run from the front.
First(slots) == CHOOSE i \in slots : \A j \in slots : i <= j

Transition(action, i) ==
    [action |-> action, alarm |-> active'[i].alarm,
     severity |-> active'[i].severity, acknowledged |-> active'[i].acknowledged]

\* Mutant of Activated: the acknowledgement the slot last held is kept.
ActivatedKeeping(slot, alarm, severity, time) ==
    [slot EXCEPT !.alarm = alarm, !.severity = severity, !.lastEmitted = time]

\* A slot taken for a new alarm.
Activated(slot, alarm, severity, time) ==
    [alarm |-> alarm, severity |-> severity,
     acknowledged |-> FALSE, lastEmitted |-> time]

\* raise for an alarm that has no slot: the first free one is taken; with no
\* free slot the event is dropped.
RaiseNew(alarm, severity, time) ==
    /\ SlotsOf(alarm) = {}
    /\ IF SlotsOf(NoAlarm) = {}
       THEN /\ transition' = NoTransition
            /\ UNCHANGED active
       ELSE LET i == First(SlotsOf(NoAlarm)) IN
            /\ active' = [active EXCEPT ![i] = Activated(@, alarm, severity, time)]
            /\ transition' = Transition("Activated", i)

\* Mutant of Escalates: only a jump of two levels counts.
EscalatesSteeply(severity, current) == severity > current + 1

\* Another mutant of Escalates: a repeat counts.
EscalatesEqually(severity, current) == severity >= current

\* Whether a repeated event is worth a transition.
Escalates(severity, current) == severity > current

\* raise for an alarm that is active: the event replaces the one in the slot,
\* also when it is less severe and nobody is told.
RaiseAgain(alarm, severity, time) ==
    /\ SlotsOf(alarm) # {}
    /\ LET i == First(SlotsOf(alarm)) IN
       IF Escalates(severity, active[i].severity)
       THEN /\ active' = [active EXCEPT ![i].severity = severity,
                                        ![i].lastEmitted = time]
            /\ transition' = Transition("Escalated", i)
       ELSE /\ active' = [active EXCEPT ![i].severity = severity]
            /\ transition' = NoTransition

Raise(alarm, severity, time) ==
    \/ RaiseNew(alarm, severity, time)
    \/ RaiseAgain(alarm, severity, time)

\* clear: the slot is free, and keeps what it held.  Without a slot for the
\* alarm the call changes nothing.
Clear(alarm) ==
    /\ SlotsOf(alarm) # {}
    /\ LET i == First(SlotsOf(alarm)) IN
       /\ active' = [active EXCEPT ![i].alarm = NoAlarm]
       /\ transition' = [action |-> "Cleared", alarm |-> alarm,
                         severity |-> active[i].severity,
                         acknowledged |-> active[i].acknowledged]

Acknowledge(alarm) ==
    /\ SlotsOf(alarm) # {}
    /\ active' = [active EXCEPT ![First(SlotsOf(alarm))].acknowledged = TRUE]
    /\ transition' = NoTransition

\* Mutant of Reminded: the time of the reminder is not kept.
RemindedForgetfully(slot, time) == slot

\* A slot after its reminder.
Reminded(slot, time) == [slot EXCEPT !.lastEmitted = time]

\* reminder: the first alarm whose last transition is an interval ago.
Remind(time, interval) ==
    LET due == {i \in Slots : /\ active[i].alarm # NoAlarm
                              /\ time >= active[i].lastEmitted
                              /\ time - active[i].lastEmitted >= interval}
    IN  /\ due # {}
        /\ active' = [active EXCEPT ![First(due)] = Reminded(@, time)]
        /\ transition' = Transition("Reminder", First(due))
===============================================================================
