---------------------------- MODULE EventReporting ----------------------------
(***************************************************************************)
(* The event path: an owner raises, clears and acknowledges alarms, asks   *)
(* for reminders, and publishes each transition a raise returns to the C6  *)
(* peer, as DemoController::step and DemoController::publish do, ignoring  *)
(* whether the session took it.  Acknowledgements of the peer and status   *)
(* requests come in between.                                               *)
(***************************************************************************)
EXTENDS EventManager, C6Session

CONSTANTS
    Severities,         \* the severities events are raised with
    Interval,           \* the reminder interval the owner asks for
    MaxTime,            \* bound: the clock
    MaxPublished,       \* bound: frames handed to the session
    MaxFaults           \* bound: frames refused or lost, acknowledgements lost

ASSUME EventReportingAssumption ==
    /\ Severities \subseteq EventSeverity
    /\ Interval \in Nat \ {0}
    /\ MaxTime \in Nat
    /\ MaxPublished \in Nat
    /\ MaxFaults \in Nat

VARIABLES
    now,            \* the uptime the owner passes on
    held,           \* the numbers of status requests made and not yet published
    published,      \* how many frames were handed to the session
    faults,         \* how many frames and acknowledgements were lost
    delivered,      \* whether the peer received the latest frame sent
    peer,           \* the last severity the peer heard of each alarm, or -1
    answered,       \* the alarms acknowledged since they became active
    since,          \* when each alarm was last activated or escalated
    reminders       \* how many reminders of it there were since

historyVars == <<answered, since, reminders>>
peerVars == <<delivered, peer>>
vars == <<eventVars, sessionVars, linkVars, now, held, published, faults,
          peerVars, historyVars>>

Init ==
    /\ EventInit
    /\ SessionInit
    /\ now = 0
    /\ held = {}
    /\ published = 0
    /\ faults = 0
    /\ delivered = TRUE
    /\ peer = [alarm \in Alarms |-> -1]
    /\ answered = {}
    /\ since = [alarm \in Alarms |-> 0]
    /\ reminders = [alarm \in Alarms |-> 0]

-----------------------------------------------------------------------------

\* What the histories make of the transition of this step.
Witnessed ==
    CASE transition'.action \in {"Activated", "Escalated"} ->
            /\ since' = [since EXCEPT ![transition'.alarm] = now]
            /\ reminders' = [reminders EXCEPT ![transition'.alarm] = 0]
            /\ answered' = IF transition'.action = "Activated"
                           THEN answered \ {transition'.alarm} ELSE answered
      [] transition'.action = "Reminder" ->
            /\ reminders' = [reminders EXCEPT ![transition'.alarm] = @ + 1]
            /\ UNCHANGED <<answered, since>>
      [] transition'.action = "Cleared" ->
            /\ answered' = answered \ {transition'.alarm}
            /\ since' = [since EXCEPT ![transition'.alarm] = 0]
            /\ reminders' = [reminders EXCEPT ![transition'.alarm] = 0]
      [] OTHER -> UNCHANGED historyVars

\* No frame or acknowledgement outlives a full turn of the sequence counter.
Fresh(sequence) ==
    /\ \A i \in 1..Len(wire) : wire[i].sequence # sequence
    /\ \A i \in 1..Len(acks) : acks[i] # sequence

\* A frame is handed to the session: sent, or refused by the transport.
Publish(given, about) ==
    /\ published' = published + 1
    /\ Fresh(NumberFor(given))
    /\ \/ PublishSent(given, about) /\ delivered' = FALSE /\ UNCHANGED faults
       \/ /\ PublishRefused(given)
          /\ faults < MaxFaults
          /\ faults' = faults + 1
          /\ UNCHANGED delivered
    /\ UNCHANGED peer

\* An event is raised and its transition published, if it has one.
Report(alarm, severity) ==
    /\ published < MaxPublished
    /\ Raise(alarm, severity, now)
    /\ Witnessed
    /\ IF transition'.action = "None"
       THEN UNCHANGED <<sessionVars, linkVars, published, faults, peerVars>>
       ELSE Publish(0, [alarm |-> alarm, severity |-> severity])
    /\ UNCHANGED <<now, held>>

ClearAlarm(alarm) ==
    /\ Clear(alarm)
    /\ Witnessed
    /\ UNCHANGED <<sessionVars, linkVars, now, held, published, faults, peerVars>>

AcknowledgeAlarm(alarm) ==
    /\ Acknowledge(alarm)
    /\ answered' = answered \cup {alarm}
    /\ UNCHANGED <<sessionVars, linkVars, now, held, published, faults, peerVars,
                   since, reminders>>

RemindAlarms ==
    /\ Remind(now, Interval)
    /\ Witnessed
    /\ UNCHANGED <<sessionVars, linkVars, now, held, published, faults, peerVars>>

\* The clock goes on; the bound is where it stops.
Tick ==
    /\ now' = IF now < MaxTime THEN now + 1 ELSE now
    /\ UNCHANGED <<eventVars, sessionVars, linkVars, held, published, faults,
                   peerVars, historyVars>>

RequestStatus ==
    /\ held = {}
    /\ published < MaxPublished
    /\ MakeStatusRequest
    /\ held' = {nextSequence}
    /\ UNCHANGED <<eventVars, now, published, faults, peerVars, historyVars>>

PublishRequest ==
    /\ published < MaxPublished
    /\ \E given \in held : Publish(given, [alarm |-> NoAlarm, severity |-> 0])
    /\ held' = {}
    /\ UNCHANGED <<eventVars, now, historyVars>>

Owner ==
    \/ \E alarm \in Alarms, severity \in Severities : Report(alarm, severity)
    \/ \E alarm \in Alarms : ClearAlarm(alarm) \/ AcknowledgeAlarm(alarm)
    \/ RemindAlarms
    \/ RequestStatus
    \/ PublishRequest

\* The peer receives the oldest frame and acknowledges it.
Deliver ==
    /\ PeerReceive
    /\ delivered' = (delivered \/ Len(wire) = 1)
    /\ LET about == Head(wire).about IN
       peer' = IF about.alarm = NoAlarm THEN peer
               ELSE [peer EXCEPT ![about.alarm] = about.severity]
    /\ UNCHANGED <<eventVars, now, held, published, faults, historyVars>>

HearAck ==
    /\ TakeAck
    /\ UNCHANGED <<eventVars, now, held, published, faults, peerVars, historyVars>>

Lose ==
    /\ faults < MaxFaults
    /\ faults' = faults + 1
    /\ LoseFrame \/ LoseAck
    /\ UNCHANGED <<eventVars, now, held, published, peerVars, historyVars>>

Next == Owner \/ Tick \/ Deliver \/ HearAck \/ Lose

\* The link and the peer go on working, and the owner hears what arrives.
Spec == Init /\ [][Next]_vars /\ WF_vars(Deliver) /\ WF_vars(HearAck)

-----------------------------------------------------------------------------
(* Properties.                                                             *)

Sequences == 0..(SequenceModulus - 1)

\* Every variable holds a value of its type.
TypeOK ==
    /\ active \in [Slots -> [alarm : Alarms \cup {NoAlarm},
                             severity : EventSeverity,
                             acknowledged : BOOLEAN, lastEmitted : 0..MaxTime]]
    /\ transition \in [action : EventAction \cup {"None"},
                       alarm : Alarms \cup {NoAlarm},
                       severity : EventSeverity, acknowledged : BOOLEAN]
    /\ nextSequence \in Sequences
    /\ pendingSequence \in Sequences
    /\ pending \in BOOLEAN
    /\ wire \in Seq([sequence : Sequences,
                     about : [alarm : Alarms \cup {NoAlarm},
                              severity : EventSeverity]])
    /\ acks \in Seq(Sequences)
    /\ now \in 0..MaxTime
    /\ held \subseteq Sequences
    /\ published \in 0..MaxPublished
    /\ faults \in 0..MaxFaults
    /\ delivered \in BOOLEAN
    /\ peer \in [Alarms -> -1..2]
    /\ answered \subseteq Alarms
    /\ since \in [Alarms -> 0..MaxTime]
    /\ reminders \in [Alarms -> Nat]

\* An alarm has one slot, however it was raised, acknowledged and cleared: it is
\* never active twice, so one clear ends it.
OneSlotPerAlarm ==
    \A i, j \in Slots :
        active[i].alarm = active[j].alarm /\ active[i].alarm # NoAlarm => i = j

\* An active alarm is marked acknowledged exactly when somebody acknowledged it
\* since it became active; the mark of an earlier alarm in the same slot, or of
\* the same alarm before it was cleared, is not inherited.
AcknowledgementFresh ==
    \A i \in Slots :
        active[i].alarm # NoAlarm =>
            (active[i].acknowledged <=> active[i].alarm \in answered)

\* Whatever was raised, cleared and raised again: once the link is idle, and as
\* long as nothing was refused or lost, the peer has heard of every active alarm,
\* and the last it heard of it is no less severe than the alarm is.
PeerInformed ==
    faults = 0 /\ wire = << >> =>
        \A i \in Slots :
            active[i].alarm # NoAlarm => active[i].severity <= peer[active[i].alarm]

\* An alarm that stays as it is gets at most one reminder per interval, from the
\* transition that made it what it is, whatever else the table emits and however
\* often the owner asks.
RemindersSpaced ==
    \A alarm \in Alarms : reminders[alarm] * Interval <= now - since[alarm]

\* When the session waits for no acknowledgement, the peer has the latest frame.
AcknowledgedWasReceived == ~ pending => delivered

\* The session retries: a frame that was published, and not overtaken by a
\* later one, reaches the peer, although frames can be lost on the way.
PublishedIsDelivered == <>[](pending => delivered)
===============================================================================
