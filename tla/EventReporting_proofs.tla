------------------------- MODULE EventReporting_proofs -------------------------
(***************************************************************************)
(* What holds of the event path for every set of alarms, table size,       *)
(* reminder interval, sequence modulus and number of faults: of the alarm  *)
(* table alone, of the session alone, and of what the two tell the peer.   *)
(***************************************************************************)
EXTENDS EventReporting, SequenceTheorems, WellFoundedInduction, TLAPS

-----------------------------------------------------------------------------
(* What a call to the table does.                                          *)

Slot ==
    [alarm : Alarms \cup {NoAlarm}, severity : EventSeverity,
     acknowledged : BOOLEAN, lastEmitted : 0..MaxTime]

TableOK == active \in [Slots -> Slot]

\* Only slot i of the table changed, and it now holds slot.
Becomes(i, slot) ==
    /\ active' \in [Slots -> Slot]
    /\ active'[i] = slot
    /\ \A j \in Slots \ {i} : active'[j] = active[j]

\* A search of the table from the front ends at one of the slots it is for.
LEMMA FirstIsOne ==
    ASSUME NEW slots \in SUBSET Slots, slots # {}
    PROVE  First(slots) \in slots
<1>1. slots \in SUBSET Nat
  BY DEF Slots
<1>2. PICK i \in slots : \A j \in slots : ~ (<<j, i>> \in OpToRel(<, Nat))
  BY <1>1, NatLessThanWellFounded, WFMin, Zenon
<1>3. \A j \in slots : ~ (j < i)
  BY <1>1, <1>2, Zenon DEF OpToRel
<1>4. \A j \in slots : i <= j
  BY <1>1, <1>3
<1> QED  BY <1>4 DEF First

\* The three things raise does to a slot.
Activates(i, alarm, severity, time) ==
    /\ active[i].alarm = NoAlarm
    /\ \A j \in Slots : active[j].alarm # alarm
    /\ Becomes(i, Activated(active[i], alarm, severity, time))
    /\ transition' = [action |-> "Activated", alarm |-> alarm,
                      severity |-> severity, acknowledged |-> FALSE]

Worsens(i, alarm, severity, time) ==
    /\ active[i].alarm = alarm
    /\ Becomes(i, [active[i] EXCEPT !.severity = severity, !.lastEmitted = time])
    /\ transition' = [action |-> "Escalated", alarm |-> alarm,
                      severity |-> severity,
                      acknowledged |-> active[i].acknowledged]

Eases(i, alarm, severity) ==
    /\ active[i].alarm = alarm
    /\ severity <= active[i].severity
    /\ Becomes(i, [active[i] EXCEPT !.severity = severity])
    /\ transition' = NoTransition

\* raise takes a free slot for an alarm that has none, raises the severity of
\* one that has and says so, lowers it in silence, or finds the table full.
LEMMA RaiseEffect ==
    ASSUME TableOK, NEW alarm \in Alarms, NEW severity \in EventSeverity,
           NEW time \in 0..MaxTime, Raise(alarm, severity, time)
    PROVE  \/ \E i \in Slots : Activates(i, alarm, severity, time)
           \/ \E i \in Slots : Worsens(i, alarm, severity, time)
           \/ \E i \in Slots : Eases(i, alarm, severity)
           \/ UNCHANGED active /\ transition' = NoTransition
<1>0. EventManagerAssumption /\ SlotsOf(alarm) \subseteq Slots
        /\ SlotsOf(NoAlarm) \subseteq Slots
  BY EventManagerAssumption DEF SlotsOf
<1>1. CASE RaiseNew(alarm, severity, time) /\ SlotsOf(NoAlarm) = {}
  BY <1>1 DEF RaiseNew
<1>2. CASE RaiseNew(alarm, severity, time) /\ SlotsOf(NoAlarm) # {}
  <2>1. PICK i \in SlotsOf(NoAlarm) : i = First(SlotsOf(NoAlarm))
    BY <1>0, <1>2, FirstIsOne
  <2>2. PICK slot : slot = Activated(active[i], alarm, severity, time)
    OBVIOUS
  <2>3. slot \in Slot /\ slot.alarm = alarm /\ slot.severity = severity
          /\ slot.acknowledged = FALSE
    BY <2>2 DEF Activated, Slot
  <2>4. /\ active' = [active EXCEPT ![i] = slot]
        /\ transition' = Transition("Activated", i)
    BY <1>2, <2>1, <2>2 DEF RaiseNew
  <2>5. i \in Slots /\ active[i].alarm = NoAlarm
    BY <2>1 DEF SlotsOf
  <2>6. Becomes(i, slot)
    BY <2>3, <2>4, <2>5 DEF Becomes, TableOK
  <2>7. \A j \in Slots : active[j].alarm # alarm
    BY <1>2 DEF RaiseNew, SlotsOf
  <2>8. transition' = [action |-> "Activated", alarm |-> alarm,
                       severity |-> severity, acknowledged |-> FALSE]
    BY <2>3, <2>4, <2>6 DEF Transition, Becomes
  <2> QED  BY <2>2, <2>5, <2>6, <2>7, <2>8 DEF Activates
<1>3. CASE RaiseAgain(alarm, severity, time)
  <2>1. PICK i \in SlotsOf(alarm) : i = First(SlotsOf(alarm))
    BY <1>0, <1>3, FirstIsOne DEF RaiseAgain
  <2>2. i \in Slots /\ active[i].alarm = alarm /\ active[i] \in Slot
    BY <2>1 DEF SlotsOf, TableOK
  <2>3. CASE severity > active[i].severity
    <3>1. PICK slot : slot = [active[i] EXCEPT !.severity = severity,
                                               !.lastEmitted = time]
      OBVIOUS
    <3>2. slot \in Slot /\ slot.alarm = alarm /\ slot.severity = severity
            /\ slot.acknowledged = active[i].acknowledged
      BY <2>2, <3>1 DEF Slot
    <3>3. /\ active' = [active EXCEPT ![i] = slot]
          /\ transition' = Transition("Escalated", i)
      BY <1>3, <2>1, <2>2, <2>3, <3>1 DEF RaiseAgain, Escalates, TableOK
    <3>4. Becomes(i, slot)
      BY <2>2, <3>2, <3>3 DEF Becomes, TableOK
    <3>5. transition' = [action |-> "Escalated", alarm |-> alarm,
                         severity |-> severity,
                         acknowledged |-> active[i].acknowledged]
      BY <3>2, <3>3, <3>4 DEF Transition, Becomes
    <3> QED  BY <2>2, <3>1, <3>4, <3>5 DEF Worsens
  <2>4. CASE ~ (severity > active[i].severity)
    <3>1. PICK slot : slot = [active[i] EXCEPT !.severity = severity]
      OBVIOUS
    <3>2. slot \in Slot
      BY <2>2, <3>1 DEF Slot
    <3>3. /\ active' = [active EXCEPT ![i] = slot]
          /\ transition' = NoTransition
      BY <1>3, <2>1, <2>2, <2>4, <3>1 DEF RaiseAgain, Escalates, TableOK
    <3>4. Becomes(i, slot)
      BY <2>2, <3>2, <3>3 DEF Becomes, TableOK
    <3>5. severity <= active[i].severity
      BY <2>2, <2>4 DEF Slot, EventSeverity
    <3> QED  BY <2>2, <3>1, <3>3, <3>4, <3>5 DEF Eases
  <2> QED  BY <2>3, <2>4
<1> QED  BY <1>1, <1>2, <1>3 DEF Raise

\* clear frees a slot of the alarm and leaves the rest of it as it was.
LEMMA ClearEffect ==
    ASSUME TableOK, NEW alarm \in Alarms, Clear(alarm)
    PROVE  \E i \in Slots :
             /\ active[i].alarm = alarm
             /\ Becomes(i, [active[i] EXCEPT !.alarm = NoAlarm])
             /\ transition' = [action |-> "Cleared", alarm |-> alarm,
                               severity |-> active[i].severity,
                               acknowledged |-> active[i].acknowledged]
<1>1. SlotsOf(alarm) \subseteq Slots /\ SlotsOf(alarm) # {}
  BY DEF SlotsOf, Clear
<1>2. PICK i \in SlotsOf(alarm) : i = First(SlotsOf(alarm))
  BY <1>1, FirstIsOne
<1>3. i \in Slots /\ active[i].alarm = alarm /\ active[i] \in Slot
  BY <1>2 DEF SlotsOf, TableOK
<1>4. PICK slot : slot = [active[i] EXCEPT !.alarm = NoAlarm]
  OBVIOUS
<1>5. slot \in Slot
  BY <1>3, <1>4 DEF Slot
<1>6. active' = [active EXCEPT ![i] = slot]
  BY <1>2, <1>3, <1>4 DEF Clear, TableOK
<1>7. Becomes(i, slot)
  BY <1>3, <1>5, <1>6 DEF Becomes, TableOK
<1> QED  BY <1>2, <1>3, <1>4, <1>7 DEF Clear

\* acknowledge marks a slot of the alarm.
LEMMA AcknowledgeEffect ==
    ASSUME TableOK, NEW alarm \in Alarms, Acknowledge(alarm)
    PROVE  \E i \in Slots :
             /\ active[i].alarm = alarm
             /\ Becomes(i, [active[i] EXCEPT !.acknowledged = TRUE])
             /\ transition' = NoTransition
<1>1. SlotsOf(alarm) \subseteq Slots /\ SlotsOf(alarm) # {}
  BY DEF SlotsOf, Acknowledge
<1>2. PICK i \in SlotsOf(alarm) : i = First(SlotsOf(alarm))
  BY <1>1, FirstIsOne
<1>3. i \in Slots /\ active[i].alarm = alarm /\ active[i] \in Slot
  BY <1>2 DEF SlotsOf, TableOK
<1>4. PICK slot : slot = [active[i] EXCEPT !.acknowledged = TRUE]
  OBVIOUS
<1>5. slot \in Slot
  BY <1>3, <1>4 DEF Slot
<1>6. active' = [active EXCEPT ![i] = slot]
  BY <1>2, <1>3, <1>4 DEF Acknowledge, TableOK
<1>7. Becomes(i, slot)
  BY <1>3, <1>5, <1>6 DEF Becomes, TableOK
<1> QED  BY <1>3, <1>4, <1>7 DEF Acknowledge

\* reminder finds an alarm whose last transition is an interval ago and dates it.
LEMMA RemindEffect ==
    ASSUME TableOK, NEW time \in 0..MaxTime, Remind(time, Interval)
    PROVE  \E i \in Slots :
             /\ active[i].alarm \in Alarms
             /\ time - active[i].lastEmitted >= Interval
             /\ Becomes(i, Reminded(active[i], time))
             /\ transition' = [action |-> "Reminder", alarm |-> active[i].alarm,
                               severity |-> active[i].severity,
                               acknowledged |-> active[i].acknowledged]
<1> DEFINE due == {i \in Slots : /\ active[i].alarm # NoAlarm
                                 /\ time >= active[i].lastEmitted
                                 /\ time - active[i].lastEmitted >= Interval}
<1>1. due \subseteq Slots /\ due # {}
  BY DEF Remind
<1>2. PICK i \in due : i = First(due)
  BY <1>1, FirstIsOne
<1>3. /\ i \in Slots /\ active[i] \in Slot /\ active[i].alarm \in Alarms
      /\ time - active[i].lastEmitted >= Interval
  BY <1>2 DEF TableOK, Slot
<1>4. PICK slot : slot = Reminded(active[i], time)
  OBVIOUS
<1>5. slot \in Slot /\ slot.alarm = active[i].alarm
        /\ slot.severity = active[i].severity
        /\ slot.acknowledged = active[i].acknowledged
  BY <1>3, <1>4 DEF Slot, Reminded
<1>6. /\ active' = [active EXCEPT ![i] = slot]
      /\ transition' = Transition("Reminder", i)
  BY <1>2, <1>3, <1>4 DEF Remind, Reminded, TableOK
<1>7. Becomes(i, slot)
  BY <1>3, <1>5, <1>6 DEF Becomes, TableOK
<1>8. transition' = [action |-> "Reminder", alarm |-> active[i].alarm,
                     severity |-> active[i].severity,
                     acknowledged |-> active[i].acknowledged]
  BY <1>5, <1>6, <1>7 DEF Transition, Becomes
<1> QED  BY <1>3, <1>4, <1>7, <1>8

-----------------------------------------------------------------------------
(* Type correctness.                                                       *)

About == [alarm : Alarms \cup {NoAlarm}, severity : EventSeverity]
Frame == [sequence : Sequences, about : About]

SessionOK ==
    /\ nextSequence \in Sequences
    /\ pendingSequence \in Sequences
    /\ pending \in BOOLEAN
    /\ wire \in Seq(Frame)
    /\ acks \in Seq(Sequences)

HistoryOK ==
    /\ answered \subseteq Alarms
    /\ since \in [Alarms -> 0..MaxTime]
    /\ reminders \in [Alarms -> Nat]

\* A transition that says something is about an alarm.
TransitionOK ==
    /\ transition \in [action : EventAction \cup {"None"},
                       alarm : Alarms \cup {NoAlarm},
                       severity : EventSeverity, acknowledged : BOOLEAN]
    /\ transition.action # "None" => transition.alarm \in Alarms

\* What a call to the table leaves is a table and a transition of it.
LEMMA TableType ==
    ASSUME TableOK,
           \/ \E alarm \in Alarms, severity \in EventSeverity, time \in 0..MaxTime :
                Raise(alarm, severity, time)
           \/ \E alarm \in Alarms : Clear(alarm) \/ Acknowledge(alarm)
           \/ \E time \in 0..MaxTime : Remind(time, Interval)
    PROVE  TableOK' /\ TransitionOK'
<1>0. \A i \in Slots : active[i] \in Slot
  BY DEF TableOK
<1>1. ASSUME transition' = NoTransition PROVE TransitionOK'
  BY <1>1 DEF TransitionOK, NoTransition, EventSeverity
<1>2. ASSUME NEW alarm \in Alarms, NEW severity \in EventSeverity,
             NEW time \in 0..MaxTime, Raise(alarm, severity, time)
      PROVE  TableOK' /\ TransitionOK'
  <2>1. ASSUME NEW i \in Slots, Activates(i, alarm, severity, time)
        PROVE  TableOK' /\ TransitionOK'
    BY <2>1 DEF Activates, Becomes, TableOK, TransitionOK, EventAction
  <2>2. ASSUME NEW i \in Slots, Worsens(i, alarm, severity, time)
        PROVE  TableOK' /\ TransitionOK'
    <3>1. active[i].acknowledged \in BOOLEAN
      BY <1>0 DEF Slot
    <3> QED  BY <2>2, <3>1
             DEF Worsens, Becomes, TableOK, TransitionOK, EventAction
  <2>3. ASSUME NEW i \in Slots, Eases(i, alarm, severity)
        PROVE  TableOK' /\ TransitionOK'
    BY <1>1, <2>3 DEF Eases, Becomes, TableOK
  <2>4. CASE UNCHANGED active /\ transition' = NoTransition
    BY <1>1, <2>4 DEF TableOK
  <2> QED  BY <1>2, <2>1, <2>2, <2>3, <2>4, RaiseEffect
<1>3. ASSUME NEW alarm \in Alarms, Clear(alarm) PROVE TableOK' /\ TransitionOK'
  <2>1. TableOK'
    BY <1>3, ClearEffect DEF Becomes, TableOK
  <2>2. PICK i \in Slots :
          transition' = [action |-> "Cleared", alarm |-> alarm,
                         severity |-> active[i].severity,
                         acknowledged |-> active[i].acknowledged]
    BY <1>3, ClearEffect
  <2>3. TransitionOK'
    BY <1>0, <2>2 DEF TransitionOK, EventAction, Slot
  <2> QED  BY <2>1, <2>3
<1>4. ASSUME NEW alarm \in Alarms, Acknowledge(alarm)
      PROVE  TableOK' /\ TransitionOK'
  <2>1. TableOK' /\ transition' = NoTransition
    BY <1>4, AcknowledgeEffect DEF Becomes, TableOK
  <2> QED  BY <1>1, <2>1
<1>5. ASSUME NEW time \in 0..MaxTime, Remind(time, Interval)
      PROVE  TableOK' /\ TransitionOK'
  <2>1. TableOK'
    BY <1>5, RemindEffect DEF Becomes, TableOK
  <2>2. PICK i \in Slots :
          /\ active[i].alarm \in Alarms
          /\ transition' = [action |-> "Reminder", alarm |-> active[i].alarm,
                            severity |-> active[i].severity,
                            acknowledged |-> active[i].acknowledged]
    BY <1>5, RemindEffect
  <2>3. TransitionOK'
    BY <1>0, <2>2 DEF TransitionOK, EventAction, Slot
  <2> QED  BY <2>1, <2>3
<1> QED  BY <1>2, <1>3, <1>4, <1>5

LEMMA WitnessedType ==
    ASSUME HistoryOK, now \in 0..MaxTime, TransitionOK', Witnessed
    PROVE  HistoryOK'
<1>1. CASE transition'.action \in {"Activated", "Escalated"}
  BY <1>1 DEF Witnessed, HistoryOK, TransitionOK
<1>2. CASE transition'.action = "Reminder"
  BY <1>2 DEF Witnessed, HistoryOK, TransitionOK
<1>3. CASE transition'.action = "Cleared"
  <2>1. PICK a \in Alarms : a = transition'.alarm
    BY <1>3 DEF TransitionOK
  <2>2. /\ answered' = answered \ {a}
        /\ since' = [since EXCEPT ![a] = 0]
        /\ reminders' = [reminders EXCEPT ![a] = 0]
    BY <1>3, <2>1 DEF Witnessed
  <2> QED  BY <2>2, EventReportingAssumption DEF HistoryOK
<1>4. CASE transition'.action = "None"
  BY <1>4 DEF Witnessed, HistoryOK, historyVars
<1> QED  BY <1>1, <1>2, <1>3, <1>4 DEF TransitionOK, EventAction

\* The sequence counter and the number a frame is given stay in its width.
LEMMA SequenceType ==
    ASSUME nextSequence \in Sequences, NEW given \in Sequences
    PROVE  AfterSequence \in Sequences /\ NumberFor(given) \in Sequences
<1>1. PICK m \in Nat \ {0} : m = SequenceModulus
  BY C6SessionAssumption
<1>2. nextSequence + 1 \in Nat
  BY <1>1 DEF Sequences
<1>3. (nextSequence + 1) % m \in 0..m - 1
  BY <1>1, <1>2
<1> QED  BY <1>1, <1>3 DEF AfterSequence, NumberFor, Sequences

LEMMA PublishType ==
    ASSUME SessionOK, published \in 0..MaxPublished, faults \in 0..MaxFaults,
           delivered \in BOOLEAN, published < MaxPublished,
           NEW given \in Sequences, NEW about \in About, Publish(given, about)
    PROVE  /\ SessionOK' /\ published' \in 0..MaxPublished
           /\ faults' \in 0..MaxFaults /\ delivered' \in BOOLEAN
           /\ peer' = peer
<1>1. published' \in 0..MaxPublished
  BY EventReportingAssumption DEF Publish
<1>2. faults' \in 0..MaxFaults /\ delivered' \in BOOLEAN
  <2>1. MaxFaults \in Nat
    BY EventReportingAssumption
  <2>2. CASE delivered' = FALSE /\ UNCHANGED faults
    BY <2>2
  <2>3. CASE faults < MaxFaults /\ faults' = faults + 1 /\ UNCHANGED delivered
    BY <2>1, <2>3
  <2> QED  BY <2>2, <2>3 DEF Publish
<1>3. NumberFor(given) \in Sequences /\ nextSequence' \in Sequences
  BY SequenceType DEF Publish, PublishSent, PublishRefused, Numbered, SessionOK
<1>4. CASE PublishSent(given, about)
  <2>1. PICK frame : frame = [sequence |-> NumberFor(given), about |-> about]
    OBVIOUS
  <2>2. frame \in Frame
    BY <1>3, <2>1 DEF Frame
  <2>3. wire' \in Seq(Frame)
    BY <1>4, <2>1, <2>2, AppendProperties DEF PublishSent, SessionOK
  <2> QED  BY <1>1, <1>2, <1>3, <1>4, <2>3 DEF PublishSent, SessionOK, Publish
<1>5. CASE PublishRefused(given)
  BY <1>1, <1>2, <1>3, <1>5 DEF PublishRefused, linkVars, SessionOK, Publish
<1> QED  BY <1>4, <1>5 DEF Publish

\* TypeOK part by part, with what a transition is about.
TypeInv ==
    /\ TableOK
    /\ TransitionOK
    /\ SessionOK
    /\ HistoryOK
    /\ now \in 0..MaxTime
    /\ held \subseteq Sequences
    /\ published \in 0..MaxPublished
    /\ faults \in 0..MaxFaults
    /\ delivered \in BOOLEAN
    /\ peer \in [Alarms -> -1..2]

LEMMA TypeStep == TypeInv /\ [Next]_vars => TypeInv'
<1> SUFFICES ASSUME TypeInv, [Next]_vars PROVE TypeInv'
  OBVIOUS
<1>1. /\ TableOK /\ TransitionOK /\ SessionOK /\ HistoryOK
      /\ now \in 0..MaxTime
      /\ held \subseteq Sequences
      /\ published \in 0..MaxPublished
      /\ faults \in 0..MaxFaults
      /\ delivered \in BOOLEAN
      /\ peer \in [Alarms -> -1..2]
  BY DEF TypeInv
<1>2. ASSUME UNCHANGED eventVars PROVE TableOK' /\ TransitionOK'
  BY <1>1, <1>2 DEF TableOK, TransitionOK, eventVars
<1>3. ASSUME UNCHANGED <<sessionVars, linkVars>> PROVE SessionOK'
  BY <1>1, <1>3 DEF SessionOK, sessionVars, linkVars
<1>4. ASSUME UNCHANGED historyVars PROVE HistoryOK'
  BY <1>1, <1>4 DEF HistoryOK, historyVars
<1>5. EventReportingAssumption /\ Severities \subseteq EventSeverity
  BY EventReportingAssumption
<1>6. ASSUME NEW alarm \in Alarms, NEW severity \in Severities,
             Report(alarm, severity)
      PROVE  TypeInv'
  <2>1. TableOK' /\ TransitionOK'
    BY <1>1, <1>5, <1>6, TableType DEF Report
  <2>2. HistoryOK'
    BY <1>1, <1>6, <2>1, WitnessedType DEF Report
  <2>3. /\ SessionOK' /\ published' \in 0..MaxPublished
        /\ faults' \in 0..MaxFaults /\ delivered' \in BOOLEAN
        /\ peer' = peer
    <3>1. CASE transition'.action = "None"
      BY <1>1, <1>3, <1>6, <3>1 DEF Report, peerVars
    <3>2. CASE transition'.action # "None"
      <4>1. PICK about : about = [alarm |-> alarm, severity |-> severity]
        OBVIOUS
      <4>2. about \in About /\ 0 \in Sequences
        BY <1>5, <4>1, C6SessionAssumption DEF About, Sequences
      <4>3. Publish(0, about) /\ published < MaxPublished
        BY <1>6, <3>2, <4>1 DEF Report
      <4> QED  BY <1>1, <4>2, <4>3, PublishType
    <3> QED  BY <3>1, <3>2
  <2>4. UNCHANGED <<now, held>>
    BY <1>6 DEF Report
  <2> QED  BY <1>1, <2>1, <2>2, <2>3, <2>4 DEF TypeInv
<1>7. ASSUME NEW alarm \in Alarms, ClearAlarm(alarm) PROVE TypeInv'
  <2>1. TableOK' /\ TransitionOK'
    BY <1>1, <1>7, TableType DEF ClearAlarm
  <2>2. HistoryOK'
    BY <1>1, <1>7, <2>1, WitnessedType DEF ClearAlarm
  <2> QED  BY <1>1, <1>3, <1>7, <2>1, <2>2 DEF TypeInv, ClearAlarm, peerVars
<1>8. ASSUME NEW alarm \in Alarms, AcknowledgeAlarm(alarm) PROVE TypeInv'
  <2>1. TableOK' /\ TransitionOK'
    BY <1>1, <1>8, TableType DEF AcknowledgeAlarm
  <2>2. HistoryOK'
    BY <1>1, <1>8 DEF AcknowledgeAlarm, HistoryOK
  <2> QED  BY <1>1, <1>3, <1>8, <2>1, <2>2
           DEF TypeInv, AcknowledgeAlarm, peerVars
<1>9. CASE RemindAlarms
  <2>1. TableOK' /\ TransitionOK'
    BY <1>1, <1>9, TableType DEF RemindAlarms
  <2>2. HistoryOK'
    BY <1>1, <1>9, <2>1, WitnessedType DEF RemindAlarms
  <2> QED  BY <1>1, <1>3, <1>9, <2>1, <2>2 DEF TypeInv, RemindAlarms, peerVars
<1>10. CASE RequestStatus
  <2>1. SessionOK'
    BY <1>1, <1>10, SequenceType
    DEF RequestStatus, MakeStatusRequest, SessionOK, linkVars
  <2>2. held' \subseteq Sequences
    BY <1>1, <1>10 DEF RequestStatus, SessionOK
  <2> QED  BY <1>1, <1>2, <1>4, <1>10, <2>1, <2>2
           DEF TypeInv, RequestStatus, peerVars
<1>11. CASE PublishRequest
  <2>1. PICK about : about = [alarm |-> NoAlarm, severity |-> 0]
    OBVIOUS
  <2>2. about \in About
    BY <2>1 DEF About, EventSeverity
  <2>3. PICK given \in Sequences : Publish(given, about)
    BY <1>1, <1>11, <2>1 DEF PublishRequest
  <2>4. /\ SessionOK' /\ published' \in 0..MaxPublished
        /\ faults' \in 0..MaxFaults /\ delivered' \in BOOLEAN
        /\ peer' = peer
    BY <1>1, <1>11, <2>2, <2>3, PublishType DEF PublishRequest
  <2> QED  BY <1>1, <1>2, <1>4, <1>11, <2>4 DEF TypeInv, PublishRequest
<1>12. CASE Tick
  <2>1. now' \in 0..MaxTime
    BY <1>1, <1>5, <1>12 DEF Tick, EventReportingAssumption
  <2> QED  BY <1>1, <1>2, <1>3, <1>4, <1>12, <2>1 DEF TypeInv, Tick, peerVars
<1>13. CASE Deliver
  <2>1. wire # << >> /\ wire \in Seq(Frame)
    BY <1>1, <1>13 DEF Deliver, PeerReceive, SessionOK
  <2>2. Head(wire) \in Frame /\ Tail(wire) \in Seq(Frame)
    BY <2>1, HeadTailProperties
  <2>3. Append(acks, Head(wire).sequence) \in Seq(Sequences)
    BY <1>1, <2>2, AppendProperties DEF SessionOK, Frame
  <2>4. SessionOK'
    BY <1>1, <1>13, <2>2, <2>3 DEF Deliver, PeerReceive, SessionOK, sessionVars
  <2>5. peer' \in [Alarms -> -1..2]
    BY <1>1, <1>13, <2>2 DEF Deliver, Frame, About, EventSeverity
  <2>6. delivered' \in BOOLEAN
    BY <1>13 DEF Deliver
  <2> QED  BY <1>1, <1>2, <1>4, <1>13, <2>4, <2>5, <2>6 DEF TypeInv, Deliver
<1>14. CASE HearAck
  <2>1. acks # << >> /\ Tail(acks) \in Seq(Sequences)
    BY <1>1, <1>14, HeadTailProperties DEF HearAck, TakeAck, SessionOK
  <2>2. SessionOK'
    BY <1>1, <1>14, <2>1 DEF HearAck, TakeAck, SessionOK
  <2> QED  BY <1>1, <1>2, <1>4, <1>14, <2>2 DEF TypeInv, HearAck, peerVars
<1>15. CASE Lose
  <2>1. SessionOK'
    <3>1. CASE LoseFrame
      BY <1>1, <3>1, HeadTailProperties DEF LoseFrame, SessionOK, sessionVars
    <3>2. CASE LoseAck
      BY <1>1, <3>2, HeadTailProperties DEF LoseAck, SessionOK, sessionVars
    <3> QED  BY <1>15, <3>1, <3>2 DEF Lose
  <2>2. faults' \in 0..MaxFaults
    BY <1>1, <1>5, <1>15 DEF Lose, EventReportingAssumption
  <2> QED  BY <1>1, <1>2, <1>4, <1>15, <2>1, <2>2 DEF TypeInv, Lose, peerVars
<1>16. CASE UNCHANGED vars
  BY <1>1, <1>2, <1>3, <1>4, <1>16 DEF TypeInv, vars, peerVars
<1> QED
  BY <1>6, <1>7, <1>8, <1>9, <1>10, <1>11, <1>12, <1>13, <1>14, <1>15, <1>16
  DEF Next, Owner

LEMMA TypeKept == Spec => []TypeInv
<1>1. Init => TypeInv
  <2> SUFFICES ASSUME Init PROVE TypeInv
    OBVIOUS
  <2>1. TableOK
    BY EventReportingAssumption DEF Init, EventInit, TableOK, Slot, EventSeverity
  <2>2. TransitionOK
    BY DEF Init, EventInit, TransitionOK, NoTransition, EventSeverity
  <2>3. SessionOK
    <3>1. << >> \in Seq(Frame) /\ << >> \in Seq(Sequences)
      BY EmptySeq
    <3>2. 0 \in Sequences /\ 1 \in Sequences
      BY C6SessionAssumption DEF Sequences
    <3> QED  BY <3>1, <3>2 DEF Init, SessionInit, SessionOK
  <2>4. HistoryOK
    BY EventReportingAssumption DEF Init, HistoryOK
  <2>5. /\ now \in 0..MaxTime /\ held \subseteq Sequences
        /\ published \in 0..MaxPublished /\ faults \in 0..MaxFaults
        /\ delivered \in BOOLEAN /\ peer \in [Alarms -> -1..2]
    BY EventReportingAssumption DEF Init
  <2> QED  BY <2>1, <2>2, <2>3, <2>4, <2>5 DEF TypeInv
<1> QED  BY <1>1, TypeStep, PTL DEF Spec

\* Every variable of the event path keeps its type, the sequence counter its
\* width.
THEOREM TypeCorrect == Spec => []TypeOK
<1>1. TypeInv => TypeOK
  BY DEF TypeInv, TypeOK, TableOK, Slot, TransitionOK, SessionOK, Frame, About,
         HistoryOK
<1> QED  BY <1>1, TypeKept, PTL

-----------------------------------------------------------------------------
(* The alarm table.                                                        *)

\* What is known of the alarm a slot holds: who acknowledged it, and that its
\* reminders fit between the transition that made it what it is and the last.
Tidy(slot) ==
    /\ slot.acknowledged <=> slot.alarm \in answered
    /\ since[slot.alarm] + reminders[slot.alarm] * Interval <= slot.lastEmitted
    /\ slot.lastEmitted <= now

\* An alarm has one slot at most, with a tidy record; one that has none has no
\* history.
TableInv ==
    /\ OneSlotPerAlarm
    /\ \A i \in Slots : active[i].alarm # NoAlarm => Tidy(active[i])
    /\ \A alarm \in Alarms :
         (\A i \in Slots : active[i].alarm # alarm) =>
            since[alarm] = 0 /\ reminders[alarm] = 0

\* A call that touches one slot, which held the alarm or nothing and holds the
\* alarm or nothing, and the history of this alarm only.
LEMMA OneSlotChanges ==
    ASSUME TypeInv, TableInv,
           NEW i \in Slots, NEW alarm \in Alarms, NEW slot \in Slot,
           Becomes(i, slot),
           \A j \in Slots \ {i} : active[j].alarm # alarm,
           active[i].alarm \in {alarm, NoAlarm},
           slot.alarm \in {alarm, NoAlarm},
           \A a \in Alarms \ {alarm} :
              /\ since'[a] = since[a]
              /\ reminders'[a] = reminders[a]
              /\ a \in answered' <=> a \in answered,
           now' = now,
           slot.alarm = alarm => Tidy(slot)',
           slot.alarm = NoAlarm => since'[alarm] = 0 /\ reminders'[alarm] = 0
    PROVE  TableInv'
<1>0. NoAlarm \notin Alarms /\ \A j \in Slots : active[j].alarm \in Alarms \cup {NoAlarm}
  BY EventManagerAssumption DEF TypeInv, TableOK, Slot
<1>1. /\ active'[i] = slot
      /\ \A j \in Slots \ {i} : active'[j] = active[j]
  BY DEF Becomes
<1>2. OneSlotPerAlarm'
  BY <1>1 DEF OneSlotPerAlarm, TableInv, Slots
<1>3. ASSUME NEW j \in Slots, active'[j].alarm # NoAlarm PROVE Tidy(active[j])'
  <2>1. CASE j = i
    BY <1>1, <1>3, <2>1
  <2>2. CASE j # i
    <3>1. active'[j] = active[j] /\ active[j].alarm \in Alarms \ {alarm}
      BY <1>0, <1>1, <1>3, <2>2
    <3>2. Tidy(active[j])
      BY <1>0, <3>1 DEF TableInv
    <3> QED  BY <3>1, <3>2 DEF Tidy
  <2> QED  BY <2>1, <2>2
<1>4. ASSUME NEW a \in Alarms, \A j \in Slots : active'[j].alarm # a
      PROVE  since'[a] = 0 /\ reminders'[a] = 0
  <2>1. CASE a = alarm
    BY <1>1, <1>4, <2>1
  <2>2. CASE a # alarm
    <3>1. \A j \in Slots : active[j].alarm # a
      BY <1>0, <1>1, <1>4, <2>2
    <3>2. since[a] = 0 /\ reminders[a] = 0
      BY <3>1 DEF TableInv
    <3> QED  BY <2>2, <3>2
  <2> QED  BY <2>1, <2>2
<1> QED  BY <1>2, <1>3, <1>4 DEF TableInv

\* The slot of an alarm is the only one that holds it.
LEMMA OnlySlot ==
    ASSUME OneSlotPerAlarm, NEW i \in Slots, active[i].alarm # NoAlarm
    PROVE  \A j \in Slots \ {i} : active[j].alarm # active[i].alarm
BY DEF OneSlotPerAlarm

LEMMA ReportKeepsTable ==
    ASSUME TypeInv, TableInv,
           NEW alarm \in Alarms, NEW severity \in Severities,
           Report(alarm, severity)
    PROVE  TableInv'
<1>0. /\ TableOK /\ HistoryOK /\ now \in 0..MaxTime /\ MaxTime \in Nat
      /\ severity \in EventSeverity /\ Interval \in Nat
      /\ alarm # NoAlarm
      /\ \A j \in Slots : active[j] \in Slot
  BY EventReportingAssumption, EventManagerAssumption DEF TypeInv, TableOK
<1>1. now' = now /\ Raise(alarm, severity, now) /\ Witnessed
  BY DEF Report
<1>2. ASSUME NEW i \in Slots, Activates(i, alarm, severity, now) PROVE TableInv'
  <2>1. PICK slot : slot = Activated(active[i], alarm, severity, now)
    OBVIOUS
  <2>2. /\ slot \in Slot /\ slot.alarm = alarm
        /\ slot.acknowledged = FALSE /\ slot.lastEmitted = now
    BY <1>0, <2>1 DEF Activated, Slot
  <2>3. /\ since' = [since EXCEPT ![alarm] = now]
        /\ reminders' = [reminders EXCEPT ![alarm] = 0]
        /\ answered' = answered \ {alarm}
    BY <1>1, <1>2 DEF Activates, Witnessed
  <2>4. since'[alarm] = now /\ reminders'[alarm] = 0 /\ alarm \notin answered'
    BY <1>0, <2>3 DEF HistoryOK
  <2>5. Tidy(slot)'
    BY <1>0, <1>1, <2>2, <2>4 DEF Tidy
  <2>6. \A a \in Alarms \ {alarm} :
          /\ since'[a] = since[a]
          /\ reminders'[a] = reminders[a]
          /\ a \in answered' <=> a \in answered
    BY <1>0, <2>3 DEF HistoryOK
  <2>7. /\ active[i].alarm = NoAlarm
        /\ \A j \in Slots : active[j].alarm # alarm
        /\ Becomes(i, slot)
    BY <1>2, <2>1 DEF Activates
  <2> QED  BY <1>0, <1>1, <2>2, <2>5, <2>6, <2>7, OneSlotChanges
<1>3. ASSUME NEW i \in Slots, Worsens(i, alarm, severity, now) PROVE TableInv'
  <2>1. PICK slot : slot = [active[i] EXCEPT !.severity = severity,
                                             !.lastEmitted = now]
    OBVIOUS
  <2>2. /\ slot \in Slot /\ slot.alarm = alarm /\ active[i].alarm = alarm
        /\ slot.acknowledged = active[i].acknowledged /\ slot.lastEmitted = now
    BY <1>0, <1>3, <2>1 DEF Worsens, Slot
  <2>3. /\ since' = [since EXCEPT ![alarm] = now]
        /\ reminders' = [reminders EXCEPT ![alarm] = 0]
        /\ answered' = answered
    BY <1>1, <1>3 DEF Worsens, Witnessed
  <2>4. since'[alarm] = now /\ reminders'[alarm] = 0
    BY <1>0, <2>3 DEF HistoryOK
  <2>5. Tidy(slot)'
    BY <1>0, <1>1, <2>2, <2>3, <2>4 DEF Tidy, TableInv
  <2>6. \A a \in Alarms \ {alarm} :
          since'[a] = since[a] /\ reminders'[a] = reminders[a]
    BY <1>0, <2>3 DEF HistoryOK
  <2>7. \A j \in Slots \ {i} : active[j].alarm # alarm
    BY <1>0, <2>2, OnlySlot DEF TableInv
  <2>8. Becomes(i, slot)
    BY <1>3, <2>1 DEF Worsens
  <2> QED  BY <1>0, <1>1, <2>2, <2>3, <2>5, <2>6, <2>7, <2>8, OneSlotChanges
<1>4. ASSUME NEW i \in Slots, Eases(i, alarm, severity) PROVE TableInv'
  <2>1. PICK slot : slot = [active[i] EXCEPT !.severity = severity]
    OBVIOUS
  <2>2. /\ slot \in Slot /\ slot.alarm = alarm /\ active[i].alarm = alarm
        /\ slot.acknowledged = active[i].acknowledged
        /\ slot.lastEmitted = active[i].lastEmitted
    BY <1>0, <1>4, <2>1 DEF Eases, Slot
  <2>3. UNCHANGED historyVars
    BY <1>1, <1>4 DEF Eases, Witnessed, NoTransition
  <2>4. Tidy(active[i])
    BY <1>0, <2>2 DEF TableInv
  <2>5. Tidy(slot)'
    BY <1>1, <2>2, <2>3, <2>4 DEF Tidy, historyVars
  <2>6. \A j \in Slots \ {i} : active[j].alarm # alarm
    BY <1>0, <2>2, OnlySlot DEF TableInv
  <2>7. Becomes(i, slot)
    BY <1>4, <2>1 DEF Eases
  <2> QED  BY <1>0, <1>1, <2>2, <2>3, <2>5, <2>6, <2>7, OneSlotChanges
           DEF historyVars
<1>5. CASE UNCHANGED active /\ transition' = NoTransition
  <2>1. UNCHANGED historyVars
    BY <1>1, <1>5 DEF Witnessed, NoTransition
  <2> QED  BY <1>1, <1>5, <2>1 DEF TableInv, OneSlotPerAlarm, Tidy, historyVars
<1> QED  BY <1>0, <1>1, <1>2, <1>3, <1>4, <1>5, RaiseEffect

LEMMA ClearKeepsTable ==
    ASSUME TypeInv, TableInv, NEW alarm \in Alarms, ClearAlarm(alarm)
    PROVE  TableInv'
<1>0. TableOK /\ HistoryOK /\ alarm # NoAlarm /\ \A j \in Slots : active[j] \in Slot
  BY EventManagerAssumption DEF TypeInv, TableOK
<1>1. now' = now /\ Clear(alarm) /\ Witnessed
  BY DEF ClearAlarm
<1>2. PICK i \in Slots :
        /\ active[i].alarm = alarm
        /\ Becomes(i, [active[i] EXCEPT !.alarm = NoAlarm])
        /\ transition' = [action |-> "Cleared", alarm |-> alarm,
                          severity |-> active[i].severity,
                          acknowledged |-> active[i].acknowledged]
  BY <1>0, <1>1, ClearEffect
<1>3. PICK slot : slot = [active[i] EXCEPT !.alarm = NoAlarm]
  OBVIOUS
<1>4. slot \in Slot /\ slot.alarm = NoAlarm
  BY <1>0, <1>3 DEF Slot
<1>5. /\ answered' = answered \ {alarm}
      /\ since' = [since EXCEPT ![alarm] = 0]
      /\ reminders' = [reminders EXCEPT ![alarm] = 0]
  BY <1>1, <1>2 DEF Witnessed
<1>6. since'[alarm] = 0 /\ reminders'[alarm] = 0
  BY <1>0, <1>5 DEF HistoryOK
<1>7. \A a \in Alarms \ {alarm} :
        /\ since'[a] = since[a]
        /\ reminders'[a] = reminders[a]
        /\ a \in answered' <=> a \in answered
  BY <1>0, <1>5 DEF HistoryOK
<1>8. \A j \in Slots \ {i} : active[j].alarm # alarm
  BY <1>0, <1>2, OnlySlot DEF TableInv
<1> QED  BY <1>0, <1>1, <1>2, <1>3, <1>4, <1>6, <1>7, <1>8, OneSlotChanges

LEMMA AcknowledgeKeepsTable ==
    ASSUME TypeInv, TableInv, NEW alarm \in Alarms, AcknowledgeAlarm(alarm)
    PROVE  TableInv'
<1>0. TableOK /\ HistoryOK /\ alarm # NoAlarm /\ \A j \in Slots : active[j] \in Slot
  BY EventManagerAssumption DEF TypeInv, TableOK
<1>1. /\ now' = now /\ Acknowledge(alarm)
      /\ answered' = answered \cup {alarm}
      /\ UNCHANGED <<since, reminders>>
  BY DEF AcknowledgeAlarm
<1>2. PICK i \in Slots :
        /\ active[i].alarm = alarm
        /\ Becomes(i, [active[i] EXCEPT !.acknowledged = TRUE])
  BY <1>0, <1>1, AcknowledgeEffect
<1>3. PICK slot : slot = [active[i] EXCEPT !.acknowledged = TRUE]
  OBVIOUS
<1>4. /\ slot \in Slot /\ slot.alarm = alarm /\ slot.acknowledged = TRUE
      /\ slot.lastEmitted = active[i].lastEmitted
  BY <1>0, <1>2, <1>3 DEF Slot
<1>5. Tidy(active[i])
  BY <1>0, <1>2 DEF TableInv
<1>6. Tidy(slot)'
  BY <1>1, <1>2, <1>4, <1>5 DEF Tidy
<1>7. \A j \in Slots \ {i} : active[j].alarm # alarm
  BY <1>0, <1>2, OnlySlot DEF TableInv
<1> QED  BY <1>0, <1>1, <1>2, <1>3, <1>4, <1>6, <1>7, OneSlotChanges

\* A reminder is an interval after the last transition, so it fits.
LEMMA RemindKeepsTable ==
    ASSUME TypeInv, TableInv, RemindAlarms
    PROVE  TableInv'
<1>0. /\ TableOK /\ HistoryOK /\ now \in 0..MaxTime /\ MaxTime \in Nat
      /\ Interval \in Nat /\ NoAlarm \notin Alarms
      /\ \A j \in Slots : active[j] \in Slot
  BY EventReportingAssumption, EventManagerAssumption DEF TypeInv, TableOK
<1>1. now' = now /\ Remind(now, Interval) /\ Witnessed
  BY DEF RemindAlarms
<1>2. PICK i \in Slots :
        /\ active[i].alarm \in Alarms
        /\ now - active[i].lastEmitted >= Interval
        /\ Becomes(i, Reminded(active[i], now))
        /\ transition' = [action |-> "Reminder", alarm |-> active[i].alarm,
                          severity |-> active[i].severity,
                          acknowledged |-> active[i].acknowledged]
  BY <1>0, <1>1, RemindEffect
<1>3. PICK alarm, slot :
        alarm = active[i].alarm /\ slot = Reminded(active[i], now)
  OBVIOUS
<1>4. /\ slot \in Slot /\ slot.alarm = alarm
      /\ slot.acknowledged = active[i].acknowledged
      /\ slot.lastEmitted = now
  BY <1>0, <1>3 DEF Slot, Reminded
<1>5. /\ reminders' = [reminders EXCEPT ![alarm] = @ + 1]
      /\ UNCHANGED <<answered, since>>
  BY <1>1, <1>2, <1>3 DEF Witnessed
<1>6. alarm \in Alarms /\ Tidy(active[i])
  BY <1>0, <1>2, <1>3 DEF TableInv
<1>7. PICK r \in Nat, s \in Nat, e \in Nat :
        r = reminders[alarm] /\ s = since[alarm] /\ e = active[i].lastEmitted
  BY <1>0, <1>6 DEF HistoryOK, Slot
<1>8. reminders'[alarm] = r + 1 /\ since'[alarm] = s
  BY <1>0, <1>5, <1>6, <1>7 DEF HistoryOK
<1>9. s + (r + 1) * Interval <= now
  <2>1. s + r * Interval <= e
    BY <1>3, <1>6, <1>7 DEF Tidy
  <2>2. e + Interval <= now
    BY <1>0, <1>2, <1>7
  <2>3. (r + 1) * Interval = r * Interval + Interval
    BY <1>0
  <2>4. r * Interval \in Nat
    BY <1>0
  <2> QED  BY <1>0, <2>1, <2>2, <2>3, <2>4
<1>10. Tidy(slot)'
  BY <1>0, <1>1, <1>3, <1>4, <1>5, <1>6, <1>8, <1>9 DEF Tidy
<1>11. \A a \in Alarms \ {alarm} :
         since'[a] = since[a] /\ reminders'[a] = reminders[a]
  BY <1>0, <1>5 DEF HistoryOK
<1>12. \A j \in Slots \ {i} : active[j].alarm # alarm
  BY <1>0, <1>2, <1>3, OnlySlot DEF TableInv
<1> QED
  BY <1>0, <1>1, <1>2, <1>3, <1>4, <1>5, <1>6, <1>10, <1>11, <1>12, OneSlotChanges

LEMMA TableStep == TypeInv /\ TableInv /\ [Next]_vars => TableInv'
<1> SUFFICES ASSUME TypeInv, TableInv, [Next]_vars PROVE TableInv'
  OBVIOUS
<1>1. ASSUME UNCHANGED <<active, historyVars>>, now <= now' PROVE TableInv'
  <2>1. \A i \in Slots : active[i].lastEmitted \in Int
    BY DEF TypeInv, TableOK, Slot
  <2>2. \A i \in Slots : Tidy(active[i]) => Tidy(active[i])'
    <3>1. now \in Int /\ now' \in Int
      BY TypeStep DEF TypeInv
    <3> QED  BY <1>1, <2>1, <3>1 DEF Tidy, historyVars
  <2> QED  BY <1>1, <2>2 DEF TableInv, OneSlotPerAlarm, historyVars
<1>2. now <= now
  BY DEF TypeInv
<1>3. ASSUME NEW alarm \in Alarms, NEW severity \in Severities,
             Report(alarm, severity)
      PROVE  TableInv'
  BY <1>3, ReportKeepsTable
<1>4. ASSUME NEW alarm \in Alarms, ClearAlarm(alarm) \/ AcknowledgeAlarm(alarm)
      PROVE  TableInv'
  BY <1>4, ClearKeepsTable, AcknowledgeKeepsTable
<1>5. CASE RemindAlarms
  BY <1>5, RemindKeepsTable
<1>6. CASE RequestStatus \/ PublishRequest
  BY <1>1, <1>2, <1>6 DEF RequestStatus, PublishRequest, eventVars
<1>7. CASE Tick
  <2>1. now <= now'
    BY <1>7 DEF Tick, TypeInv
  <2> QED  BY <1>1, <1>7, <2>1 DEF Tick, eventVars
<1>8. CASE Deliver \/ HearAck \/ Lose
  BY <1>1, <1>2, <1>8 DEF Deliver, HearAck, Lose, eventVars
<1>9. CASE UNCHANGED vars
  BY <1>1, <1>2, <1>9 DEF vars, eventVars
<1> QED  BY <1>3, <1>4, <1>5, <1>6, <1>7, <1>8, <1>9 DEF Next, Owner

LEMMA TableKept == Spec => []TableInv
<1>1. Init => TableInv
  BY EventReportingAssumption
  DEF Init, EventInit, TableInv, OneSlotPerAlarm, Tidy
<1> QED  BY <1>1, TableStep, TypeKept, PTL DEF Spec

\* However it was raised, acknowledged and cleared, an alarm has one slot.
THEOREM OneSlotCorrect == Spec => []OneSlotPerAlarm
<1>1. TableInv => OneSlotPerAlarm
  BY DEF TableInv
<1> QED  BY <1>1, TableKept, PTL

\* The mark of acknowledgement is that of the alarm the slot holds now.
THEOREM AcknowledgementCorrect == Spec => []AcknowledgementFresh
<1>1. TableInv => AcknowledgementFresh
  BY DEF TableInv, AcknowledgementFresh, Tidy
<1> QED  BY <1>1, TableKept, PTL

\* An alarm is reminded of at most once per interval since its last transition.
THEOREM RemindersCorrect == Spec => []RemindersSpaced
<1>1. ASSUME TypeInv, TableInv, NEW alarm \in Alarms
      PROVE  reminders[alarm] * Interval <= now - since[alarm]
  <2>1. /\ reminders[alarm] \in Nat /\ since[alarm] \in Nat /\ now \in Nat
        /\ Interval \in Nat /\ alarm # NoAlarm
    BY <1>1, EventReportingAssumption, EventManagerAssumption
    DEF TypeInv, HistoryOK
  <2>2. PICK p \in Nat : p = reminders[alarm] * Interval
    BY <2>1
  <2>3. CASE \E i \in Slots : active[i].alarm = alarm
    <3>1. PICK i \in Slots : active[i].alarm = alarm
      BY <2>3
    <3>2. active[i].lastEmitted \in Nat
      BY <1>1 DEF TypeInv, TableOK, Slot
    <3>3. since[alarm] + p <= active[i].lastEmitted /\ active[i].lastEmitted <= now
      BY <1>1, <2>1, <2>2, <3>1 DEF TableInv, Tidy
    <3> QED  BY <2>1, <2>2, <3>2, <3>3
  <2>4. CASE \A i \in Slots : active[i].alarm # alarm
    <3>1. since[alarm] = 0 /\ reminders[alarm] = 0
      BY <1>1, <2>4 DEF TableInv
    <3> QED  BY <2>1, <3>1
  <2> QED  BY <2>3, <2>4
<1>2. TypeInv /\ TableInv => RemindersSpaced
  BY <1>1 DEF RemindersSpaced
<1> QED  BY <1>2, TypeKept, TableKept, PTL

-----------------------------------------------------------------------------
(* The session.                                                            *)

\* What is behind the head of a queue, place by place.
LEMMA TailItems ==
    ASSUME NEW T, NEW s \in Seq(T), s # << >>
    PROVE  /\ Len(s) \in Nat \ {0} /\ Len(Tail(s)) = Len(s) - 1
           /\ Head(s) = s[1]
           /\ \A i \in 1..Len(s) - 1 : Tail(s)[i] = s[i + 1]
<1>1. Len(s) \in Nat \ {0} /\ Len(Tail(s)) = Len(s) - 1
  BY EmptySeq, LenProperties, HeadTailProperties
<1> QED  BY <1>1, HeadTailProperties

\* What an item appended to a queue leaves in place.
LEMMA AppendItems ==
    ASSUME NEW T, NEW s \in Seq(T), NEW x \in T
    PROVE  /\ Len(s) \in Nat /\ Len(Append(s, x)) = Len(s) + 1
           /\ \A i \in 1..Len(s) : Append(s, x)[i] = s[i]
           /\ Append(s, x)[Len(s) + 1] = x
BY LenProperties, AppendProperties

\* While the peer lacks the latest frame, neither an acknowledgement on its way
\* nor an earlier frame on the wire bears its number.  Numbers are used again
\* after a full turn of the counter, so this rests on the assumption about the
\* link that Fresh states.
AckInv ==
    /\ ~ pending => delivered
    /\ ~ delivered =>
         /\ \A i \in 1..Len(acks) : acks[i] # pendingSequence
         /\ \A i \in 1..Len(wire) - 1 : wire[i].sequence # pendingSequence

LEMMA PublishKeepsAck ==
    ASSUME TypeInv, AckInv, NEW given \in Sequences, NEW about \in About,
           Publish(given, about)
    PROVE  AckInv'
<1>0. SessionOK
  BY DEF TypeInv
<1>1. CASE PublishSent(given, about) /\ delivered' = FALSE
  <2>1. PICK frame : frame = [sequence |-> NumberFor(given), about |-> about]
    OBVIOUS
  <2>2. frame \in Frame
    BY <1>0, <2>1, SequenceType DEF SessionOK, Frame
  <2>3. /\ wire' = Append(wire, frame)
        /\ pendingSequence' = NumberFor(given)
        /\ pending' = TRUE
        /\ acks' = acks
    BY <1>1, <2>1 DEF PublishSent
  <2>4. /\ Len(wire') - 1 = Len(wire)
        /\ \A i \in 1..Len(wire) : wire'[i] = wire[i]
    BY <1>0, <2>2, <2>3, AppendItems DEF SessionOK
  <2>5. /\ \A i \in 1..Len(wire) : wire[i].sequence # pendingSequence'
        /\ \A i \in 1..Len(acks) : acks[i] # pendingSequence'
    BY <2>3 DEF Publish, Fresh
  <2> QED  BY <2>3, <2>4, <2>5 DEF AckInv
<1>2. CASE PublishRefused(given) /\ UNCHANGED delivered
  BY <1>2 DEF PublishRefused, linkVars, AckInv
<1> QED  BY <1>1, <1>2 DEF Publish

LEMMA AckStep == TypeInv /\ AckInv /\ [Next]_vars => AckInv'
<1> SUFFICES ASSUME TypeInv, AckInv, [Next]_vars PROVE AckInv'
  OBVIOUS
<1>0. SessionOK /\ delivered \in BOOLEAN
  BY DEF TypeInv
<1>1. ASSUME UNCHANGED <<pending, pendingSequence, linkVars, delivered>>
      PROVE  AckInv'
  BY <1>1 DEF AckInv, linkVars
<1>2. ASSUME NEW alarm \in Alarms, NEW severity \in Severities,
             Report(alarm, severity)
      PROVE  AckInv'
  <2>1. CASE transition'.action = "None"
    BY <1>1, <1>2, <2>1 DEF Report, sessionVars, peerVars
  <2>2. CASE transition'.action # "None"
    <3>1. PICK about : about = [alarm |-> alarm, severity |-> severity]
      OBVIOUS
    <3>2. about \in About /\ 0 \in Sequences
      BY <3>1, EventReportingAssumption, C6SessionAssumption
      DEF About, Sequences
    <3>3. Publish(0, about)
      BY <1>2, <2>2, <3>1 DEF Report
    <3> QED  BY <3>2, <3>3, PublishKeepsAck
  <2> QED  BY <2>1, <2>2
<1>3. CASE \/ \E alarm \in Alarms : ClearAlarm(alarm) \/ AcknowledgeAlarm(alarm)
           \/ RemindAlarms \/ Tick
  BY <1>1, <1>3 DEF ClearAlarm, AcknowledgeAlarm, RemindAlarms, Tick,
                    sessionVars, peerVars
<1>4. CASE RequestStatus
  BY <1>1, <1>4 DEF RequestStatus, MakeStatusRequest, peerVars
<1>5. CASE PublishRequest
  <2>1. PICK about : about = [alarm |-> NoAlarm, severity |-> 0]
    OBVIOUS
  <2>2. about \in About
    BY <2>1 DEF About, EventSeverity
  <2>3. PICK given \in Sequences : Publish(given, about)
    BY <1>5, <2>1 DEF PublishRequest, TypeInv
  <2> QED  BY <2>2, <2>3, PublishKeepsAck
<1>6. CASE Deliver
  <2>1. /\ wire # << >> /\ wire \in Seq(Frame)
        /\ wire' = Tail(wire)
        /\ acks' = Append(acks, Head(wire).sequence)
        /\ UNCHANGED <<pending, pendingSequence>>
        /\ delivered' = (delivered \/ Len(wire) = 1)
    BY <1>0, <1>6 DEF Deliver, PeerReceive, SessionOK, sessionVars
  <2>2. /\ Len(wire) \in Nat \ {0} /\ Len(wire') = Len(wire) - 1
        /\ Head(wire) = wire[1]
        /\ \A i \in 1..Len(wire) - 1 : wire'[i] = wire[i + 1]
    BY <2>1, TailItems
  <2>3. ASSUME ~ delivered'
        PROVE  /\ \A i \in 1..Len(acks') : acks'[i] # pendingSequence
               /\ \A i \in 1..Len(wire') - 1 : wire'[i].sequence # pendingSequence
    <3>1. ~ delivered /\ Len(wire) # 1
      BY <2>1, <2>3
    <3>2. /\ \A i \in 1..Len(acks) : acks[i] # pendingSequence
          /\ \A i \in 1..Len(wire) - 1 : wire[i].sequence # pendingSequence
      BY <3>1 DEF AckInv
    <3>3. wire[1].sequence # pendingSequence
      BY <2>2, <3>1, <3>2
    <3>4. /\ Len(acks) \in Nat /\ Len(acks') = Len(acks) + 1
          /\ \A i \in 1..Len(acks) : acks'[i] = acks[i]
          /\ acks'[Len(acks) + 1] = Head(wire).sequence
      <4>1. Head(wire) \in Frame
        BY <2>1, HeadTailProperties
      <4>2. Head(wire).sequence \in Sequences
        BY <4>1 DEF Frame
      <4> QED  BY <1>0, <2>1, <4>2, AppendItems DEF SessionOK
    <3>5. \A i \in 1..Len(acks') : acks'[i] # pendingSequence
      BY <2>2, <3>2, <3>3, <3>4
    <3>6. ASSUME NEW i \in 1..Len(wire') - 1
          PROVE  wire'[i].sequence # pendingSequence
      <4>1. i \in 1..Len(wire) - 1 /\ i + 1 \in 1..Len(wire) - 1
        BY <2>2
      <4> QED  BY <2>2, <3>2, <4>1
    <3> QED  BY <3>5, <3>6
  <2> QED  BY <1>0, <2>1, <2>3 DEF AckInv
<1>7. ASSUME acks # << >>, acks' = Tail(acks), wire' = wire,
             UNCHANGED <<pendingSequence, delivered>>
      PROVE  ~ delivered => /\ acks[1] # pendingSequence
                            /\ \A i \in 1..Len(acks') : acks'[i] # pendingSequence
  <2>1. /\ Len(acks) \in Nat \ {0} /\ Len(acks') = Len(acks) - 1
        /\ \A i \in 1..Len(acks) - 1 : acks'[i] = acks[i + 1]
    BY <1>0, <1>7, TailItems DEF SessionOK
  <2>2. SUFFICES ASSUME ~ delivered
                 PROVE  /\ acks[1] # pendingSequence
                        /\ \A i \in 1..Len(acks') : acks'[i] # pendingSequence
    OBVIOUS
  <2>3. \A i \in 1..Len(acks) : acks[i] # pendingSequence
    BY <2>2 DEF AckInv
  <2>4. ASSUME NEW i \in 1..Len(acks') PROVE acks'[i] # pendingSequence
    <3>1. i \in 1..Len(acks) - 1 /\ i + 1 \in 1..Len(acks)
      BY <2>1
    <3> QED  BY <2>1, <2>3, <3>1
  <2> QED  BY <2>1, <2>3, <2>4
<1>8. CASE HearAck
  <2>1. /\ acks # << >> /\ acks' = Tail(acks) /\ wire' = wire
        /\ UNCHANGED <<pendingSequence, delivered>>
        /\ pending' = (pending /\ ~ Acknowledges(Head(acks)))
    BY <1>8 DEF HearAck, TakeAck, peerVars
  <2>2. Head(acks) = acks[1]
    BY <1>0, <2>1, TailItems DEF SessionOK
  <2>3. ~ delivered => pending'
    BY <1>0, <1>7, <2>1, <2>2 DEF AckInv, Acknowledges, SessionOK
  <2> QED  BY <1>7, <2>1, <2>3 DEF AckInv
<1>9. CASE Lose
  <2>1. CASE LoseFrame
    <3>1. /\ wire # << >> /\ wire' = Tail(wire)
          /\ UNCHANGED <<pending, pendingSequence, acks, delivered>>
      BY <1>9, <2>1 DEF Lose, LoseFrame, sessionVars, peerVars
    <3>2. /\ Len(wire) \in Nat \ {0} /\ Len(wire') = Len(wire) - 1
          /\ \A i \in 1..Len(wire) - 1 : wire'[i] = wire[i + 1]
      BY <1>0, <3>1, TailItems DEF SessionOK
    <3>3. ASSUME ~ delivered, NEW i \in 1..Len(wire') - 1
          PROVE  wire'[i].sequence # pendingSequence
      <4>1. i \in 1..Len(wire) - 1 /\ i + 1 \in 1..Len(wire) - 1
        BY <3>2
      <4> QED  BY <3>2, <3>3, <4>1 DEF AckInv
    <3> QED  BY <3>1, <3>3 DEF AckInv
  <2>2. CASE LoseAck
    <3>1. /\ acks # << >> /\ acks' = Tail(acks) /\ wire' = wire
          /\ UNCHANGED <<pending, pendingSequence, delivered>>
      BY <1>9, <2>2 DEF Lose, LoseAck, sessionVars, peerVars
    <3> QED  BY <1>7, <3>1 DEF AckInv
  <2> QED  BY <1>9, <2>1, <2>2 DEF Lose
<1>10. CASE UNCHANGED vars
  BY <1>1, <1>10 DEF vars, sessionVars, peerVars
<1> QED
  BY <1>2, <1>3, <1>4, <1>5, <1>6, <1>8, <1>9, <1>10 DEF Next, Owner

\* An acknowledgement never settles a frame the peer has not received.
THEOREM AcknowledgedCorrect == Spec => []AcknowledgedWasReceived
<1>1. Init => AckInv
  BY DEF Init, SessionInit, AckInv
<1>2. AckInv => AcknowledgedWasReceived
  BY DEF AckInv, AcknowledgedWasReceived
<1> QED  BY <1>1, <1>2, AckStep, TypeKept, PTL DEF Spec

-----------------------------------------------------------------------------
(* What the peer knows.                                                    *)

\* Once all that is on the wire has arrived, the last the peer heard of the
\* alarm is at least this severe: so is the last frame about it, or with none
\* on the wire what the peer heard before.
Told(alarm, severity) ==
    \/ \E k \in 1..Len(wire) :
         /\ wire[k].about.alarm = alarm
         /\ severity <= wire[k].about.severity
         /\ \A m \in k + 1..Len(wire) : wire[m].about.alarm # alarm
    \/ /\ severity <= peer[alarm]
       /\ \A k \in 1..Len(wire) : wire[k].about.alarm # alarm

\* The peer is, or will be, told of every active alarm, unless a frame was
\* refused or lost.
PeerInv ==
    faults = 0 =>
        \A i \in Slots :
            active[i].alarm # NoAlarm =>
                Told(active[i].alarm, active[i].severity)

\* What is known of a severity is known of a lesser one.
LEMMA ToldMilder ==
    ASSUME TypeInv, NEW alarm \in Alarms,
           NEW severity \in EventSeverity, NEW milder \in EventSeverity,
           milder <= severity, Told(alarm, severity)
    PROVE  Told(alarm, milder)
<1>1. CASE \E k \in 1..Len(wire) :
             /\ wire[k].about.alarm = alarm
             /\ severity <= wire[k].about.severity
             /\ \A m \in k + 1..Len(wire) : wire[m].about.alarm # alarm
  <2>1. PICK k \in 1..Len(wire) :
             /\ wire[k].about.alarm = alarm
             /\ severity <= wire[k].about.severity
             /\ \A m \in k + 1..Len(wire) : wire[m].about.alarm # alarm
    BY <1>1
  <2>2. wire[k] \in Frame
    BY ElementOfSeq DEF TypeInv, SessionOK
  <2>3. milder <= wire[k].about.severity
    BY <2>1, <2>2 DEF Frame, About, EventSeverity
  <2> QED  BY <2>1, <2>3 DEF Told
<1>2. CASE /\ severity <= peer[alarm]
           /\ \A k \in 1..Len(wire) : wire[k].about.alarm # alarm
  <2>1. milder <= peer[alarm]
    BY <1>2 DEF TypeInv, EventSeverity
  <2> QED  BY <1>2, <2>1 DEF Told
<1> QED  BY <1>1, <1>2 DEF Told

\* A new frame tells of its own alarm and takes back nothing about the others.
LEMMA ToldAppend ==
    ASSUME wire \in Seq(Frame), NEW frame \in Frame,
           wire' = Append(wire, frame), peer' = peer,
           NEW alarm \in Alarms, NEW severity \in EventSeverity,
           \/ frame.about.alarm = alarm /\ severity <= frame.about.severity
           \/ frame.about.alarm # alarm /\ Told(alarm, severity)
    PROVE  Told(alarm, severity)'
<1>1. PICK n \in Nat : n = Len(wire)
  BY LenProperties
<1>2. /\ Len(wire') = n + 1
      /\ \A i \in 1..n : wire'[i] = wire[i]
      /\ wire'[n + 1] = frame
  BY <1>1, AppendItems
<1>3. CASE frame.about.alarm = alarm /\ severity <= frame.about.severity
  <2>1. /\ n + 1 \in 1..Len(wire')
        /\ \A m \in n + 1 + 1..Len(wire') : wire'[m].about.alarm # alarm
    BY <1>2
  <2> QED  BY <1>2, <1>3, <2>1 DEF Told
<1>4. CASE frame.about.alarm # alarm /\ Told(alarm, severity)
  <2>1. CASE \E k \in 1..n :
               /\ wire[k].about.alarm = alarm
               /\ severity <= wire[k].about.severity
               /\ \A m \in k + 1..n : wire[m].about.alarm # alarm
    <3>1. PICK k \in 1..n :
               /\ wire[k].about.alarm = alarm
               /\ severity <= wire[k].about.severity
               /\ \A m \in k + 1..n : wire[m].about.alarm # alarm
      BY <2>1
    <3>2. k \in 1..Len(wire') /\ wire'[k] = wire[k]
      BY <1>2
    <3>3. ASSUME NEW m \in k + 1..Len(wire') PROVE wire'[m].about.alarm # alarm
      <4>1. CASE m = n + 1
        BY <1>2, <1>4, <4>1
      <4>2. CASE m # n + 1
        <5>1. m \in k + 1..n /\ m \in 1..n
          BY <1>2, <4>2
        <5> QED  BY <1>2, <3>1, <5>1
      <4> QED  BY <4>1, <4>2
    <3> QED  BY <3>1, <3>2, <3>3 DEF Told
  <2>2. CASE /\ severity <= peer[alarm]
             /\ \A k \in 1..n : wire[k].about.alarm # alarm
    <3>1. ASSUME NEW k \in 1..Len(wire') PROVE wire'[k].about.alarm # alarm
      <4>1. CASE k = n + 1
        BY <1>2, <1>4, <4>1
      <4>2. CASE k # n + 1
        <5>1. k \in 1..n
          BY <1>2, <4>2
        <5> QED  BY <1>2, <2>2, <5>1
      <4> QED  BY <4>1, <4>2
    <3> QED  BY <2>2, <3>1 DEF Told
  <2> QED  BY <1>1, <1>4, <2>1, <2>2 DEF Told
<1> QED  BY <1>3, <1>4

\* A frame that arrives moves what is known from the wire to the peer.
LEMMA ToldDeliver ==
    ASSUME TypeInv, Deliver, NEW alarm \in Alarms, NEW severity \in EventSeverity,
           Told(alarm, severity)
    PROVE  Told(alarm, severity)'
<1>1. /\ wire # << >> /\ wire \in Seq(Frame) /\ wire' = Tail(wire)
      /\ peer \in [Alarms -> -1..2] /\ NoAlarm \notin Alarms
  BY EventManagerAssumption DEF Deliver, PeerReceive, TypeInv, SessionOK
<1>2. PICK n \in Nat : n + 1 = Len(wire)
  <2>1. Len(wire) \in Nat \ {0} /\ Len(wire) - 1 \in Nat
    BY <1>1, TailItems
  <2> QED  BY <2>1
<1>3. /\ Len(wire') = n /\ Head(wire) = wire[1]
      /\ \A i \in 1..n : wire'[i] = wire[i + 1]
  BY <1>1, <1>2, TailItems
<1>4. PICK about \in About : about = wire[1].about
  <2>1. Head(wire) \in Frame
    BY <1>1, HeadTailProperties
  <2> QED  BY <1>3, <2>1 DEF Frame
<1>5. peer' = IF about.alarm = NoAlarm THEN peer
              ELSE [peer EXCEPT ![about.alarm] = about.severity]
  BY <1>3, <1>4 DEF Deliver
<1>6. CASE \E k \in 1..n + 1 :
             /\ wire[k].about.alarm = alarm
             /\ severity <= wire[k].about.severity
             /\ \A m \in k + 1..n + 1 : wire[m].about.alarm # alarm
  <2>1. PICK k \in 1..n + 1 :
             /\ wire[k].about.alarm = alarm
             /\ severity <= wire[k].about.severity
             /\ \A m \in k + 1..n + 1 : wire[m].about.alarm # alarm
    BY <1>6
  <2>2. CASE k = 1
    <3>1. about.alarm = alarm /\ severity <= about.severity
      BY <1>4, <2>1, <2>2
    <3>2. severity <= peer'[alarm]
      BY <1>1, <1>5, <3>1
    <3>3. ASSUME NEW j \in 1..n PROVE wire'[j].about.alarm # alarm
      <4>1. j + 1 \in k + 1..n + 1
        BY <2>2
      <4> QED  BY <1>3, <2>1, <4>1
    <3> QED  BY <1>3, <3>2, <3>3 DEF Told
  <2>3. CASE k # 1
    <3>1. PICK l \in 1..n : l + 1 = k
      <4>1. k - 1 \in 1..n /\ (k - 1) + 1 = k
        BY <2>3
      <4> QED  BY <4>1
    <3>2. wire'[l] = wire[k]
      BY <1>3, <3>1
    <3>3. ASSUME NEW m \in l + 1..n PROVE wire'[m].about.alarm # alarm
      <4>1. m \in 1..n /\ m + 1 \in k + 1..n + 1
        BY <3>1
      <4> QED  BY <1>3, <2>1, <4>1
    <3> QED  BY <1>3, <2>1, <3>2, <3>3 DEF Told
  <2> QED  BY <2>2, <2>3
<1>7. CASE /\ severity <= peer[alarm]
           /\ \A k \in 1..n + 1 : wire[k].about.alarm # alarm
  <2>1. about.alarm # alarm
    BY <1>4, <1>7
  <2>2. peer'[alarm] = peer[alarm]
    BY <1>1, <1>4, <1>5, <2>1 DEF About
  <2>3. ASSUME NEW k \in 1..n PROVE wire'[k].about.alarm # alarm
    <3>1. k + 1 \in 1..n + 1
      OBVIOUS
    <3> QED  BY <1>3, <1>7, <3>1
  <2> QED  BY <1>3, <1>7, <2>2, <2>3 DEF Told
<1> QED  BY <1>2, <1>6, <1>7 DEF Told

\* With nothing refused, a frame that is published is on the wire.
LEMMA PublishTells ==
    ASSUME TypeInv, NEW given \in Sequences, NEW about \in About,
           Publish(given, about), faults' = 0
    PROVE  /\ faults = 0 /\ peer' = peer
           /\ \E frame \in Frame :
                frame.about = about /\ wire' = Append(wire, frame)
<1>1. faults \in Nat /\ SessionOK
  BY EventReportingAssumption DEF TypeInv
<1>2. PublishSent(given, about) /\ faults = 0 /\ peer' = peer
  BY <1>1 DEF Publish
<1>3. PICK frame : frame = [sequence |-> NumberFor(given), about |-> about]
  OBVIOUS
<1>4. frame \in Frame /\ frame.about = about
  BY <1>1, <1>3, SequenceType DEF SessionOK, Frame
<1>5. wire' = Append(wire, frame)
  BY <1>2, <1>3 DEF PublishSent
<1> QED  BY <1>2, <1>4, <1>5

LEMMA ReportKeepsPeer ==
    ASSUME TypeInv, TableInv, PeerInv,
           NEW alarm \in Alarms, NEW severity \in Severities,
           Report(alarm, severity)
    PROVE  PeerInv'
<1>0. /\ TableOK /\ wire \in Seq(Frame) /\ now \in 0..MaxTime
      /\ severity \in EventSeverity /\ alarm # NoAlarm
      /\ \A j \in Slots : active[j] \in Slot
  BY EventReportingAssumption, EventManagerAssumption
  DEF TypeInv, TableOK, SessionOK
<1>1. ASSUME faults' = 0, transition'.action # "None",
             NEW i \in Slots, NEW slot \in Slot, Becomes(i, slot),
             slot.alarm = alarm, slot.severity = severity,
             \A j \in Slots \ {i} : active[j].alarm # alarm
      PROVE  PeerInv'
  <2>1. PICK about : about = [alarm |-> alarm, severity |-> severity]
    OBVIOUS
  <2>2. /\ about \in About /\ 0 \in Sequences
        /\ about.alarm = alarm /\ about.severity = severity
    BY <1>0, <2>1, C6SessionAssumption DEF About, Sequences
  <2>3. Publish(0, about)
    BY <1>1, <2>1 DEF Report
  <2>4. /\ faults = 0 /\ peer' = peer
        /\ \E frame \in Frame :
             frame.about = about /\ wire' = Append(wire, frame)
    BY <1>1, <2>2, <2>3, PublishTells
  <2>5. PICK frame \in Frame : frame.about = about /\ wire' = Append(wire, frame)
    BY <2>4
  <2>6. Told(alarm, severity)'
    BY <1>0, <2>2, <2>4, <2>5, ToldAppend DEF EventSeverity
  <2>7. ASSUME NEW j \in Slots \ {i}, active[j].alarm # NoAlarm
        PROVE  Told(active[j].alarm, active[j].severity)'
    <3>1. PICK b, s : b = active[j].alarm /\ s = active[j].severity
      OBVIOUS
    <3>2. b \in Alarms /\ s \in EventSeverity /\ b # alarm
      BY <1>0, <1>1, <2>7, <3>1 DEF Slot
    <3>3. Told(b, s)
      BY <2>4, <2>7, <3>1 DEF PeerInv
    <3>4. Told(b, s)'
      BY <1>0, <2>2, <2>4, <2>5, <3>2, <3>3, ToldAppend
    <3>5. active'[j] = active[j]
      BY <1>1 DEF Becomes
    <3> QED  BY <3>1, <3>4, <3>5 DEF Told
  <2>8. /\ active'[i] = slot
        /\ \A j \in Slots \ {i} : active'[j] = active[j]
    BY <1>1 DEF Becomes
  <2>9. Told(active[i].alarm, active[i].severity)'
    BY <1>1, <2>6, <2>8 DEF Told
  <2> QED  BY <2>7, <2>8, <2>9 DEF PeerInv
<1>2. ASSUME NEW i \in Slots, Activates(i, alarm, severity, now) PROVE PeerInv'
  <2>1. PICK slot : slot = Activated(active[i], alarm, severity, now)
    OBVIOUS
  <2>2. slot \in Slot /\ slot.alarm = alarm /\ slot.severity = severity
    BY <1>0, <2>1 DEF Activated, Slot
  <2>3. /\ Becomes(i, slot) /\ transition'.action # "None"
        /\ \A j \in Slots \ {i} : active[j].alarm # alarm
    BY <1>2, <2>1 DEF Activates
  <2> QED  BY <1>1, <2>2, <2>3 DEF PeerInv
<1>3. ASSUME NEW i \in Slots, Worsens(i, alarm, severity, now) PROVE PeerInv'
  <2>1. PICK slot : slot = [active[i] EXCEPT !.severity = severity,
                                             !.lastEmitted = now]
    OBVIOUS
  <2>2. /\ slot \in Slot /\ slot.alarm = alarm /\ slot.severity = severity
        /\ active[i].alarm = alarm
    BY <1>0, <1>3, <2>1 DEF Worsens, Slot
  <2>3. Becomes(i, slot) /\ transition'.action # "None"
    BY <1>3, <2>1 DEF Worsens
  <2>4. \A j \in Slots \ {i} : active[j].alarm # alarm
    BY <1>0, <2>2, OnlySlot DEF TableInv
  <2> QED  BY <1>1, <2>2, <2>3, <2>4 DEF PeerInv
<1>4. ASSUME transition' = NoTransition
      PROVE  UNCHANGED <<wire, peer, faults>>
  BY <1>4 DEF Report, NoTransition, linkVars, peerVars
<1>5. ASSUME NEW i \in Slots, Eases(i, alarm, severity) PROVE PeerInv'
  <2> SUFFICES ASSUME faults' = 0, NEW j \in Slots, active'[j].alarm # NoAlarm
               PROVE  Told(active[j].alarm, active[j].severity)'
    BY DEF PeerInv
  <2>1. PICK slot : slot = [active[i] EXCEPT !.severity = severity]
    OBVIOUS
  <2>2. /\ slot.alarm = alarm /\ slot.severity = severity
        /\ active[i].alarm = alarm /\ severity <= active[i].severity
        /\ active[i].severity \in EventSeverity
    BY <1>0, <1>5, <2>1 DEF Eases, Slot
  <2>3. /\ active'[i] = slot
        /\ \A k \in Slots \ {i} : active'[k] = active[k]
    BY <1>5, <2>1 DEF Eases, Becomes
  <2>4. UNCHANGED <<wire, peer, faults>>
    BY <1>4, <1>5 DEF Eases
  <2>5. CASE j = i
    <3>1. Told(alarm, active[i].severity)
      BY <1>0, <2>2, <2>4 DEF PeerInv
    <3>2. Told(alarm, severity)
      BY <1>0, <2>2, <3>1, ToldMilder
    <3> QED  BY <2>2, <2>3, <2>4, <2>5, <3>2 DEF Told
  <2>6. CASE j # i
    <3>1. active'[j] = active[j] /\ Told(active[j].alarm, active[j].severity)
      BY <2>3, <2>4, <2>6 DEF PeerInv
    <3> QED  BY <2>4, <3>1 DEF Told
  <2> QED  BY <2>5, <2>6
<1>6. CASE UNCHANGED active /\ transition' = NoTransition
  BY <1>4, <1>6 DEF PeerInv, Told
<1>7. Raise(alarm, severity, now)
  BY DEF Report
<1> QED  BY <1>0, <1>2, <1>3, <1>5, <1>6, <1>7, RaiseEffect

LEMMA PeerStep == TypeInv /\ TableInv /\ PeerInv /\ [Next]_vars => PeerInv'
<1> SUFFICES ASSUME TypeInv, TableInv, PeerInv, [Next]_vars PROVE PeerInv'
  OBVIOUS
<1>0. /\ TableOK /\ wire \in Seq(Frame) /\ NoAlarm \notin Alarms
      /\ faults \in Nat
      /\ \A j \in Slots : active[j] \in Slot
  BY EventReportingAssumption, EventManagerAssumption
  DEF TypeInv, TableOK, SessionOK
<1>1. ASSUME UNCHANGED <<wire, peer, faults>>,
             \A j \in Slots : active'[j].alarm # NoAlarm =>
                /\ active'[j].alarm = active[j].alarm
                /\ active'[j].severity = active[j].severity
      PROVE  PeerInv'
  BY <1>1 DEF PeerInv, Told
<1>2. ASSUME NEW i \in Slots, NEW slot \in Slot, Becomes(i, slot),
             UNCHANGED <<wire, peer, faults>>,
             slot.alarm # NoAlarm => /\ slot.alarm = active[i].alarm
                                    /\ slot.severity = active[i].severity
      PROVE  PeerInv'
  BY <1>1, <1>2 DEF Becomes
<1>3. ASSUME NEW alarm \in Alarms, NEW severity \in Severities,
             Report(alarm, severity)
      PROVE  PeerInv'
  BY <1>3, ReportKeepsPeer
<1>4. ASSUME NEW alarm \in Alarms, ClearAlarm(alarm) PROVE PeerInv'
  <2>1. Clear(alarm) /\ UNCHANGED <<wire, peer, faults>>
    BY <1>4 DEF ClearAlarm, linkVars, peerVars
  <2>2. PICK i \in Slots : Becomes(i, [active[i] EXCEPT !.alarm = NoAlarm])
    BY <1>0, <2>1, ClearEffect
  <2>3. PICK slot : slot = [active[i] EXCEPT !.alarm = NoAlarm]
    OBVIOUS
  <2>4. slot \in Slot /\ slot.alarm = NoAlarm
    BY <1>0, <2>3 DEF Slot
  <2> QED  BY <1>2, <2>1, <2>2, <2>3, <2>4
<1>5. ASSUME NEW alarm \in Alarms, AcknowledgeAlarm(alarm) PROVE PeerInv'
  <2>1. Acknowledge(alarm) /\ UNCHANGED <<wire, peer, faults>>
    BY <1>5 DEF AcknowledgeAlarm, linkVars, peerVars
  <2>2. PICK i \in Slots : Becomes(i, [active[i] EXCEPT !.acknowledged = TRUE])
    BY <1>0, <2>1, AcknowledgeEffect
  <2>3. PICK slot : slot = [active[i] EXCEPT !.acknowledged = TRUE]
    OBVIOUS
  <2>4. /\ slot \in Slot /\ slot.alarm = active[i].alarm
        /\ slot.severity = active[i].severity
    BY <1>0, <2>3 DEF Slot
  <2> QED  BY <1>2, <2>1, <2>2, <2>3, <2>4
<1>6. CASE RemindAlarms
  <2>1. /\ Remind(now, Interval) /\ now \in 0..MaxTime
        /\ UNCHANGED <<wire, peer, faults>>
    BY <1>6 DEF RemindAlarms, linkVars, peerVars, TypeInv
  <2>2. PICK i \in Slots : Becomes(i, Reminded(active[i], now))
    BY <1>0, <2>1, RemindEffect
  <2>3. PICK slot : slot = Reminded(active[i], now)
    OBVIOUS
  <2>4. /\ slot \in Slot /\ slot.alarm = active[i].alarm
        /\ slot.severity = active[i].severity
    BY <1>0, <2>1, <2>3 DEF Slot, Reminded
  <2> QED  BY <1>2, <2>1, <2>2, <2>3, <2>4
<1>7. CASE RequestStatus \/ Tick \/ HearAck
  BY <1>1, <1>7 DEF RequestStatus, MakeStatusRequest, Tick, HearAck, TakeAck,
                    eventVars, linkVars, peerVars
<1>8. CASE PublishRequest
  <2> SUFFICES ASSUME faults' = 0, NEW j \in Slots, active'[j].alarm # NoAlarm
               PROVE  Told(active[j].alarm, active[j].severity)'
    BY DEF PeerInv
  <2>1. PICK about : about = [alarm |-> NoAlarm, severity |-> 0]
    OBVIOUS
  <2>2. about \in About /\ about.alarm = NoAlarm
    BY <2>1 DEF About, EventSeverity
  <2>3. PICK given \in Sequences : Publish(given, about)
    BY <1>8, <2>1 DEF PublishRequest, TypeInv
  <2>4. /\ faults = 0 /\ peer' = peer
        /\ \E frame \in Frame :
             frame.about = about /\ wire' = Append(wire, frame)
    BY <2>2, <2>3, PublishTells
  <2>5. PICK frame \in Frame : frame.about = about /\ wire' = Append(wire, frame)
    BY <2>4
  <2>6. active' = active
    BY <1>8 DEF PublishRequest, eventVars
  <2>7. PICK b, s : b = active[j].alarm /\ s = active[j].severity
    OBVIOUS
  <2>8. b \in Alarms /\ s \in EventSeverity /\ Told(b, s)
    BY <1>0, <2>4, <2>6, <2>7 DEF PeerInv, Slot
  <2>9. Told(b, s)'
    BY <1>0, <2>2, <2>4, <2>5, <2>8, ToldAppend
  <2> QED  BY <2>6, <2>7, <2>9 DEF Told
<1>9. CASE Deliver
  <2> SUFFICES ASSUME faults' = 0, NEW j \in Slots, active'[j].alarm # NoAlarm
               PROVE  Told(active[j].alarm, active[j].severity)'
    BY DEF PeerInv
  <2>1. active' = active /\ faults = 0
    BY <1>9 DEF Deliver, eventVars
  <2>2. PICK b, s : b = active[j].alarm /\ s = active[j].severity
    OBVIOUS
  <2>3. b \in Alarms /\ s \in EventSeverity /\ Told(b, s)
    BY <1>0, <2>1, <2>2 DEF PeerInv, Slot
  <2>4. Told(b, s)'
    BY <1>9, <2>3, ToldDeliver
  <2> QED  BY <2>1, <2>2, <2>4 DEF Told
<1>10. CASE Lose
  BY <1>0, <1>10 DEF Lose, PeerInv
<1>11. CASE UNCHANGED vars
  BY <1>1, <1>11 DEF vars, eventVars, linkVars, peerVars
<1> QED
  BY <1>3, <1>4, <1>5, <1>6, <1>7, <1>8, <1>9, <1>10, <1>11 DEF Next, Owner

\* With nothing refused or lost and nothing on its way, the peer knows every
\* active alarm as no milder than it is.
THEOREM PeerCorrect == Spec => []PeerInformed
<1>1. Init => PeerInv
  BY DEF Init, EventInit, PeerInv
<1>2. PeerInv => PeerInformed
  <2> SUFFICES ASSUME PeerInv, faults = 0, wire = << >>, NEW i \in Slots,
                      active[i].alarm # NoAlarm
               PROVE  active[i].severity <= peer[active[i].alarm]
    BY DEF PeerInformed
  <2>1. Told(active[i].alarm, active[i].severity)
    BY DEF PeerInv
  <2>2. Len(wire) = 0
    BY EmptySeq
  <2> QED  BY <2>1, <2>2 DEF Told
<1> QED  BY <1>1, <1>2, PeerStep, TypeKept, TableKept, PTL DEF Spec
===============================================================================
