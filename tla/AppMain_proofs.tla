----------------------------- MODULE AppMain_proofs -----------------------------
(***************************************************************************)
(* Theorems about the program, for any configurations, deductions of the   *)
(* health score, number of addresses and size of the alarm table, whenever *)
(* the demo task starts and however long it runs.                          *)
(***************************************************************************)
EXTENDS AppMain, FiniteSetTheorems, SequenceTheorems, WellFoundedInduction, TLAPS

-----------------------------------------------------------------------------
(* The invariant.                                                          *)

\* The record of a light that missed m scans in a row.
Missed(m) == IF m = 3 THEN [lifecycle |-> "Missing", present |-> FALSE, missed |-> 3]
             ELSE [lifecycle |-> "Present", present |-> TRUE, missed |-> m]

DemoChanges ==
         {[type |-> "DeviceDiscovered", address |-> l] : l \in Lights}
    \cup {[type |-> t, address |-> 3] : t \in {"DeviceMissing", "DeviceRecovered"}}

\* A step is somewhere in its scan or among the lights; only the fourth light is ever
\* missed, and only what the script can bring about is reported.
StepOK ==
    /\ demo \in {"asleep", "scan", "report", "lights"} /\ nowMs \in Nat
    /\ demo = "scan" => index \in 0 .. AddressCount
    /\ demo = "lights" => index \in Lights
    /\ records \in [0 .. AddressCount - 1 -> {Manager!NoRecord} \cup {Missed(m) : m \in 0 .. 3}]
    /\ \A a \in 0 .. AddressCount - 1 :
         /\ a > 3 => records[a] = Manager!NoRecord
         /\ a < 3 => records[a] \in {Manager!NoRecord, Manager!Seen}
    /\ batch \in Seq(DemoChanges)

\* The severity the script gives an alarm.
SeverityOf(alarm) ==
    CASE alarm[2] \in {"LampFailure", "DeviceMissing"}        -> Critical
      [] alarm[2] \in {"ThermalWarning", "IntermittentFault"} -> Warning
      [] OTHER                                                -> Info

Slot == [alarm : DemoAlarms \cup {NoAlarm}, severity : EventSeverity,
         acknowledged : BOOLEAN, lastEmitted : Nat]

Used == {i \in Slots : active[i].alarm # NoAlarm}
ActiveAlarms == {active[i].alarm : i \in Slots} \ {NoAlarm}

\* An alarm of the script has one slot, and there its severity, so that it never
\* escalates.
TableOK ==
    /\ active \in [Slots -> Slot]
    /\ \A i, j \in Used : active[i].alarm = active[j].alarm => i = j
    /\ \A i \in Used : active[i].severity = SeverityOf(active[i].alarm)

\* There are as many frames as slots used, and as alarms in them, each with the number
\* of its place.
WireOK ==
    /\ wire \in Seq([sequence : Nat, about : [alarm : DemoAlarms, severity : EventSeverity]])
    /\ {wire[i].about.alarm : i \in 1 .. Len(wire)} = ActiveAlarms
    /\ Cardinality(Used) = Len(wire)
    /\ Cardinality(ActiveAlarms) = Len(wire)
    /\ \A i \in 1 .. Len(wire) : wire[i].sequence = i
    /\ nextSequence = (Len(wire) + 1) % SequenceModulus

FaultAlarms(l) == {<<l, t>> : t \in {"LampFailure", "ThermalWarning", "IntermittentFault"}}

\* Health is lost by an observation that is reported.
ScoresOK ==
    /\ scores \in [Lights -> 0 .. 100]
    /\ \A l \in Lights : scores[l] < 100 => FaultAlarms(l) \cap ActiveAlarms # {}

AlarmInv == StepOK /\ TableOK /\ WireOK /\ ScoresOK

Discovery(l) == [type |-> "DeviceDiscovered", address |-> l]
Waiting(l) == \E i \in 1 .. Len(batch) : batch[i] = Discovery(l)
Told == {l \in Lights : <<l, "DeviceDiscovered">> \in ActiveAlarms}

\* A light with a record was discovered once: its discovery waits in the batch of the
\* scan, where each address is only once, or is in the table and counted.
DiscoveryOK ==
    /\ demo \in {"asleep", "lights"} => batch = << >>
    /\ demo = "scan" => /\ Len(batch) <= index
                        /\ \A i \in 1 .. Len(batch) : batch[i].address < index
    /\ \A i, j \in 1 .. Len(batch) : batch[i].address = batch[j].address => i = j
    /\ \A l \in Lights : Waiting(l) => l \notin Told
    /\ \A l \in Lights : records[l] # Manager!NoRecord <=> l \in Told \/ Waiting(l)
    /\ discoveredLights = Cardinality(Told)

\* The scan of this step has come past the fourth light, or no scan has.
LastAsked == ~(demo = "scan" /\ index <= 3)

\* After the fourth light missed m scans, its silence has lasted for all but the first
\* of them; and if it is still silent in the next scan, for all of them.
SilentSince ==
    \A m \in 1 .. 3 : records[3] = Missed(m) => OddWindow /\ nowMs % 2000 >= 999 * (m - 1)
SilentUntil ==
    \A m \in 1 .. 3 : records[3] = Missed(m) /\ OddWindow =>
                        m < 3 /\ nowMs % 2000 >= 999 * m

\* A scan finds every light that is not silent.
Found(l) == records[l] = Manager!Seen \/ (l = 3 /\ OddWindow)

ScanInv ==
    /\ boot # "looping" => /\ demo = "asleep"
                           /\ \A l \in Lights : records[l] = Manager!NoRecord
    /\ IF LastAsked THEN SilentSince ELSE SilentUntil
    /\ demo = "scan" => \A l \in Lights : l < index => Found(l)
    /\ demo \in {"report", "lights"} => \A l \in Lights : Found(l)

-----------------------------------------------------------------------------
(* The steps of the program.                                               *)

\* What concerns the demonstration: it stays as it is while app_main boots, its step
\* begins, for the first time or after the delay, or its step goes on.
LEMMA ProgramSteps ==
    ASSUME [Next]_vars
    PROVE  \/ UNCHANGED demoVars /\ (boot = "looping" <=> boot' = "looping")
           \/ \E t \in BootTimes : Step(t) /\ boot = "running" /\ boot' = "looping"
           \/ \E period \in Periods :
                Step(nowMs + period) /\ boot = "looping" /\ boot' = "looping"
           \/ StepGoesOn /\ boot' = boot
<1>1. CASE Boot
  BY <1>1 DEF Boot, CheckConfig, InitialiseFoundation, ScriptResponse, SubmitSelfCheck,
              ProcessSelfCheck, FinishBoot, Continue, bootVars
<1>2. CASE DemoTask
  BY <1>2 DEF DemoTask, FirstStep, NextStep, bootVars
<1>3. CASE UNCHANGED vars
  BY <1>3 DEF vars, bootVars
<1> QED  BY <1>1, <1>2, <1>3 DEF Next

\* The counts of missed scans are told apart by the records.
LEMMA MissedApart ==
    /\ Manager!Seen = Missed(0) /\ Manager!Seen # Manager!NoRecord
    /\ \A m \in 1 .. 3 : Missed(m) # Manager!Seen /\ Missed(m) # Manager!NoRecord
    /\ \A m \in 0 .. 3, n \in 0 .. 3 : Missed(m) = Missed(n) => m = n
<1>1. \A m \in 0 .. 3 : Missed(m).missed = m
  BY DEF Missed
<1>2. Manager!Seen = Missed(0)
  BY DEF Manager!Seen, Missed
<1>3. \A m \in 1 .. 3 : Missed(m) # Manager!NoRecord
  BY DEF Manager!NoRecord, Missed
<1>4. Manager!Seen # Manager!NoRecord
  BY DEF Manager!Seen, Manager!NoRecord
<1> QED  BY <1>1, <1>2, <1>3, <1>4

\* The presence query of an address: the four lights answer, but for the fourth in an
\* odd window.
LEMMA ScanEffect ==
    ASSUME StepOK, Scan
    PROVE  /\ index \in 0 .. AddressCount - 1 /\ index' = index + 1 /\ demo' = "scan"
           /\ nowMs' = nowMs
           /\ records' = [records EXCEPT ![index] = records'[index]]
           /\ index < 3 \/ (index = 3 /\ ~OddWindow) => records'[index] = Manager!Seen
           /\ index > 3 => records'[index] = Manager!NoRecord
           /\ index = 3 /\ OddWindow =>
                \/ records[3] = Manager!NoRecord /\ records'[3] = Manager!NoRecord
                \/ \E m \in 0 .. 2 : records[3] = Missed(m) /\ records'[3] = Missed(m + 1)
                \/ records[3] = Missed(3) /\ records'[3] = Missed(3)
           /\ batch' = batch \/ \E c \in DemoChanges : batch' = Append(batch, c)
<1>1. /\ index \in 0 .. AddressCount - 1 /\ index' = index + 1 /\ demo' = "scan"
      /\ nowMs' = nowMs
  BY DemoAssumption DEF Scan, StepOK
<1>2. /\ records' = [records EXCEPT
                       ![index] = Manager!AfterPresence(@, PresenceOutcome(index))]
      /\ records'[index] = Manager!AfterPresence(records[index], PresenceOutcome(index))
  BY <1>1 DEF Scan, StepOK
<1>3. index \in Int /\ AddressCount \in Nat
  BY <1>1, DemoAssumption
<1>4. PICK change : /\ change = Manager!ChangeOf(records[index], FALSE, PresenceOutcome(index))
                    /\ batch' = Manager!Added(batch, change, index)
  BY DEF Scan
<1>5. \/ batch' = batch
      \/ change # "none" /\ batch' = Append(batch, [type |-> change, address |-> index])
  BY <1>4 DEF Manager!Added
<1>6. ASSUME index < 3 \/ (index = 3 /\ ~OddWindow)
      PROVE  /\ records'[index] = Manager!Seen
             /\ change # "none" => [type |-> change, address |-> index] \in DemoChanges
  <2>1. PresenceOutcome(index) = "Ok"
    BY <1>3, <1>6 DEF PresenceOutcome
  <2>2. records'[index] = Manager!Seen
    BY <1>2, <2>1 DEF Manager!AfterPresence, Manager!IsValidResponse
  <2>3. change \in {"none", "DeviceDiscovered", "DeviceRecovered"}
    BY <1>4, <2>1 DEF Manager!ChangeOf, Manager!IsValidResponse
  <2>4. ASSUME index < 3  PROVE change # "DeviceRecovered"
    <3>1. records[index] \in {Manager!NoRecord, Manager!Seen}
      BY <1>1, <2>4 DEF StepOK
    <3> QED  BY <1>4, <2>1, <3>1 DEF Manager!ChangeOf, Manager!IsValidResponse, Manager!Seen
  <2>5. index \in Lights /\ (change = "DeviceRecovered" => index = 3)
    BY <1>1, <1>3, <1>6, <2>4 DEF Lights
  <2> QED  BY <2>2, <2>3, <2>5 DEF DemoChanges
<1>7. ASSUME index > 3
      PROVE  records'[index] = Manager!NoRecord /\ change = "none"
  <2>1. PresenceOutcome(index) = "NoResponse"
    BY <1>7 DEF PresenceOutcome
  <2>2. records[index] = Manager!NoRecord
    BY <1>1, <1>7 DEF StepOK
  <2> QED  BY <1>2, <1>4, <2>1, <2>2
              DEF Manager!ChangeOf, Manager!AfterPresence, Manager!IsValidResponse,
                  Manager!NoRecord
<1>8. ASSUME index = 3 /\ OddWindow
      PROVE  /\ \/ records[3] = Manager!NoRecord /\ records'[3] = Manager!NoRecord
                \/ \E m \in 0 .. 2 : records[3] = Missed(m) /\ records'[3] = Missed(m + 1)
                \/ records[3] = Missed(3) /\ records'[3] = Missed(3)
             /\ change # "none" => [type |-> change, address |-> index] \in DemoChanges
  <2>1. PresenceOutcome(index) = "NoResponse"
    BY <1>8 DEF PresenceOutcome
  <2>2. \/ records[3] = Manager!NoRecord
        \/ \E m \in 0 .. 3 : records[3] = Missed(m)
    BY <1>1, <1>8 DEF StepOK
  <2>3. ASSUME records[3] = Manager!NoRecord  PROVE records'[3] = Manager!NoRecord
    BY <1>2, <1>8, <2>1, <2>3 DEF Manager!AfterPresence, Manager!IsValidResponse
  <2>4. ASSUME NEW m \in 0 .. 2, records[3] = Missed(m)  PROVE records'[3] = Missed(m + 1)
    <3>1. PICK r : r = Missed(m)
      OBVIOUS
    <3>2. r = [lifecycle |-> "Present", present |-> TRUE, missed |-> m]
      BY <3>1 DEF Missed
    <3>3. r # Manager!NoRecord
      BY <3>2 DEF Manager!NoRecord
    <3>4. records'[3] = Manager!Miss(r)
      BY <1>2, <1>8, <2>1, <2>4, <3>1, <3>2, <3>3
         DEF Manager!AfterPresence, Manager!IsValidResponse, Manager!IsBusFailure
    <3>5. CASE m = 2
      BY <3>2, <3>4, <3>5 DEF Manager!Miss, Missed
    <3>6. CASE m # 2
      <4>1. PICK n : n = m + 1
        OBVIOUS
      <4>2. m < 3 /\ ~(n >= 3) /\ n # 3
        BY <3>6, <4>1
      <4>3. Manager!Miss(r) = [r EXCEPT !.missed = n]
        BY <3>2, <4>1, <4>2 DEF Manager!Miss
      <4> QED  BY <3>2, <3>4, <4>1, <4>2, <4>3 DEF Missed
    <3> QED  BY <3>5, <3>6
  <2>5. ASSUME records[3] = Missed(3)  PROVE records'[3] = Missed(3)
    <3>1. Missed(3).lifecycle = "Missing"
      BY DEF Missed
    <3> QED  BY <1>2, <1>8, <2>1, <2>5, <3>1
                DEF Manager!AfterPresence, Manager!IsValidResponse, Manager!IsBusFailure
  <2>6. change \in {"none", "DeviceMissing"}
    BY <1>4, <2>1 DEF Manager!ChangeOf, Manager!IsValidResponse
  <2>7. change # "none" => [type |-> change, address |-> index] \in DemoChanges
    BY <1>8, <2>6 DEF DemoChanges
  <2>8. ASSUME NEW m \in 0 .. 3  PROVE m \in 0 .. 2 \/ m = 3
    OBVIOUS
  <2> QED  BY <2>2, <2>3, <2>4, <2>5, <2>7, <2>8
<1>9. records' = [records EXCEPT ![index] = records'[index]]
  BY <1>2
<1>10. change # "none" => [type |-> change, address |-> index] \in DemoChanges
  BY <1>3, <1>6, <1>7, <1>8
<1>11. batch' = batch \/ \E c \in DemoChanges : batch' = Append(batch, c)
  BY <1>5, <1>10
<1> QED  BY <1>1, <1>6, <1>7, <1>8, <1>9, <1>11

\* The alarms that a change or an observation is reported as are those of the script,
\* with their severities.
LEMMA ChangeReported ==
    ASSUME NEW c \in DemoChanges
    PROVE  /\ <<c.address, EventTypeOf(c.type)>> \in DemoAlarms
           /\ SeverityOf(<<c.address, EventTypeOf(c.type)>>) =
                IF EventTypeOf(c.type) = "DeviceMissing" THEN Critical ELSE Info
<1>1. CASE \E l \in Lights : c = [type |-> "DeviceDiscovered", address |-> l]
  BY <1>1 DEF EventTypeOf, DemoAlarms, SeverityOf
<1>2. CASE c = [type |-> "DeviceMissing", address |-> 3]
  BY <1>2 DEF EventTypeOf, DemoAlarms, SeverityOf
<1>3. CASE c = [type |-> "DeviceRecovered", address |-> 3]
  BY <1>3 DEF EventTypeOf, DemoAlarms, SeverityOf
<1> QED  BY <1>1, <1>2, <1>3 DEF DemoChanges

LEMMA FaultReported ==
    ASSUME NEW l \in Lights, ObservationOf(l) # Engine(l)!CleanSample
    PROVE  LET fault == FaultOf(l, ObservationOf(l)) IN
           /\ fault.alarm \in DemoAlarms \cap FaultAlarms(l)
           /\ fault.severity = SeverityOf(fault.alarm)
<1>1. PICK o : o = ObservationOf(l)
  OBVIOUS
<1>2. o.lampFailure <=> l = 1
  BY <1>1 DEF ObservationOf, Engine!CleanSample
<1>3. o.thermal = "Warning" => l = 2
  BY <1>1 DEF ObservationOf, Engine!CleanSample
<1>4. ~o.lampFailure /\ o.thermal # "Warning" => l = 3
  <2>1. SUFFICES ASSUME l # 1, l # 3, o.thermal # "Warning"  PROVE FALSE
    BY <1>2
  <2>2. o.thermal = "Normal"
    BY <1>1, <2>1 DEF ObservationOf, Engine!CleanSample
  <2>3. o = [Engine(l)!CleanSample EXCEPT !.lampFailure = FALSE, !.thermal = "Normal",
                                          !.intermittentFault = FALSE]
    <3>1. (l = 1) = FALSE /\ (l = 3 /\ OddWindow) = FALSE
      BY <2>1
    <3>2. (IF l = 2 /\ nowMs >= 1000 THEN "Warning" ELSE "Normal") = "Normal"
      BY <1>1, <2>2 DEF ObservationOf, Engine!CleanSample
    <3> QED  BY <1>1, <3>1, <3>2, Zenon DEF ObservationOf
  <2>4. o = Engine(l)!CleanSample
    BY <2>3 DEF Engine!CleanSample
  <2> QED  BY <1>1, <2>4
<1>5. PICK fault : fault = FaultOf(l, o)
  OBVIOUS
<1>6. \/ fault = [alarm |-> <<1, "LampFailure">>, severity |-> Critical] /\ l = 1
      \/ fault = [alarm |-> <<2, "ThermalWarning">>, severity |-> Warning] /\ l = 2
      \/ fault = [alarm |-> <<3, "IntermittentFault">>, severity |-> Warning] /\ l = 3
  BY <1>2, <1>3, <1>4, <1>5 DEF FaultOf
<1>7. fault.alarm \in DemoAlarms /\ fault.alarm \in FaultAlarms(l)
  BY <1>6 DEF DemoAlarms, FaultAlarms
<1>8. fault.severity = SeverityOf(fault.alarm)
  BY <1>6 DEF SeverityOf
<1> QED  BY <1>1, <1>5, <1>7, <1>8

-----------------------------------------------------------------------------
(* What a report does to the table and to the wire.                        *)

\* The script has finitely many alarms.
LEMMA DemoAlarmsFinite == IsFiniteSet(DemoAlarms)
<1>1. PICK found : found = {<<l, "DeviceDiscovered">> : l \in Lights}
  OBVIOUS
<1>2. IsFiniteSet(found)
  <2>1. PICK f \in [0 .. 3 -> found] : f = [l \in 0 .. 3 |-> <<l, "DeviceDiscovered">>]
    BY <1>1 DEF Lights
  <2>2. f \in Surjection(0 .. 3, found)
    BY <1>1, <2>1 DEF Lights, Surjection
  <2>3. PICK a \in Int, b \in Int : a = 0 /\ b = 3
    OBVIOUS
  <2>4. IsFiniteSet(0 .. 3)
    BY <2>3, FS_Interval, Zenon
  <2> QED  BY <2>2, <2>4, FS_Surjection
<1>3. IsFiniteSet(((((found \cup {<<1, "LampFailure">>}) \cup {<<2, "ThermalWarning">>})
                      \cup {<<3, "IntermittentFault">>}) \cup {<<3, "DeviceMissing">>})
                    \cup {<<3, "DeviceRecovered">>})
  BY <1>2, FS_AddElement, Zenon
<1>4. DemoAlarms = ((((found \cup {<<1, "LampFailure">>}) \cup {<<2, "ThermalWarning">>})
                      \cup {<<3, "IntermittentFault">>}) \cup {<<3, "DeviceMissing">>})
                    \cup {<<3, "DeviceRecovered">>}
  BY <1>1 DEF DemoAlarms
<1> QED  BY <1>3, <1>4

\* A search of the table from the front ends at one of the slots it is for.
LEMMA FirstIsOne ==
    ASSUME NEW slots \in SUBSET Slots, slots # {}
    PROVE  First(slots) \in slots
<1>1. slots \in SUBSET Nat
  BY DEF Slots
<1>2. PICK i \in slots : \A j \in slots : ~ (<<j, i>> \in OpToRel(<, Nat))
  BY <1>1, NatLessThanWellFounded, WFMin, Zenon
<1>3. \A j \in slots : ~ (j < i)
  BY <1>1, <1>2, Zenon DEF OpToRel
<1>4. \A j \in slots : i <= j
  BY <1>1, <1>3
<1> QED  BY <1>4 DEF First

\* As long as an alarm of the script is not in the table, it has a slot for it.
LEMMA TableHasRoom ==
    ASSUME TableOK, WireOK, NEW alarm \in DemoAlarms, alarm \notin ActiveAlarms
    PROVE  /\ Len(wire) < Cardinality(DemoAlarms)
           /\ \E i \in Slots : active[i].alarm = NoAlarm
           /\ IsFiniteSet(Used) /\ IsFiniteSet(ActiveAlarms)
<1>1. ActiveAlarms \subseteq DemoAlarms
  BY DEF ActiveAlarms, TableOK, Slot
<1>2. /\ IsFiniteSet(ActiveAlarms) /\ IsFiniteSet(DemoAlarms)
      /\ Cardinality(ActiveAlarms) \in Nat /\ Cardinality(DemoAlarms) \in Nat
  BY <1>1, DemoAlarmsFinite, FS_Subset, FS_CardinalityType
<1>3. Cardinality(ActiveAlarms) < Cardinality(DemoAlarms)
  <2>1. /\ Cardinality(ActiveAlarms) <= Cardinality(DemoAlarms)
        /\ Cardinality(ActiveAlarms) = Cardinality(DemoAlarms) => ActiveAlarms = DemoAlarms
    BY <1>1, DemoAlarmsFinite, FS_Subset
  <2> QED  BY <1>2, <2>1
<1>4. Len(wire) < Cardinality(DemoAlarms)
  BY <1>3 DEF WireOK
<1>5. IsFiniteSet(Slots) /\ Cardinality(Slots) = MaxActive /\ MaxActive \in Nat
  BY EventManagerAssumption, FS_Interval DEF Slots
<1>6. IsFiniteSet(Used) /\ Cardinality(Used) < Cardinality(Slots)
  <2>1. IsFiniteSet(Used) /\ Cardinality(Used) \in Nat
    BY <1>5, FS_Subset, FS_CardinalityType DEF Used
  <2> QED  BY <1>2, <1>4, <1>5, <2>1, DemoAssumption DEF WireOK
<1>7. Used # Slots
  BY <1>5, <1>6
<1> QED  BY <1>2, <1>4, <1>6, <1>7 DEF Used

\* Nothing is reported of an alarm that is in the table, and nobody is told.
Repeats(alarm) ==
    /\ alarm \in ActiveAlarms
    /\ active' = active
    /\ UNCHANGED <<nextSequence, wire>>

\* An alarm that is not takes a free slot, and a frame tells of it.
Announces(alarm, severity, i) ==
    /\ alarm \notin ActiveAlarms
    /\ i \in Slots /\ active[i].alarm = NoAlarm
    /\ active' = [active EXCEPT ![i] = [alarm |-> alarm, severity |-> severity,
                                        acknowledged |-> FALSE, lastEmitted |-> nowMs]]
    /\ wire' = Append(wire, [sequence |-> nextSequence,
                             about |-> [alarm |-> alarm, severity |-> severity]])
    /\ nextSequence' = AfterSequence

\* The script never escalates an alarm, and the table never is full.
LEMMA ReportEffect ==
    ASSUME StepOK, TableOK, WireOK, NEW alarm \in DemoAlarms, NEW severity,
           severity = SeverityOf(alarm), Report(alarm, severity)
    PROVE  Repeats(alarm) \/ \E i \in Slots : Announces(alarm, severity, i)
<1>0. alarm # NoAlarm /\ severity \in EventSeverity
  BY DemoAssumption, EventManagerAssumption
     DEF SeverityOf, EventSeverity, Critical, Warning, Info
<1>1. CASE RaiseNew(alarm, severity, nowMs)
  <2>1. alarm \notin ActiveAlarms
    BY <1>1 DEF RaiseNew, SlotsOf, ActiveAlarms
  <2>2. SlotsOf(NoAlarm) # {} /\ SlotsOf(NoAlarm) \subseteq Slots
    BY <2>1, TableHasRoom DEF SlotsOf
  <2>3. PICK i : i = First(SlotsOf(NoAlarm))
    OBVIOUS
  <2>4. i \in Slots /\ active[i].alarm = NoAlarm
    BY <2>2, <2>3, FirstIsOne DEF SlotsOf
  <2>5. /\ active' = [active EXCEPT ![i] = [alarm |-> alarm, severity |-> severity,
                                            acknowledged |-> FALSE, lastEmitted |-> nowMs]]
        /\ transition' = Transition("Activated", i)
    BY <1>1, <2>2, <2>3 DEF RaiseNew, Activated
  <2>6. transition'.action = "Activated"
    BY <2>5 DEF Transition
  <2>7. PublishSent(0, [alarm |-> alarm, severity |-> severity])
    BY <2>6 DEF Report, Publish
  <2>8. /\ wire' = Append(wire, [sequence |-> nextSequence,
                                 about |-> [alarm |-> alarm, severity |-> severity]])
        /\ nextSequence' = AfterSequence
    BY <2>7 DEF PublishSent, Numbered, NumberFor
  <2> QED  BY <2>1, <2>4, <2>5, <2>8 DEF Announces
<1>2. CASE RaiseAgain(alarm, severity, nowMs)
  <2>1. SlotsOf(alarm) # {} /\ SlotsOf(alarm) \subseteq Slots
    BY <1>2 DEF RaiseAgain, SlotsOf
  <2>2. PICK i : i = First(SlotsOf(alarm))
    OBVIOUS
  <2>3. i \in Slots /\ active[i].alarm = alarm
    BY <2>1, <2>2, FirstIsOne DEF SlotsOf
  <2>4. i \in Used /\ active[i].severity = severity /\ active[i] \in Slot
    BY <1>0, <2>3 DEF Used, TableOK
  <2>5. ~Escalates(severity, active[i].severity)
    BY <1>0, <2>4 DEF Escalates, EventSeverity
  <2>6. active' = [active EXCEPT ![i].severity = severity] /\ transition' = NoTransition
    BY <1>2, <2>2, <2>5 DEF RaiseAgain
  <2>7. active' = active
    BY <2>3, <2>4, <2>6 DEF TableOK, Slot
  <2>8. UNCHANGED <<nextSequence, wire>>
    BY <2>6 DEF Report, NoTransition, sessionVars, linkVars
  <2>9. alarm \in ActiveAlarms
    BY <1>0, <2>3 DEF ActiveAlarms
  <2> QED  BY <2>7, <2>8, <2>9 DEF Repeats
<1> QED  BY <1>1, <1>2 DEF Report, Raise

\* A new alarm takes one slot more.
LEMMA AnnouncedInTable ==
    ASSUME StepOK, TableOK, NEW alarm \in DemoAlarms, NEW i \in Slots,
           Announces(alarm, SeverityOf(alarm), i)
    PROVE  /\ TableOK'
           /\ i \notin Used /\ Used' = Used \cup {i}
           /\ ActiveAlarms' = ActiveAlarms \cup {alarm}
<1>1. PICK slot : slot = [alarm |-> alarm, severity |-> SeverityOf(alarm),
                          acknowledged |-> FALSE, lastEmitted |-> nowMs]
  OBVIOUS
<1>2. alarm # NoAlarm /\ SeverityOf(alarm) \in EventSeverity
  BY DemoAssumption, EventManagerAssumption
     DEF SeverityOf, EventSeverity, Critical, Warning, Info
<1>3. slot \in Slot /\ slot.alarm = alarm /\ slot.severity = SeverityOf(alarm)
  BY <1>1, <1>2 DEF Slot, StepOK
<1>4. active[i].alarm = NoAlarm /\ active' = [active EXCEPT ![i] = slot]
  BY <1>1 DEF Announces
<1>5. active' \in [Slots -> Slot] /\ active'[i] = slot
  BY <1>3, <1>4 DEF TableOK
<1>6. \A j \in Slots \ {i} : active'[j] = active[j]
  BY <1>4 DEF TableOK
<1>7. i \notin Used /\ Used' = Used \cup {i}
  BY <1>2, <1>3, <1>4, <1>5, <1>6 DEF Used
<1>8. ActiveAlarms' = ActiveAlarms \cup {alarm}
  <2>1. ActiveAlarms = {active[j].alarm : j \in Used}
    BY DEF ActiveAlarms, Used
  <2>2. ActiveAlarms' = {active'[j].alarm : j \in Used'}
    BY DEF ActiveAlarms, Used
  <2>3. \A j \in Used : active'[j] = active[j]
    BY <1>6, <1>7 DEF Used
  <2> QED  BY <1>3, <1>5, <1>7, <2>1, <2>2, <2>3
<1>9. \A j \in Used : active'[j] = active[j] /\ active[j].alarm # alarm
  BY <1>6, <1>7 DEF Announces, ActiveAlarms, Used
<1>10. \A j, k \in Used' : active'[j].alarm = active'[k].alarm => j = k
  BY <1>3, <1>5, <1>7, <1>9 DEF TableOK
<1>11. \A j \in Used' : active'[j].severity = SeverityOf(active'[j].alarm)
  BY <1>3, <1>5, <1>7, <1>9 DEF TableOK
<1> QED  BY <1>5, <1>7, <1>8, <1>10, <1>11 DEF TableOK

\* And the frame that tells of it the next number.
LEMMA AnnouncedOnWire ==
    ASSUME StepOK, TableOK, WireOK, NEW alarm \in DemoAlarms, NEW i \in Slots,
           Announces(alarm, SeverityOf(alarm), i)
    PROVE  WireOK'
<1>1. PICK n \in Nat : n = Len(wire)
  BY DEF WireOK
<1>2. PICK frame : frame = [sequence |-> nextSequence,
                            about |-> [alarm |-> alarm, severity |-> SeverityOf(alarm)]]
  OBVIOUS
<1>3. alarm \notin ActiveAlarms /\ wire' = Append(wire, frame) /\ nextSequence' = AfterSequence
  BY <1>2 DEF Announces
<1>4. n < Cardinality(DemoAlarms) /\ IsFiniteSet(Used) /\ IsFiniteSet(ActiveAlarms)
  BY <1>1, <1>3, TableHasRoom
<1>5. Cardinality(DemoAlarms) \in Nat /\ Cardinality(DemoAlarms) < SequenceModulus
  BY DemoAssumption, DemoAlarmsFinite, FS_CardinalityType
<1>6. nextSequence = n + 1
  <2>1. PICK k \in Nat, M \in Nat : k = n + 1 /\ M = SequenceModulus
    BY C6SessionAssumption
  <2>2. k < M
    BY <1>4, <1>5, <2>1
  <2>3. k % M = k
    BY <2>2
  <2> QED  BY <1>1, <2>1, <2>3 DEF WireOK
<1>7. nextSequence' = ((n + 1) + 1) % SequenceModulus
  BY <1>3, <1>6 DEF AfterSequence
<1>8. frame.sequence = n + 1 /\ frame.about.alarm = alarm
  BY <1>2, <1>6
<1> DEFINE Frames == [sequence : Nat, about : [alarm : DemoAlarms, severity : EventSeverity]]
<1>9. frame \in Frames
  <2>1. SeverityOf(alarm) \in EventSeverity
    BY DEF SeverityOf, EventSeverity, Critical, Warning, Info
  <2> QED  BY <1>2, <1>6, <2>1
<1>10. wire \in Seq(Frames)
  BY DEF WireOK
<1> HIDE DEF Frames
<1>11. /\ wire' \in Seq(Frames) /\ Len(wire') = n + 1
       /\ \A j \in 1 .. n : wire'[j] = wire[j]
       /\ wire'[n + 1] = frame
  BY <1>1, <1>3, <1>9, <1>10, AppendProperties
<1>12. i \notin Used /\ Used' = Used \cup {i} /\ ActiveAlarms' = ActiveAlarms \cup {alarm}
  BY AnnouncedInTable
<1>13. Cardinality(Used') = n + 1 /\ Cardinality(ActiveAlarms') = n + 1
  <2>1. Cardinality(Used) = n /\ Cardinality(ActiveAlarms) = n
    BY <1>1 DEF WireOK
  <2>2. Cardinality(Used \cup {i}) = Cardinality(Used) + 1
    BY <1>4, <1>12, FS_AddElement
  <2>3. Cardinality(ActiveAlarms \cup {alarm}) = Cardinality(ActiveAlarms) + 1
    BY <1>3, <1>4, FS_AddElement
  <2> QED  BY <1>12, <2>1, <2>2, <2>3
<1>14. {wire'[j].about.alarm : j \in 1 .. Len(wire')} = ActiveAlarms'
  <2>1. \A j \in 1 .. n + 1 : j \in 1 .. n \/ j = n + 1
    BY <1>1
  <2>2. \A j \in 1 .. n : j \in 1 .. n + 1
    BY <1>1
  <2>3. n + 1 \in 1 .. n + 1
    BY <1>1
  <2>4. ActiveAlarms = {wire[j].about.alarm : j \in 1 .. n}
    BY <1>1 DEF WireOK
  <2> QED  BY <1>8, <1>11, <1>12, <2>1, <2>2, <2>3, <2>4
<1>15. \A j \in 1 .. n + 1 : wire'[j].sequence = j
  <2> TAKE j \in 1 .. n + 1
  <2>1. CASE j = n + 1
    BY <1>8, <1>11, <2>1
  <2>2. CASE j # n + 1
    <3>1. j \in 1 .. n
      BY <1>1, <2>2
    <3> QED  BY <1>1, <1>11, <3>1 DEF WireOK
  <2> QED  BY <2>1, <2>2
<1> QED  BY <1>7, <1>11, <1>13, <1>14, <1>15 DEF WireOK, Frames

\* A report leaves the table, with its alarm in it, and the wire in agreement.
LEMMA ReportKeeps ==
    ASSUME StepOK, TableOK, WireOK, NEW alarm \in DemoAlarms,
           Report(alarm, SeverityOf(alarm))
    PROVE  TableOK' /\ WireOK' /\ ActiveAlarms' = ActiveAlarms \cup {alarm}
<1>1. CASE Repeats(alarm)
  <2>1. Used' = Used /\ ActiveAlarms' = ActiveAlarms
    BY <1>1 DEF Repeats, Used, ActiveAlarms
  <2>2. TableOK'
    BY <1>1, <2>1 DEF Repeats, TableOK
  <2>3. WireOK'
    BY <1>1, <2>1 DEF Repeats, WireOK
  <2> QED  BY <1>1, <2>1, <2>2, <2>3 DEF Repeats
<1>2. CASE \E i \in Slots : Announces(alarm, SeverityOf(alarm), i)
  BY <1>2, AnnouncedInTable, AnnouncedOnWire
<1> QED  BY <1>1, <1>2, ReportEffect

-----------------------------------------------------------------------------
(* The invariant is kept.                                                  *)

ReportedAs(change) == <<change.address, EventTypeOf(change.type)>>

\* What a step of the demonstration reports is an alarm of the script.
LEMMA ChangeIsReported ==
    ASSUME StepOK, ReportChange
    PROVE  /\ ReportedAs(Head(batch)) \in DemoAlarms
           /\ Report(ReportedAs(Head(batch)), SeverityOf(ReportedAs(Head(batch))))
           /\ Head(batch) \in DemoChanges
           /\ batch' \in Seq(DemoChanges)
           /\ UNCHANGED <<demo, index, nowMs, records, scores>>
<1>1. Head(batch) \in DemoChanges /\ Tail(batch) \in Seq(DemoChanges)
  BY HeadTailProperties DEF ReportChange, StepOK
<1>2. PICK c \in DemoChanges : c = Head(batch)
  BY <1>1
<1>3. Report(<<c.address, EventTypeOf(c.type)>>,
             IF EventTypeOf(c.type) = "DeviceMissing" THEN Critical ELSE Info)
  BY <1>2 DEF ReportChange
<1>4. /\ ReportedAs(c) \in DemoAlarms
      /\ Report(ReportedAs(c), SeverityOf(ReportedAs(c)))
  BY <1>3, ChangeReported DEF ReportedAs
<1> QED  BY <1>1, <1>2, <1>4 DEF ReportChange, stepVars

LEMMA StepOKInductive ==
    ASSUME StepOK, [Next]_vars
    PROVE  StepOK'
<1>1. ASSUME NEW t \in Nat, Step(t)  PROVE StepOK'
  BY <1>1, DemoAssumption, EmptySeq DEF Step, StepOK
<1>2. CASE Scan
  <2>1. PICK r : r = records'[index]
    OBVIOUS
  <2>2. index \in 0 .. AddressCount - 1 /\ records' = [records EXCEPT ![index] = r]
    BY <1>2, <2>1, ScanEffect
  <2>3. r \in {Manager!NoRecord} \cup {Missed(m) : m \in 0 .. 3}
    <3>1. Manager!Seen = Missed(0)
      BY DEF Manager!Seen, Missed
    <3>2. index < 3 \/ index = 3 \/ index > 3
      BY <2>2, DemoAssumption
    <3>3. ASSUME NEW m \in 0 .. 2  PROVE m + 1 \in 0 .. 3
      OBVIOUS
    <3> QED  BY <1>2, <2>1, <3>1, <3>2, <3>3, ScanEffect
  <2>4. /\ index > 3 => r = Manager!NoRecord
        /\ index < 3 => r = Manager!Seen
    BY <1>2, <2>1, ScanEffect
  <2>5. /\ records' \in [0 .. AddressCount - 1 ->
                           {Manager!NoRecord} \cup {Missed(m) : m \in 0 .. 3}]
        /\ \A a \in 0 .. AddressCount - 1 :
             /\ a > 3 => records'[a] = Manager!NoRecord
             /\ a < 3 => records'[a] \in {Manager!NoRecord, Manager!Seen}
    BY <2>2, <2>3, <2>4 DEF StepOK
  <2>6. batch' \in Seq(DemoChanges)
    <3>1. batch \in Seq(DemoChanges)
      BY DEF StepOK
    <3>2. batch' = batch \/ \E c \in DemoChanges : batch' = Append(batch, c)
      BY <1>2, ScanEffect
    <3> QED  BY <3>1, <3>2, AppendProperties
  <2>7. demo' = "scan" /\ index' \in 0 .. AddressCount /\ nowMs' \in Nat
    BY <1>2, ScanEffect, DemoAssumption DEF StepOK
  <2> QED  BY <2>5, <2>6, <2>7 DEF StepOK
<1>3. CASE ScanDone
  BY <1>3 DEF ScanDone, deviceVars, StepOK
<1>4. CASE ReportChange
  BY <1>4, ChangeIsReported DEF StepOK
<1>5. CASE ReportDone
  BY <1>5 DEF ReportDone, deviceVars, StepOK, Lights
<1>6. CASE WorkUpLight
  <2>1. /\ demo' \in {"asleep", "lights"} /\ (demo' = "lights" => index' \in Lights)
        /\ UNCHANGED <<nowMs, records, batch>>
    BY <1>6 DEF WorkUpLight, deviceVars, StepOK, Lights
  <2> QED  BY <2>1 DEF StepOK
<1>7. CASE UNCHANGED demoVars
  BY <1>7 DEF demoVars, stepVars, deviceVars, StepOK
<1>8. \A t \in BootTimes : t \in Nat
  BY AppAssumption
<1>9. \A period \in Periods : nowMs + period \in Nat
  BY AppAssumption DEF StepOK
<1> QED  BY <1>1, <1>2, <1>3, <1>4, <1>5, <1>6, <1>7, <1>8, <1>9, ProgramSteps DEF StepGoesOn

\* The scan of an address adds a discovery when, and only when, it makes a record.
LEMMA ScanDiscovers ==
    ASSUME StepOK, DiscoveryOK, Scan
    PROVE  \E change :
             /\ batch' = IF change = "none" THEN batch
                         ELSE Append(batch, [type |-> change, address |-> index])
             /\ change = "DeviceDiscovered" <=>
                  records[index] = Manager!NoRecord /\ records'[index] # Manager!NoRecord
             /\ records[index] # Manager!NoRecord => records'[index] # Manager!NoRecord
<1>1. /\ index \in 0 .. AddressCount - 1 /\ AddressCount \in Nat
      /\ Len(batch) <= index /\ Len(batch) \in Nat
  BY ScanEffect, DemoAssumption DEF Scan, DiscoveryOK, StepOK
<1>2. PICK change : /\ change = Manager!ChangeOf(records[index], FALSE, PresenceOutcome(index))
                    /\ batch' = Manager!Added(batch, change, index)
  BY DEF Scan
<1>3. batch' = IF change = "none" THEN batch
               ELSE Append(batch, [type |-> change, address |-> index])
  <2>1. Len(batch) # AddressCount
    BY <1>1
  <2> QED  BY <1>2, <2>1 DEF Manager!Added
<1>4. ASSUME index < 3 \/ (index = 3 /\ ~OddWindow)
      PROVE  /\ change = "DeviceDiscovered" <=> records[index] = Manager!NoRecord
             /\ records'[index] # Manager!NoRecord
  <2>1. PresenceOutcome(index) = "Ok"
    BY <1>1, <1>4 DEF PresenceOutcome
  <2> QED  BY <1>2, <1>4, <2>1, ScanEffect, MissedApart
              DEF Manager!ChangeOf, Manager!IsValidResponse
<1>5. ASSUME index > 3 \/ (index = 3 /\ OddWindow)
      PROVE  /\ change # "DeviceDiscovered"
             /\ records[index] = Manager!NoRecord <=> records'[index] = Manager!NoRecord
  <2>1. PresenceOutcome(index) = "NoResponse"
    BY <1>5 DEF PresenceOutcome
  <2>2. change # "DeviceDiscovered"
    BY <1>2, <2>1 DEF Manager!ChangeOf, Manager!IsValidResponse
  <2>3. CASE index > 3
    BY <1>1, <2>2, <2>3, ScanEffect DEF StepOK
  <2>4. CASE index = 3 /\ OddWindow
    <3>1. \A m \in 0 .. 2 : m + 1 \in 1 .. 3 /\ (m = 0 \/ m \in 1 .. 3)
      OBVIOUS
    <3>2. \A m \in 0 .. 3 : Missed(m) # Manager!NoRecord
      <4>1. \A m \in 0 .. 3 : m = 0 \/ m \in 1 .. 3
        OBVIOUS
      <4> QED  BY <4>1, MissedApart
    <3>3. \/ records[3] = Manager!NoRecord /\ records'[3] = Manager!NoRecord
          \/ records[3] # Manager!NoRecord /\ records'[3] # Manager!NoRecord
      <4>1. \A m \in 0 .. 2 : m \in 0 .. 3 /\ m + 1 \in 0 .. 3
        OBVIOUS
      <4> QED  BY <2>4, <3>2, <4>1, ScanEffect
    <3> QED  BY <2>2, <2>4, <3>3
  <2> QED  BY <1>5, <2>3, <2>4
<1>6. index < 3 \/ index = 3 \/ index > 3
  BY <1>1
<1> QED  BY <1>3, <1>4, <1>5, <1>6

\* So it keeps what is known of the discoveries.
LEMMA ScanKeepsDiscoveries ==
    ASSUME StepOK, DiscoveryOK, Scan
    PROVE  DiscoveryOK'
<1>1. /\ index \in 0 .. AddressCount - 1 /\ index' = index + 1 /\ demo = "scan"
      /\ demo' = "scan" /\ AddressCount \in Nat
      /\ UNCHANGED <<discoveredLights, active>>
  BY ScanEffect, DemoAssumption DEF Scan, eventVars
<1>2. Told' = Told
  BY <1>1 DEF Told, ActiveAlarms
<1>3. \A a \in 0 .. AddressCount - 1 : a # index => records'[a] = records[a]
  BY <1>1, ScanEffect DEF StepOK
<1>4. PICK n \in Nat : n = Len(batch) /\ n <= index
  BY <1>1 DEF StepOK, DiscoveryOK
<1>5. \A i \in 1 .. n : batch[i] \in DemoChanges /\ batch[i].address < index
  BY <1>1, <1>4 DEF StepOK, DiscoveryOK
<1>6. PICK change :
        /\ batch' = IF change = "none" THEN batch
                    ELSE Append(batch, [type |-> change, address |-> index])
        /\ change = "DeviceDiscovered" <=>
             records[index] = Manager!NoRecord /\ records'[index] # Manager!NoRecord
        /\ records[index] # Manager!NoRecord => records'[index] # Manager!NoRecord
  BY ScanDiscovers
<1>7. CASE change = "none"
  <2>1. batch' = batch
    BY <1>6, <1>7
  <2>2. \A l \in Lights : records'[l] # Manager!NoRecord <=> records[l] # Manager!NoRecord
    BY <1>1, <1>3, <1>6, <1>7, DemoAssumption DEF Lights
  <2>3. \A i \in 1 .. n : batch[i].address < index + 1
    BY <1>1, <1>5 DEF DemoChanges, Lights
  <2>4. \A l \in Lights : Waiting(l)' <=> Waiting(l)
    BY <2>1 DEF Waiting
  <2>5. n <= index + 1
    BY <1>1, <1>4
  <2> QED  BY <1>1, <1>2, <1>4, <2>1, <2>2, <2>3, <2>4, <2>5 DEF DiscoveryOK
<1>8. CASE change # "none"
  <2>1. PICK c : c = [type |-> change, address |-> index]
    OBVIOUS
  <2>2. batch' = Append(batch, c) /\ c.address = index
    BY <1>6, <1>8, <2>1
  <2>3. Len(batch') = n + 1 /\ batch'[n + 1] = c /\ \A i \in 1 .. n : batch'[i] = batch[i]
    BY <1>4, <2>2 DEF StepOK
  <2>4. /\ \A i \in 1 .. n + 1 : i \in 1 .. n \/ i = n + 1
        /\ \A i \in 1 .. n : i \in 1 .. n + 1
        /\ n + 1 \in 1 .. n + 1 /\ n + 1 <= index + 1
    BY <1>1, <1>4
  <2>5. \A i \in 1 .. n : batch[i].address \in Int /\ batch[i].address < index
    BY <1>5 DEF DemoChanges, Lights
  <2>6. \A i \in 1 .. n + 1 : batch'[i].address < index + 1
    BY <1>1, <2>2, <2>3, <2>4, <2>5
  <2>7. \A i, j \in 1 .. n + 1 : batch'[i].address = batch'[j].address => i = j
    <3>1. \A i \in 1 .. n : batch[i].address # index
      BY <1>1, <2>5
    <3>2. \A i, j \in 1 .. n : batch[i].address = batch[j].address => i = j
      BY <1>4 DEF DiscoveryOK
    <3> QED  BY <2>2, <2>3, <2>4, <3>1, <3>2
  <2>8. \A l \in Lights : Waiting(l)' <=> Waiting(l) \/ c = Discovery(l)
    BY <1>4, <2>3, <2>4 DEF Waiting, Discovery
  <2>9. \A l \in Lights : c = Discovery(l) <=> change = "DeviceDiscovered" /\ l = index
    BY <2>1 DEF Discovery
  <2>10. \A l \in Lights : Waiting(l)' => l \notin Told
    BY <1>6, <2>8, <2>9 DEF DiscoveryOK
  <2>11. \A l \in Lights : records'[l] # Manager!NoRecord <=> l \in Told \/ Waiting(l)'
    <3> TAKE l \in Lights
    <3>1. CASE l = index
      BY <1>6, <2>8, <2>9, <3>1 DEF DiscoveryOK
    <3>2. CASE l # index
      <4>1. records'[l] = records[l]
        BY <1>3, <3>2, DemoAssumption DEF Lights
      <4> QED  BY <2>8, <2>9, <3>2, <4>1 DEF DiscoveryOK
    <3> QED  BY <3>1, <3>2
  <2> QED  BY <1>1, <1>2, <2>3, <2>4, <2>6, <2>7, <2>10, <2>11 DEF DiscoveryOK
<1> QED  BY <1>7, <1>8

\* What is taken off for an observation, and nothing for a clean one.
LEMMA DeductionsOf ==
    ASSUME NEW l \in Lights, NEW o
    PROVE  /\ Engine(l)!Deductions(o, FALSE) \in Nat
           /\ Engine(l)!Deductions(Engine(l)!CleanSample, FALSE) = 0
<1>1. /\ Config.confirmedLampFailure \in Nat /\ Config.confirmedGearFailure \in Nat
      /\ Config.deviceMissing \in Nat /\ Config.criticalTemperature \in Nat
      /\ Config.intermittentFailure \in Nat /\ Config.currentDeviation \in Nat
      /\ Config.powerDeviation \in Nat /\ Config.thermalWarning \in Nat
      /\ Config.poorCommunication \in Nat
  <2>1. Config \in Engine(0)!HealthScoringConfig
    BY DemoAssumption
  <2> QED  BY <2>1 DEF Engine!HealthScoringConfig
<1> DEFINE If(condition, n) == IF condition THEN n ELSE 0
<1>2. \A c, n : n \in Nat => If(c, n) \in Nat
  OBVIOUS
<1>3. PICK lamp, gear, missing, critical, warm, flicker, current, power, comm :
        /\ lamp = If(o.lampFailure, Config.confirmedLampFailure)
        /\ gear = If(o.gearFailure, Config.confirmedGearFailure)
        /\ missing = If(~o.present, Config.deviceMissing)
        /\ critical = If(o.thermal = "Critical", Config.criticalTemperature)
        /\ warm = If(o.thermal = "Warning", Config.thermalWarning)
        /\ flicker = If(o.intermittentFault, Config.intermittentFailure)
        /\ current = If(FALSE, Config.currentDeviation)
        /\ power = If(o.powerDrift, Config.powerDeviation)
        /\ comm = If(o.poorCommunication, Config.poorCommunication)
  OBVIOUS
<1>4. Engine(l)!Deductions(o, FALSE) =
        lamp + gear + missing + critical + warm + flicker + current + power + comm
  BY <1>3 DEF Engine!Deductions
<1>5. Engine(l)!Deductions(Engine(l)!CleanSample, FALSE) = 0
  BY DEF Engine!Deductions, Engine!CleanSample
<1> HIDE DEF If
<1>6. /\ lamp \in Nat /\ gear \in Nat /\ missing \in Nat /\ critical \in Nat /\ warm \in Nat
      /\ flicker \in Nat /\ current \in Nat /\ power \in Nat /\ comm \in Nat
  BY <1>1, <1>2, <1>3
<1>7. lamp + gear + missing + critical + warm + flicker + current + power + comm \in Nat
  BY <1>6
<1>8. Engine(l)!Deductions(o, FALSE) \in Nat
  BY <1>4, <1>7, Zenon
<1> QED  BY <1>5, <1>8, Zenon

\* None ever has less than none or more than full health, and what has full health
\* keeps it while nothing is taken off.
LEMMA RescoredRange ==
    ASSUME NEW l \in Lights, scores \in [Lights -> 0 .. 100], NEW points \in Nat
    PROVE  /\ Engine(l)!Rescored(points) \in 0 .. 100
           /\ points = 0 /\ scores[l] = 100 => Engine(l)!Rescored(points) = 100
<1>1. Config.recoveryStep \in Nat
  <2>1. Config \in Engine(0)!HealthScoringConfig
    BY DemoAssumption
  <2> QED  BY <2>1 DEF Engine!HealthScoringConfig
<1>2. scores[l] \in 0 .. 100
  OBVIOUS
<1>3. Engine(l)!Rescored(points) \in 0 .. 100
  BY <1>1, <1>2 DEF Engine!Rescored, Engine!Floored, Engine!Recovers
<1>4. points = 0 /\ scores[l] = 100 => Engine(l)!Rescored(points) = 100
  BY <1>1, <1>2 DEF Engine!Rescored, Engine!Floored, Engine!Recovers
<1> QED  BY <1>3, <1>4

\* Working up a light takes health off it only with a fault in the table.
LEMMA LightKeeps ==
    ASSUME AlarmInv, WorkUpLight
    PROVE  TableOK' /\ WireOK' /\ ScoresOK' /\ Told' = Told
<1>1. PICK l \in Lights : l = index
  BY DEF WorkUpLight, AlarmInv, StepOK
<1>2. PICK o, score : /\ o = ObservationOf(l)
                      /\ score = Engine(l)!Rescored(Engine(l)!Deductions(o, FALSE))
  OBVIOUS
<1>3. scores' = [scores EXCEPT ![l] = score]
  BY <1>1, <1>2 DEF WorkUpLight
<1>4. scores \in [Lights -> 0 .. 100]
  BY DEF AlarmInv, ScoresOK
<1>5. score \in 0 .. 100 /\ (o = Engine(l)!CleanSample /\ scores[l] = 100 => score = 100)
  <2>1. PICK points \in Nat : points = Engine(l)!Deductions(o, FALSE)
    BY DeductionsOf
  <2>2. o = Engine(l)!CleanSample => points = 0
    BY <2>1, DeductionsOf
  <2> QED  BY <1>2, <1>4, <2>1, <2>2, RescoredRange
<1>6. scores' \in [Lights -> 0 .. 100] /\ \A k \in Lights \ {l} : scores'[k] = scores[k]
  BY <1>3, <1>4, <1>5
<1>7. scores'[l] = score
  BY <1>3, <1>4
<1>8. CASE o = Engine(l)!CleanSample
  <2>1. UNCHANGED <<eventVars, sessionVars, linkVars>>
    BY <1>1, <1>2, <1>8 DEF WorkUpLight
  <2>2. active' = active /\ wire' = wire /\ nextSequence' = nextSequence
    BY <2>1 DEF eventVars, sessionVars, linkVars
  <2>3. ActiveAlarms' = ActiveAlarms /\ Used' = Used
    BY <2>2 DEF ActiveAlarms, Used
  <2>4. TableOK' /\ WireOK'
    BY <2>2, <2>3 DEF AlarmInv, TableOK, WireOK
  <2>5. score < 100 => scores[l] < 100
    BY <1>4, <1>5, <1>8
  <2>6. \A k \in Lights : scores'[k] < 100 => scores[k] < 100
    BY <1>6, <1>7, <2>5
  <2>7. Told' = Told
    BY <2>3 DEF Told
  <2> QED  BY <1>6, <2>3, <2>4, <2>6, <2>7 DEF AlarmInv, ScoresOK
<1>9. CASE o # Engine(l)!CleanSample
  <2>1. PICK fault : fault = FaultOf(l, o)
    OBVIOUS
  <2>2. Report(fault.alarm, fault.severity)
    BY <1>1, <1>2, <1>9, <2>1 DEF WorkUpLight
  <2>3. /\ fault.alarm \in DemoAlarms /\ fault.alarm \in FaultAlarms(l)
        /\ fault.severity = SeverityOf(fault.alarm)
    BY <1>2, <1>9, <2>1, FaultReported
  <2>4. PICK alarm : alarm = fault.alarm
    OBVIOUS
  <2>5. TableOK' /\ WireOK' /\ ActiveAlarms' = ActiveAlarms \cup {alarm}
    BY <2>2, <2>3, <2>4, ReportKeeps DEF AlarmInv
  <2>6. \A k \in Lights \ {l} : scores'[k] < 100 => FaultAlarms(k) \cap ActiveAlarms' # {}
    BY <1>6, <2>5 DEF AlarmInv, ScoresOK
  <2>7. FaultAlarms(l) \cap ActiveAlarms' # {}
    BY <2>3, <2>4, <2>5
  <2>8. Told' = Told
    <3>1. \A k \in Lights : alarm # <<k, "DeviceDiscovered">>
      BY <2>3, <2>4 DEF FaultAlarms
    <3> QED  BY <2>5, <3>1 DEF Told
  <2> QED  BY <1>6, <2>5, <2>6, <2>7, <2>8 DEF ScoresOK
<1> QED  BY <1>8, <1>9

LEMMA AlarmInvInductive ==
    ASSUME AlarmInv, [Next]_vars
    PROVE  AlarmInv'
<1>1. StepOK'
  BY StepOKInductive DEF AlarmInv
<1>2. ASSUME UNCHANGED <<scores, eventVars, sessionVars, linkVars>>
      PROVE  TableOK' /\ WireOK' /\ ScoresOK'
  <2>1. active' = active /\ wire' = wire /\ nextSequence' = nextSequence /\ scores' = scores
    BY <1>2 DEF eventVars, sessionVars, linkVars
  <2>2. ActiveAlarms' = ActiveAlarms /\ Used' = Used
    BY <2>1 DEF ActiveAlarms, Used
  <2> QED  BY <2>1, <2>2 DEF AlarmInv, TableOK, WireOK, ScoresOK
<1>3. CASE ReportChange
  <2>0. scores' = scores
    BY <1>3, ChangeIsReported DEF AlarmInv
  <2>1. PICK alarm \in DemoAlarms : Report(alarm, SeverityOf(alarm))
    BY <1>3, ChangeIsReported DEF AlarmInv
  <2>2. TableOK' /\ WireOK' /\ ActiveAlarms' = ActiveAlarms \cup {alarm}
    BY <2>1, ReportKeeps DEF AlarmInv
  <2> QED  BY <1>1, <2>0, <2>1, <2>2 DEF AlarmInv, ScoresOK
<1>4. CASE WorkUpLight
  BY <1>1, <1>4, LightKeeps DEF AlarmInv
<1>5. CASE UNCHANGED demoVars \/ (\E t : Step(t)) \/ Scan \/ ScanDone \/ ReportDone
  <2>1. UNCHANGED <<scores, eventVars, sessionVars, linkVars>>
    BY <1>5 DEF demoVars, Step, Scan, ScanDone, ReportDone
  <2> QED  BY <1>1, <1>2, <2>1 DEF AlarmInv
<1> QED  BY <1>3, <1>4, <1>5, ProgramSteps DEF StepGoesOn

LEMMA LightsFinite == IsFiniteSet(Lights)
<1>1. PICK a \in Int, b \in Int : a = 0 /\ b = 3
  OBVIOUS
<1>2. IsFiniteSet(0 .. 3)
  BY <1>1, FS_Interval, Zenon
<1> QED  BY <1>2 DEF Lights

\* A report takes the first change; if it is a discovery, the light is counted and told of.
LEMMA ReportKeepsDiscoveries ==
    ASSUME AlarmInv, DiscoveryOK, ReportChange
    PROVE  DiscoveryOK'
<1>1. PICK c \in DemoChanges : c = Head(batch)
  BY ChangeIsReported DEF AlarmInv
<1>2. /\ demo = "report" /\ demo' = "report" /\ batch # << >> /\ batch' = Tail(batch)
      /\ records' = records
      /\ discoveredLights' = IF c.type = "DeviceDiscovered" THEN discoveredLights + 1
                             ELSE discoveredLights
  BY <1>1 DEF ReportChange, stepVars
<1>3. PICK n \in Nat : n = Len(batch)
  BY DEF AlarmInv, StepOK
<1>4. /\ n >= 1 /\ c = batch[1] /\ Len(batch') = n - 1
      /\ \A i \in 1 .. n - 1 : batch'[i] = batch[i + 1]
  BY <1>1, <1>2, <1>3 DEF AlarmInv, StepOK
<1>5. ActiveAlarms' = ActiveAlarms \cup {ReportedAs(c)}
  BY <1>1, ChangeIsReported, ReportKeeps DEF AlarmInv
<1>6. \A l \in Lights : ReportedAs(c) = <<l, "DeviceDiscovered">> <=> c = Discovery(l)
  BY DEF DemoChanges, ReportedAs, EventTypeOf, Discovery
<1>7. \A l \in Lights : l \in Told' <=> l \in Told \/ c = Discovery(l)
  BY <1>5, <1>6 DEF Told
<1>8. /\ \A i \in 1 .. n - 1 : i + 1 \in 1 .. n /\ i + 1 # 1
      /\ \A j \in 1 .. n : j # 1 => j - 1 \in 1 .. n - 1 /\ (j - 1) + 1 = j
      /\ 1 \in 1 .. n
  BY <1>4
<1>9. \A i, j \in 1 .. n : batch[i].address = batch[j].address => i = j
  BY <1>3 DEF DiscoveryOK
<1>10. \A l \in Lights : Waiting(l)' <=> Waiting(l) /\ c # Discovery(l)
  <2> TAKE l \in Lights
  <2>1. ASSUME Waiting(l)'  PROVE Waiting(l) /\ c # Discovery(l)
    <3>1. PICK i \in 1 .. n - 1 : batch'[i] = Discovery(l)
      BY <1>4, <2>1 DEF Waiting, Discovery
    <3>2. PICK k \in 1 .. n : k = i + 1 /\ k # 1
      BY <1>8
    <3>3. batch[k] = Discovery(l)
      BY <1>4, <3>1, <3>2
    <3>4. batch[1] # batch[k]
      BY <1>8, <1>9, <3>2
    <3> QED  BY <1>3, <1>4, <3>3, <3>4 DEF Waiting
  <2>2. ASSUME Waiting(l), c # Discovery(l)  PROVE Waiting(l)'
    <3>1. PICK j \in 1 .. n : batch[j] = Discovery(l)
      BY <1>3, <2>2 DEF Waiting
    <3>2. PICK i \in 1 .. n - 1 : i + 1 = j
      BY <1>4, <1>8, <2>2, <3>1
    <3>3. batch'[i] = Discovery(l)
      BY <1>4, <3>1, <3>2
    <3> QED  BY <1>4, <3>3 DEF Waiting, Discovery
  <2> QED  BY <2>1, <2>2
<1>11. \A i, j \in 1 .. n - 1 : batch'[i].address = batch'[j].address => i = j
  <2> TAKE i, j \in 1 .. n - 1
  <2>1. PICK k \in 1 .. n, m \in 1 .. n : k = i + 1 /\ m = j + 1
    BY <1>8
  <2>2. k = m => i = j
    BY <2>1
  <2> QED  BY <1>4, <1>9, <2>1, <2>2
<1>12. \A l \in Lights : c = Discovery(l) => Waiting(l) /\ l \notin Told
  BY <1>3, <1>4, <1>8 DEF DiscoveryOK, Waiting
<1>13. \A l \in Lights : Waiting(l)' => l \notin Told'
  BY <1>7, <1>10 DEF DiscoveryOK
<1>14. \A l \in Lights : records'[l] # Manager!NoRecord <=> l \in Told' \/ Waiting(l)'
  BY <1>2, <1>7, <1>10, <1>12 DEF DiscoveryOK
<1>15. discoveredLights' = Cardinality(Told')
  <2>1. Told \subseteq Lights /\ Told' \subseteq Lights /\ IsFiniteSet(Told)
    BY LightsFinite, FS_Subset DEF Told
  <2>2. CASE \E l \in Lights : c = Discovery(l)
    <3>1. PICK k \in Lights : c = Discovery(k)
      BY <2>2
    <3>2. \A l \in Lights : c = Discovery(l) <=> l = k
      BY <3>1 DEF Discovery
    <3>3. Told' = Told \cup {k} /\ k \notin Told
      BY <1>7, <1>12, <2>1, <3>1, <3>2
    <3>4. Cardinality(Told \cup {k}) = Cardinality(Told) + 1
      BY <2>1, <3>3, FS_AddElement
    <3>5. c.type = "DeviceDiscovered"
      BY <3>1 DEF Discovery
    <3> QED  BY <1>2, <3>3, <3>4, <3>5 DEF DiscoveryOK
  <2>3. CASE ~ \E l \in Lights : c = Discovery(l)
    <3>1. c.type # "DeviceDiscovered"
      BY <2>3 DEF DemoChanges, Discovery
    <3>2. Told' = Told
      BY <1>7, <2>1, <2>3
    <3> QED  BY <1>2, <3>1, <3>2 DEF DiscoveryOK
  <2> QED  BY <2>2, <2>3
<1> QED  BY <1>2, <1>4, <1>11, <1>13, <1>14, <1>15 DEF DiscoveryOK

LEMMA DiscoveryInductive ==
    ASSUME AlarmInv, DiscoveryOK, [Next]_vars
    PROVE  DiscoveryOK'
<1>1. ASSUME NEW t, Step(t)  PROVE DiscoveryOK'
  <2>1. /\ demo = "asleep" /\ demo' = "scan" /\ batch = << >> /\ batch' = << >>
        /\ index' = 0 /\ UNCHANGED <<records, discoveredLights, active>>
    BY <1>1 DEF Step, DiscoveryOK, eventVars
  <2>2. Told' = Told /\ \A l \in Lights : Waiting(l)' <=> Waiting(l)
    BY <2>1 DEF Told, ActiveAlarms, Waiting
  <2>3. Len(batch') = 0
    BY <2>1
  <2> QED  BY <2>1, <2>2, <2>3 DEF DiscoveryOK
<1>2. CASE Scan
  BY <1>2, ScanKeepsDiscoveries DEF AlarmInv
<1>3. CASE ReportChange
  BY <1>3, ReportKeepsDiscoveries
<1>4. CASE ScanDone \/ ReportDone \/ WorkUpLight \/ UNCHANGED demoVars
  <2>1. /\ UNCHANGED <<records, batch, discoveredLights>>
        /\ \/ demo' = "report"
           \/ demo' \in {"asleep", "lights"} /\ batch = << >>
           \/ demo' = demo /\ index' = index
    BY <1>4 DEF ScanDone, ReportDone, WorkUpLight, demoVars, stepVars, deviceVars, DiscoveryOK
  <2>2. Told' = Told
    <3>1. CASE WorkUpLight
      BY <3>1, LightKeeps
    <3>2. CASE ~WorkUpLight
      <4>1. active' = active
        BY <1>4, <3>2 DEF ScanDone, ReportDone, demoVars, eventVars
      <4> QED  BY <4>1 DEF Told, ActiveAlarms
    <3> QED  BY <3>1, <3>2
  <2>3. \A l \in Lights : Waiting(l)' <=> Waiting(l)
    BY <2>1 DEF Waiting
  <2> QED  BY <2>1, <2>2, <2>3 DEF DiscoveryOK
<1> QED  BY <1>1, <1>2, <1>3, <1>4, ProgramSteps DEF StepGoesOn

\* At power-up nothing is in the table and nothing was sent.
LEMMA AlarmInvInit ==
    ASSUME Init
    PROVE  AlarmInv /\ DiscoveryOK
<1>1. StepOK
  BY EmptySeq, DemoAssumption DEF Init, DemoInit, StepOK
<1>2. \A i \in Slots : active[i] = [alarm |-> NoAlarm, severity |-> 0,
                                    acknowledged |-> FALSE, lastEmitted |-> 0]
  BY DEF Init, DemoInit, EventInit
<1>3. Used = {} /\ ActiveAlarms = {}
  BY <1>2 DEF Used, ActiveAlarms
<1>4. TableOK
  BY <1>3 DEF Init, DemoInit, EventInit, TableOK, Slot, EventSeverity
<1>5. wire = << >> /\ Len(wire) = 0 /\ nextSequence = 1
  BY DEF Init, DemoInit, SessionInit
<1>6. WireOK
  <2>1. Cardinality({}) = 0
    BY FS_EmptySet
  <2>2. (0 + 1) % SequenceModulus = 1
    BY C6SessionAssumption
  <2>3. 1 .. 0 = {}
    OBVIOUS
  <2>4. {wire[i].about.alarm : i \in {}} = {}
    OBVIOUS
  <2> QED  BY <1>3, <1>5, <2>1, <2>2, <2>3, <2>4, EmptySeq DEF WireOK
<1>7. ScoresOK
  BY DEF Init, DemoInit, ScoresOK
<1>8. DiscoveryOK
  <2>1. demo = "asleep" /\ batch = << >> /\ Len(batch) = 0 /\ discoveredLights = 0
    BY DEF Init, DemoInit
  <2>2. Told = {} /\ Cardinality({}) = 0
    BY <1>3, FS_EmptySet DEF Told
  <2>3. \A l \in Lights : records[l] = Manager!NoRecord /\ ~Waiting(l)
    BY <2>1, DemoAssumption DEF Init, DemoInit, Lights, Waiting
  <2> QED  BY <2>1, <2>2, <2>3 DEF DiscoveryOK
<1> QED  BY <1>1, <1>4, <1>6, <1>7, <1>8 DEF AlarmInv

\* Whatever the times at which the demo task runs and the deductions of the health
\* engine, the table never drops or escalates an alarm of the script and every one of
\* them is one frame on the wire, numbered in the order sent; a light that ever lost
\* health has a fault among them, and a light in the registry its discovery, which is
\* counted once.
THEOREM AlarmsAreFrames == Spec => []EachAlarmOneFrame
<1>1. AlarmInv /\ DiscoveryOK => EachAlarmOneFrame
  <2>1. SUFFICES ASSUME AlarmInv, DiscoveryOK, demo = "asleep"  PROVE EachAlarmOneFrame
    BY DEF EachAlarmOneFrame
  <2>2. /\ {wire[i].about.alarm : i \in 1 .. Len(wire)}
             = {active[i].alarm : i \in Slots} \ {NoAlarm}
        /\ Len(wire) = Cardinality({i \in Slots : active[i].alarm # NoAlarm})
        /\ \A i \in 1 .. Len(wire) : wire[i].sequence = i
    BY <2>1 DEF AlarmInv, WireOK, ActiveAlarms, Used
  <2>3. ASSUME NEW l \in Lights, scores[l] < 100
        PROVE  \E i \in 1 .. Len(wire) : wire[i].about.alarm \in FaultAlarms(l)
    <3>1. PICK alarm \in FaultAlarms(l) : alarm \in ActiveAlarms
      BY <2>1, <2>3 DEF AlarmInv, ScoresOK
    <3>2. alarm \in {wire[i].about.alarm : i \in 1 .. Len(wire)}
      BY <2>1, <3>1 DEF AlarmInv, WireOK
    <3> QED  BY <3>1, <3>2
  <2> DEFINE discovered == {l \in Lights : records[l] # Manager!NoRecord}
  <2>4. discovered = Told
    BY <2>1 DEF DiscoveryOK, Waiting, Told
  <2>5. discoveredLights = Cardinality(discovered)
    BY <2>1, <2>4 DEF DiscoveryOK
  <2>6. ASSUME NEW l \in Lights
        PROVE  l \in discovered <=> \E i \in 1 .. Len(wire) :
                                      wire[i].about.alarm = <<l, "DeviceDiscovered">>
    <3>1. <<l, "DeviceDiscovered">> \in ActiveAlarms
            <=> <<l, "DeviceDiscovered">> \in {wire[i].about.alarm : i \in 1 .. Len(wire)}
      BY <2>1 DEF AlarmInv, WireOK
    <3> QED  BY <2>4, <3>1 DEF Told
  <2> QED  BY <2>2, <2>3, <2>5, <2>6 DEF EachAlarmOneFrame, FaultAlarms
<1>2. AlarmInv /\ DiscoveryOK /\ [Next]_vars => (AlarmInv /\ DiscoveryOK)'
  BY AlarmInvInductive, DiscoveryInductive
<1> QED  BY <1>1, <1>2, AlarmInvInit, PTL DEF Spec

-----------------------------------------------------------------------------
(* The light that comes and goes.                                          *)

\* The time t lies in an odd window of two seconds.
IsOdd(t) == (t \div 2000) % 2 = 1

\* Of two times in odd windows that are at most two seconds apart, neither is in a later
\* window than the other; and three times that are almost a second apart or more fill one.
LEMMA SilenceGrows ==
    ASSUME NEW t \in Nat, NEW u \in t + 999 .. t + 2000, NEW m \in 1 .. 3,
           IsOdd(t), IsOdd(u), t % 2000 >= 999 * (m - 1)
    PROVE  m < 3 /\ u % 2000 >= 999 * m
<1>1. PICK d \in 999 .. 2000 : u = t + d
  <2>1. u - t \in 999 .. 2000 /\ u = t + (u - t)
    OBVIOUS
  <2> QED  BY <2>1
<1>2. PICK q, r : q = t \div 2000 /\ r = t % 2000
  OBVIOUS
<1>3. /\ q \in Nat /\ r \in 0 .. 1999 /\ q = t \div 2000 /\ r = t % 2000
      /\ t = 2000 * q + r
  BY <1>2
<1>4. q % 2 = 1
  BY <1>3 DEF IsOdd
<1>5. CASE r + d < 2000
  <2>1. u % 2000 = r + d
    BY <1>1, <1>3, <1>5
  <2> QED  BY <1>1, <1>3, <1>5, <2>1
<1>6. CASE ~(r + d < 2000)
  <2>1. u \div 2000 = q + 1
    BY <1>1, <1>3, <1>6
  <2>2. (q + 1) % 2 = 1
    BY <2>1 DEF IsOdd
  <2>3. q \in Nat
    BY <1>3
  <2> QED  BY <1>4, <2>2, <2>3
<1> QED  BY <1>5, <1>6

\* A step begins: what the fourth light has missed, it can go on missing only while the
\* window of its silence lasts.
LEMMA StepBegins ==
    ASSUME StepOK, ScanInv, NEW t,
           Step(t), boot' = "looping",
           \/ boot = "running"
           \/ boot = "looping" /\ \E period \in Periods : t = nowMs + period
    PROVE  ScanInv'
<1>1. /\ demo = "asleep" /\ demo' = "scan" /\ index' = 0 /\ nowMs' = t
      /\ records' = records
  BY DEF Step
<1>2. ~LastAsked' /\ SilentSince
  BY <1>1 DEF ScanInv, LastAsked
<1>3. \A l \in Lights : ~(l < 0)
  BY DEF Lights
<1>4. SilentUntil'
  <2>1. CASE boot = "running"
    <3>1. records[3] = Manager!NoRecord
      BY <2>1 DEF ScanInv, Lights
    <3> QED  BY <1>1, <3>1, MissedApart DEF SilentUntil
  <2>2. CASE boot = "looping"
    <3>1. PICK period \in Periods : t = nowMs + period
      BY <2>2
    <3>2. period \in 999 .. 2000 /\ nowMs \in Nat
      <4>1. period \in Nat /\ period >= 999 /\ period <= 2000
        BY AppAssumption, PunctualAssumption
      <4>2. nowMs \in Nat
        BY DEF StepOK
      <4> QED  BY <4>1, <4>2
    <3>3. OddWindow = IsOdd(nowMs) /\ OddWindow' = IsOdd(t)
      BY <1>1 DEF OddWindow, IsOdd
    <3>4. ASSUME NEW m \in 1 .. 3, records'[3] = Missed(m), OddWindow'
          PROVE  m < 3 /\ nowMs' % 2000 >= 999 * m
      <4>1. IsOdd(nowMs) /\ nowMs % 2000 >= 999 * (m - 1)
        BY <1>1, <1>2, <3>3, <3>4 DEF SilentSince
      <4>2. t \in nowMs + 999 .. nowMs + 2000
        BY <3>1, <3>2
      <4>3. IsOdd(t)
        BY <3>3, <3>4
      <4>4. m < 3 /\ t % 2000 >= 999 * m
        <5>1. PICK n : n = nowMs
          OBVIOUS
        <5>2. n \in Nat
          BY <3>2, <5>1
        <5>3. t \in n + 999 .. n + 2000
          BY <4>2, <5>1
        <5>4. n % 2000 >= 999 * (m - 1)
          BY <4>1, <5>1
        <5>5. IsOdd(n)
          BY <4>1, <5>1
        <5>6. m \in 1 .. 3
          OBVIOUS
        <5> QED  BY <4>3, <5>2, <5>3, <5>4, <5>5, <5>6, SilenceGrows
      <4> QED  BY <1>1, <4>4
    <3> QED  BY <3>4 DEF SilentUntil
  <2> QED  BY <2>1, <2>2
<1> QED  BY <1>1, <1>2, <1>3, <1>4 DEF ScanInv

\* One more address is asked.
LEMMA ScanGoesOn ==
    ASSUME StepOK, ScanInv, Scan, boot = "looping", boot' = "looping"
    PROVE  ScanInv'
<1>1. /\ index \in 0 .. AddressCount - 1 /\ index' = index + 1 /\ demo = "scan"
      /\ demo' = "scan" /\ nowMs' = nowMs /\ AddressCount \in Nat /\ AddressCount > 3
  BY ScanEffect, DemoAssumption DEF Scan, Lights
<1>2. OddWindow' = OddWindow
  BY <1>1 DEF OddWindow
<1>3. PICK r : r = records'[index] /\ records' = [records EXCEPT ![index] = r]
  BY ScanEffect
<1>4. records'[index] = r /\ \A l \in Lights : l # index => records'[l] = records[l]
  BY <1>1, <1>3 DEF StepOK, Lights
<1>5. IF LastAsked' THEN SilentSince' ELSE SilentUntil'
  <2>1. CASE index < 3
    <3>1. ~LastAsked /\ ~LastAsked' /\ records'[3] = records[3]
      BY <1>1, <1>4, <2>1 DEF LastAsked, Lights
    <3> QED  BY <1>1, <1>2, <3>1 DEF ScanInv, SilentUntil
  <2>2. CASE index > 3
    <3>1. LastAsked /\ LastAsked' /\ records'[3] = records[3]
      BY <1>1, <1>4, <2>2 DEF LastAsked, Lights
    <3> QED  BY <1>1, <1>2, <3>1 DEF ScanInv, SilentSince
  <2>3. CASE index = 3
    <3>1. SilentUntil /\ LastAsked'
      BY <1>1, <2>3 DEF ScanInv, LastAsked
    <3>2. ASSUME NEW k \in 1 .. 3, records'[3] = Missed(k)
          PROVE  OddWindow /\ nowMs % 2000 >= 999 * (k - 1)
      <4>1. OddWindow
        BY <2>3, <3>2, ScanEffect, MissedApart
      <4>2. CASE records[3] = Missed(3)
        BY <3>1, <4>1, <4>2 DEF SilentUntil
      <4>3. ASSUME NEW m \in 0 .. 2, records[3] = Missed(m), records'[3] = Missed(m + 1)
            PROVE  nowMs % 2000 >= 999 * (k - 1)
        <5>1. k = m + 1
          <6>1. PICK n \in 0 .. 3 : n = m + 1
            OBVIOUS
          <6>2. k \in 0 .. 3 /\ Missed(k) = Missed(n)
            BY <3>2, <4>3, <6>1
          <6> QED  BY <6>1, <6>2, MissedApart
        <5>2. CASE m = 0
          BY <5>1, <5>2 DEF StepOK
        <5>3. CASE m # 0
          <6>1. m \in 1 .. 3
            BY <5>3
          <6>2. nowMs % 2000 >= 999 * m
            BY <3>1, <4>1, <4>3, <6>1 DEF SilentUntil
          <6> QED  BY <5>1, <6>2
        <5> QED  BY <5>2, <5>3
      <4> QED  BY <2>3, <3>2, <4>1, <4>2, <4>3, ScanEffect, MissedApart
    <3> QED  BY <1>1, <1>2, <3>1, <3>2 DEF SilentSince
  <2> QED  BY <1>1, <2>1, <2>2, <2>3
<1>6. ASSUME NEW l \in Lights, l < index'  PROVE Found(l)'
  <2>1. CASE l = index
    <3>1. index < 3 \/ index = 3
      BY <2>1 DEF Lights
    <3> QED  BY <1>2, <2>1, <3>1, ScanEffect DEF Found
  <2>2. CASE l # index
    <3>1. l < index
      BY <1>1, <1>6, <2>2 DEF Lights
    <3> QED  BY <1>1, <1>2, <1>4, <2>2, <3>1 DEF ScanInv, Found
  <2> QED  BY <2>1, <2>2
<1> QED  BY <1>1, <1>5, <1>6 DEF ScanInv

LEMMA ScanInvInductive ==
    ASSUME StepOK, ScanInv, [Next]_vars
    PROVE  ScanInv'
<1>1. CASE UNCHANGED demoVars /\ (boot = "looping" <=> boot' = "looping")
  BY <1>1 DEF demoVars, stepVars, deviceVars, ScanInv, LastAsked, SilentSince, SilentUntil,
              Found, OddWindow
<1>2. CASE StepGoesOn /\ boot' = boot
  <2>1. boot = "looping"
    BY <1>2 DEF ScanInv, StepGoesOn, Scan, ScanDone, ReportChange, ReportDone, WorkUpLight
  <2>2. CASE Scan
    BY <1>2, <2>1, <2>2, ScanGoesOn
  <2>3. CASE ScanDone
    <3>1. /\ demo = "scan" /\ index = AddressCount /\ demo' = "report"
          /\ nowMs' = nowMs /\ records' = records
      BY <2>3 DEF ScanDone, deviceVars
    <3>2. \A l \in Lights : l < index
      BY <3>1, DemoAssumption DEF Lights
    <3>3. LastAsked /\ LastAsked'
      BY <3>1, DemoAssumption DEF LastAsked, Lights
    <3> QED  BY <1>2, <2>1, <3>1, <3>2, <3>3 DEF ScanInv, SilentSince, Found, OddWindow
  <2>4. CASE ReportChange \/ ReportDone \/ WorkUpLight
    <3>1. /\ demo \in {"report", "lights"} /\ demo' \in {"report", "lights", "asleep"}
          /\ nowMs' = nowMs /\ records' = records
      BY <2>4 DEF ReportChange, ReportDone, WorkUpLight, stepVars, deviceVars
    <3>2. LastAsked /\ LastAsked'
      BY <3>1 DEF LastAsked
    <3> QED  BY <1>2, <2>1, <3>1, <3>2 DEF ScanInv, SilentSince, Found, OddWindow
  <2> QED  BY <1>2, <2>2, <2>3, <2>4 DEF StepGoesOn
<1> QED  BY <1>1, <1>2, StepBegins, ProgramSteps

\* Whenever the demo task starts and whenever within a second of its time each step
\* comes, the fourth light is missing only in the last two milliseconds of a window of
\* silence, and no other light ever is: between two scans less than a window passes and
\* three scans in one window are all it holds.
THEOREM MissingIsBrief == Spec => []MissingForMilliseconds
<1>1. Init => ScanInv /\ StepOK
  <2>1. ASSUME Init  PROVE ScanInv
    <3>1. boot = "start" /\ demo = "asleep" /\ \A l \in Lights : records[l] = Manager!NoRecord
      BY <2>1, DemoAssumption DEF Init, DemoInit, Lights
    <3>2. SilentSince /\ LastAsked
      BY <3>1, MissedApart DEF SilentSince, LastAsked, Lights
    <3> QED  BY <3>1, <3>2 DEF ScanInv
  <2> QED  BY <2>1, AlarmInvInit DEF AlarmInv
<1>2. ScanInv /\ StepOK => MissingForMilliseconds
  <2>1. SUFFICES ASSUME ScanInv, StepOK, demo \in {"report", "lights"}, NEW l \in Lights,
                        records[l] # Manager!Seen
                 PROVE  /\ l = 3 /\ OddWindow
                        /\ records[l].lifecycle = "Missing" => nowMs % 2000 >= 1998
    BY DEF MissingForMilliseconds
  <2>2. l = 3 /\ OddWindow
    BY <2>1 DEF ScanInv, Found
  <2>3. 3 \in 0 .. AddressCount - 1
    BY DemoAssumption DEF Lights
  <2>4. records[3] = Manager!NoRecord \/ \E m \in 0 .. 3 : records[3] = Missed(m)
    BY <2>1, <2>3 DEF StepOK
  <2>5. ASSUME records[3].lifecycle = "Missing"  PROVE records[3] = Missed(3)
    BY <2>4, <2>5 DEF Missed, Manager!NoRecord
  <2>6. SilentSince
    BY <2>1 DEF ScanInv, LastAsked
  <2>7. records[3] = Missed(3) => nowMs % 2000 >= 1998
    <3>1. PICK m \in 1 .. 3 : m = 3 /\ 999 * (m - 1) = 1998
      OBVIOUS
    <3> QED  BY <2>6, <3>1 DEF SilentSince
  <2> QED  BY <2>2, <2>5, <2>7
<1> QED  BY <1>1, <1>2, StepOKInductive, ScanInvInductive, PTL DEF Spec

-----------------------------------------------------------------------------
(* The boot.                                                               *)

\* The one response of the script waits for the self-check.
ResponseWaits == responseHead = 0 /\ responseCount = 1 /\ responses[0] = SelfCheckResponse

\* A boot with a valid configuration on a sound line, up to the answer of the self-check.
BootOK ==
    /\ boot \in {"start", "foundation", "script", "query", "processing", "running", "looping"}
    /\ boot \notin {"running", "looping"} =>
         config \in Configs /\ IsValid(config) /\ config.demoEnabled
    /\ busBusy = FALSE /\ collision = FALSE
    /\ health = [initialised |-> boot \notin {"start", "foundation"}, busPowered |-> TRUE,
                 transceiverHealthy |-> TRUE, lineStuckHigh |-> FALSE, lineStuckLow |-> FALSE]
    /\ boot \in {"start", "foundation", "script"} =>
         /\ responseHead = 0 /\ responseCount = 0
         /\ responses = [i \in Indices |-> EmptySlot]
    /\ boot \in {"start", "foundation", "script", "query"} => request = Idle
    /\ boot = "query" => ResponseWaits
    /\ boot = "processing" =>
         \/ ResponseWaits
            /\ request = Request(SelfCheckCall, TRUE, 20, config.maxCommandRetries)
         \/ request = Idle /\ SelfCheckPassed

\* The status 4 has the lamp on.
LEMMA LampIsOn == "lampPowerOn" \in ParseBasicStatus(4, QualityFromPhyResult("Ok"))
<1>1. QualityFromPhyResult("Ok") = "Valid"
  BY DEF QualityFromPhyResult
<1>2. "lampPowerOn" \in DOMAIN StatusBits /\ StatusBits["lampPowerOn"] = 4
  BY DEF StatusBits
<1>3. (4 \div 4) % 2 = 1
  OBVIOUS
<1> QED  BY <1>1, <1>2, <1>3 DEF ParseBasicStatus

\* The first attempt of the self-check is answered by the script and ends it.
LEMMA SelfCheckIsAnswered ==
    ASSUME BootOK, boot = "processing", Attempt
    PROVE  request' = Idle /\ SelfCheckPassed'
<1>1. /\ ResponseWaits
      /\ request = Request(SelfCheckCall, TRUE, 20, config.maxCommandRetries)
  BY DEF BootOK, Attempt
<1>2. request.call = SelfCheckCall /\ request.expectsResponse /\ request.timeoutMs = 20
  BY <1>1 DEF Request
<1>3. LineResult = "Ok" /\ TransmitResult = "Ok"
  BY DEF BootOK, LineResult, TransceiverResult, TransmitResult
<1>4. Oldest = SelfCheckResponse /\ Arrives(20)
  BY <1>1, <1>3 DEF ResponseWaits, Oldest, Arrives, SelfCheckResponse
<1>5. Listens /\ AttemptResult = "Ok"
  BY <1>2, <1>3, <1>4 DEF Listens, AttemptResult, ReceiveResult, SelfCheckResponse
<1>6. consumed' = SelfCheckResponse
  BY <1>2, <1>4, <1>5 DEF Attempt, Received
<1>7. ~Retries(AttemptResult)
  BY <1>5 DEF Retries, IsRetryable
<1>8. request' = Idle /\ answer' = Answered(request.call, "Ok", SelfCheckResponse)
  BY <1>5, <1>6, <1>7 DEF Attempt, EndStatus
<1> QED  BY <1>8, LampIsOn, SelfCheckAssumption DEF SelfCheckPassed, Answered, SelfCheckResponse

LEMMA BootOKInductive ==
    ASSUME BootOK, [Next]_vars
    PROVE  BootOK'
<1>1. CASE CheckConfig
  BY <1>1 DEF BootOK, CheckConfig, Continue, phyVars, ringVars, lineVars, clientVars
<1>2. CASE InitialiseFoundation
  <2>1. /\ boot = "foundation" /\ IsValid(config) /\ TransceiverResult = "Ok"
        /\ health' = [health EXCEPT !.initialised = TRUE]
    BY <1>2 DEF BootOK, InitialiseFoundation, PhyInitialise, TransceiverResult
  <2>2. IsHealthy(health')
    BY <2>1 DEF BootOK, IsHealthy
  <2>3. boot' = "script" /\ config' = config
    BY <1>2, <2>1, <2>2 DEF InitialiseFoundation, Continue
  <2> QED  BY <1>2, <2>1, <2>3 DEF BootOK, InitialiseFoundation, PhyInitialise, ringVars, clientVars
<1>3. CASE ScriptResponse
  <2>1. boot = "script" /\ responseHead = 0 /\ responseCount = 0
    BY <1>3 DEF BootOK, ScriptResponse
  <2>2. responseCount < Capacity /\ ~RingFull /\ 0 \in Indices /\ SlotAt(0, 0) = 0
    BY <2>1, RingAssumption DEF RingFull, Indices, SlotAt
  <2>3. boot' = "query" /\ config' = config
    BY <1>3, <2>2 DEF ScriptResponse, Continue
  <2>4. ResponseWaits'
    BY <1>3, <2>1, <2>2 DEF BootOK, ScriptResponse, EnqueueResponse, ResponseWaits
  <2> QED  BY <1>3, <2>1, <2>3, <2>4
           DEF BootOK, ScriptResponse, EnqueueResponse, lineVars, clientVars
<1>4. CASE SubmitSelfCheck
  <2> DEFINE r == Request(SelfCheckCall, TRUE, 20, config.maxCommandRetries)
  <2>1. boot = "query" /\ boot' = "processing" /\ config' = config
    BY <1>4 DEF SubmitSelfCheck, Continue
  <2>2. config.maxCommandRetries \in Nat /\ config.maxCommandRetries <= 8
    BY <2>1, SelfCheckAssumption DEF BootOK, IsValid
  <2>3. r.call.kind = "shortCommand" /\ r.timeoutMs = 20
        /\ r.maxRetries = config.maxCommandRetries
    BY DEF Request, SelfCheckCall
  <2>4. IsSendable(r.call) /\ IsExecutable(r)
    <3>1. PICK n : n = config.maxCommandRetries
      OBVIOUS
    <3>2. n <= AbsoluteMaxRetries
      BY <2>2, <3>1, SelfCheckAssumption, TransactionAssumption
    <3>3. IsSendable(r.call)
      BY <2>3 DEF IsSendable
    <3> HIDE DEF r
    <3> QED  BY <2>3, <3>1, <3>2, <3>3 DEF IsExecutable
  <2>5. request' = r /\ UNCHANGED <<ringVars, lineVars>>
    BY <1>4, <2>4 DEF SubmitSelfCheck, Submit, NothingReceived
  <2>6. ResponseWaits'
    BY <2>1, <2>5 DEF BootOK, ResponseWaits, ringVars
  <2> QED  BY <2>1, <2>5, <2>6 DEF BootOK, lineVars
<1>5. CASE ProcessSelfCheck
  <2>1. boot = "processing" /\ UNCHANGED <<boot, config>> /\ UNCHANGED lineVars
    BY <1>5 DEF ProcessSelfCheck, Attempt, bootVars
  <2>2. request' = Idle /\ SelfCheckPassed'
    BY <1>5, <2>1, SelfCheckIsAnswered DEF ProcessSelfCheck
  <2> QED  BY <2>1, <2>2 DEF BootOK, lineVars
<1>6. CASE FinishBoot
  <2>1. boot = "processing" /\ request = Idle /\ UNCHANGED <<phyVars, clientVars>>
    BY <1>6 DEF FinishBoot
  <2>2. request # Request(SelfCheckCall, TRUE, 20, config.maxCommandRetries)
    BY <2>1 DEF Request, Idle, NoCall, SelfCheckCall
  <2>3. boot' = "running"
    BY <1>6, <2>1, <2>2 DEF BootOK, FinishBoot
  <2> QED  BY <2>1, <2>3 DEF BootOK, phyVars, lineVars
<1>7. CASE DemoTask
  <2>1. /\ UNCHANGED <<phyVars, clientVars, config>>
        /\ boot' = boot \/ (boot \in {"running", "looping"} /\ boot' = "looping")
    BY <1>7 DEF DemoTask, FirstStep, NextStep, bootVars
  <2> QED  BY <2>1 DEF BootOK, ResponseWaits, SelfCheckPassed, phyVars, ringVars, lineVars,
                       clientVars
<1>8. CASE UNCHANGED vars
  BY <1>8 DEF BootOK, ResponseWaits, SelfCheckPassed, vars, phyVars, ringVars, lineVars,
              clientVars, bootVars
<1> QED  BY <1>1, <1>2, <1>3, <1>4, <1>5, <1>6, <1>7, <1>8 DEF Next, Boot

\* A build with a valid configuration and the demonstration enabled never gives up: with
\* every retry count that validate admits the self-check is sent, its first attempt finds
\* the line free and the scripted response, and the status it reads has the lamp on.
THEOREM ValidBootGoesOn ==
    Spec /\ IsValid(config) /\ config.demoEnabled => [](boot # "stopped")
<1>1. Init /\ IsValid(config) /\ config.demoEnabled => BootOK
  BY DEF Init, PhyInit, ClientInit, BootOK
<1>2. BootOK /\ [Next]_vars => BootOK'
  BY BootOKInductive
<1>3. BootOK => boot # "stopped"
  BY DEF BootOK
<1> QED  BY <1>1, <1>2, <1>3, PTL DEF Spec
================================================================================
