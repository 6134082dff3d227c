----------------------------- MODULE DemoController -----------------------------
(***************************************************************************)
(* The demonstration of components/demo_controller: a device manager over  *)
(* a scripted bus of four lights, a health engine for each of them, an     *)
(* event table and a C6 session, driven by step.  A step scans, reports    *)
(* the changes of the scan and works up the four lights, one after the     *)
(* other; its frames stay in wire, which is what MockC6Transport counts.   *)
(*                                                                         *)
(* The device manager and the health engine are those of their own         *)
(* modules, which are instantiated for what they compute.                  *)
(***************************************************************************)
EXTENDS EventManager, C6Session, C6FrameCodec

CONSTANTS
    AddressCount,   \* DaliDeviceRegistry::kCapacity; the script has four lights
    Config          \* HealthScoringConfig

VARIABLES
    demo,               \* where the step is: asleep, scan, report or lights
    index,              \* the next address of the scan, or light
    nowMs,              \* the time step was called with
    records, batch,     \* of the device manager
    scores,             \* score_ of each light's health engine
    discoveredLights

stepVars == <<demo, index, nowMs>>
deviceVars == <<records, batch, discoveredLights>>
demoVars == <<stepVars, deviceVars, scores, eventVars, sessionVars, linkVars>>

Manager == INSTANCE DaliDeviceManager WITH
    BatchCapacity <- AddressCount, CoreFeatures <- << >>, GearFeatures <- {},
    Disturbances <- {}, MaxDisruptions <- 0, capabilities <- << >>,
    duplicateReported <- << >>, op <- demo, view <- << >>, gear <- << >>, power <- TRUE,
    disruptions <- 0, steady <- {}, episode <- << >>,
    absences <- << >>, silences <- << >>

Engine(light) == INSTANCE LightHealth WITH
    score <- scores[light], WarningSamples <- 3, FaultSamples <- 5, RecoverySamples <- 10,
    CountLimit <- 255, Samples <- {}, Window <- 0, abnormalCount <- 0,
    consecutiveAbnormal <- 0, consecutiveHealthy <- 0, warningActive <- FALSE,
    faultActive <- FALSE, state <- demo, diagnosis <- demo, sample <- demo,
    recent <- << >>, mended <- 0

Lights == 0 .. 3

\* All the script ever reports: what it can scan and observe leads to no other alarm.
DemoAlarms ==
         {<<l, "DeviceDiscovered">> : l \in Lights}
    \cup {<<1, "LampFailure">>, <<2, "ThermalWarning">>, <<3, "IntermittentFault">>,
          <<3, "DeviceMissing">>, <<3, "DeviceRecovered">>}

\* The lights have addresses, the table has room for every alarm of the script and
\* the session a number: 64, 128 and 2^16 in the code.
ASSUME DemoAssumption ==
    /\ AddressCount \in Nat \ Lights
    /\ DemoAlarms \subseteq Alarms
    /\ Cardinality(DemoAlarms) <= MaxActive
    /\ Cardinality(DemoAlarms) < SequenceModulus
    /\ Config \in Engine(0)!HealthScoringConfig

Info == 0
Warning == 1
Critical == 2

DemoInit ==
    /\ demo = "asleep" /\ index = 0 /\ nowMs = 0
    /\ records = [a \in 0 .. AddressCount - 1 |-> Manager!NoRecord]
    /\ batch = << >>
    /\ scores = [l \in Lights |-> 100]
    /\ discoveredLights = 0
    /\ EventInit
    /\ SessionInit

-----------------------------------------------------------------------------

\* Mutant of OddWindow: the windows are three seconds long.
OddWindowLong == (nowMs \div 3000) % 2 = 1

\* Every other two seconds the fourth light is disturbed.
OddWindow == (nowMs \div 2000) % 2 = 1

\* DemoQueryClient::query for the presence of an address.
PresenceOutcome(address) ==
    IF address > 3 \/ (address = 3 /\ OddWindow) THEN "NoResponse" ELSE "Ok"

\* step begins.
Step(time) ==
    /\ demo = "asleep"
    /\ demo' = "scan" /\ index' = 0 /\ nowMs' = time /\ batch' = << >>
    /\ UNCHANGED <<records, discoveredLights, scores, eventVars, sessionVars, linkVars>>

\* One round of scanPresence.
Scan ==
    LET outcome == PresenceOutcome(index) IN
    /\ demo = "scan"
    /\ index < AddressCount
    /\ records' = [records EXCEPT ![index] = Manager!AfterPresence(@, outcome)]
    /\ batch' = Manager!Added(batch, Manager!ChangeOf(records[index], FALSE, outcome), index)
    /\ index' = index + 1
    /\ UNCHANGED <<demo, nowMs, discoveredLights, scores, eventVars, sessionVars, linkVars>>

ScanDone ==
    /\ demo = "scan"
    /\ index = AddressCount
    /\ demo' = "report"
    /\ UNCHANGED <<index, nowMs, deviceVars, scores, eventVars, sessionVars, linkVars>>

\* The numbers of the LightEventTypes that are reported.
TypeNumber == [DeviceDiscovered |-> 0, DeviceMissing |-> 2, DeviceRecovered |-> 3,
               LampFailure |-> 4, ThermalWarning |-> 11, IntermittentFault |-> 14]

\* The frame of an event, under its sequence number.
EventFrame(sequence, about) ==
    [version |-> 1, type |-> 1, sequence |-> sequence,
     payload |-> <<about.alarm[1], TypeNumber[about.alarm[2]], about.severity>>]

\* publish, whose result step ignores: three bytes of payload can be encoded, and the
\* transport takes whatever fits it.
Publish(alarm, severity) == PublishSent(0, [alarm |-> alarm, severity |-> severity])

\* An event is raised, and published if the table calls it a transition.
Report(alarm, severity) ==
    /\ Raise(alarm, severity, nowMs)
    /\ IF transition'.action = "None"
       THEN UNCHANGED <<sessionVars, linkVars>>
       ELSE Publish(alarm, severity)

\* What becomes of a change: any that is no loss and no recovery is a discovery.
EventTypeOf(type) ==
    IF type \in {"DeviceMissing", "DeviceRecovered"} THEN type ELSE "DeviceDiscovered"

ReportChange ==
    LET change == Head(batch)
        type == EventTypeOf(change.type)
    IN
    /\ demo = "report"
    /\ batch # << >>
    /\ Report(<<change.address, type>>, IF type = "DeviceMissing" THEN Critical ELSE Info)
    /\ discoveredLights' =
         IF change.type = "DeviceDiscovered" THEN discoveredLights + 1 ELSE discoveredLights
    /\ batch' = Tail(batch)
    /\ UNCHANGED <<stepVars, records, scores>>

ReportDone ==
    /\ demo = "report"
    /\ batch = << >>
    /\ demo' = "lights" /\ index' = 0
    /\ UNCHANGED <<nowMs, deviceVars, scores, eventVars, sessionVars, linkVars>>

\* The observation of a light: the second has failed, the third runs hot, the
\* fourth comes and goes.
ObservationOf(light) ==
    [Engine(light)!CleanSample EXCEPT
        !.lampFailure = (light = 1),
        !.thermal = IF light = 2 /\ nowMs >= 1000 THEN "Warning" ELSE "Normal",
        !.intermittentFault = (light = 3 /\ OddWindow)]

\* The event of an observation with something wrong.
FaultOf(light, o) ==
    IF o.lampFailure THEN [alarm |-> <<light, "LampFailure">>, severity |-> Critical]
    ELSE IF o.thermal = "Warning"
    THEN [alarm |-> <<light, "ThermalWarning">>, severity |-> Warning]
    ELSE [alarm |-> <<light, "IntermittentFault">>, severity |-> Warning]

WorkUpLight ==
    LET o == ObservationOf(index) IN
    /\ demo = "lights"
    /\ scores' = [scores EXCEPT
            ![index] = Engine(index)!Rescored(Engine(index)!Deductions(o, FALSE))]
    /\ IF o = Engine(index)!CleanSample
       THEN UNCHANGED <<eventVars, sessionVars, linkVars>>
       ELSE Report(FaultOf(index, o).alarm, FaultOf(index, o).severity)
    /\ IF index = 3 THEN demo' = "asleep" /\ index' = 0
                    ELSE index' = index + 1 /\ UNCHANGED demo
    /\ UNCHANGED <<nowMs, deviceVars>>

StepGoesOn == Scan \/ ScanDone \/ ReportChange \/ ReportDone \/ WorkUpLight
===============================================================================
