-------------------------------- MODULE AppMain --------------------------------
(***************************************************************************)
(* The program: app_main validates the configuration, brings up the        *)
(* simulated PHY, checks the protocol layer with one QUERY STATUS and      *)
(* starts the task that steps the demonstration once a second.  A boot     *)
(* that meets anything wrong logs it and returns, and the program idles.   *)
(***************************************************************************)
EXTENDS DaliClient, DemoController, Sequences

CONSTANTS
    Configs,        \* the configurations the build may have been given
    NoConfig,       \* the configuration is a local of app_main
    BootTimes,      \* the uptimes at which the demo task may start, in ms
    Periods,        \* what may lie between two of its steps
    MaxUptime       \* bound: the uptime, in ms

ASSUME AppAssumption ==
    /\ NoConfig \notin Configs
    /\ BootTimes \subseteq Nat
    /\ \A period \in Periods : period \in Nat /\ period >= 999
    /\ MaxUptime \in Nat

\* The demo task is at most a second late: a step waits for nothing and no other task
\* of the program keeps the processor.  Nothing in the code watches over it.
ASSUME PunctualAssumption == \A period \in Periods : period <= 2000

VARIABLES
    config,         \* the SmartLightConfig of app_main
    boot            \* how far app_main has come; "stopped" when it gave up

bootVars == <<config, boot>>
vars == <<phyVars, clientVars, demoVars, bootVars>>

\* SmartLightConfig::validate.  A pin below zero is not connected.
IsValid(c) ==
    /\ c.maximumLights \in 1 .. 64
    /\ c.onStatusPollMs > 0 /\ c.offStatusPollMs > 0 /\ c.warningStatusPollMs > 0
    /\ c.maxCommandRetries <= 8
    /\ c.normalUtilisation > 0
    /\ c.normalUtilisation <= c.diagnosticUtilisation
    /\ c.diagnosticUtilisation <= 100
    /\ c.temperatureCriticalC > c.temperatureWarningC
    /\ c.warningSamples > 0 /\ c.faultSamples > 0 /\ c.recoverySamples > 0
    /\ c.daliTxGpio < 0 \/ c.daliRxGpio < 0 \/ c.daliTxGpio # c.daliRxGpio
    /\ c.c6Enabled => c.c6TxGpio >= 0 /\ c.c6RxGpio >= 0 /\ c.c6TxGpio # c.c6RxGpio

Init ==
    /\ config \in Configs
    /\ boot = "start"
    /\ PhyInit
    /\ ClientInit
    /\ DemoInit

-----------------------------------------------------------------------------

\* app_main goes on to next, or returns and with it its locals.
Continue(passed, next) ==
    IF passed THEN boot' = next /\ UNCHANGED config
    ELSE boot' = "stopped" /\ config' = NoConfig

CheckConfig ==
    /\ boot = "start"
    /\ Continue(IsValid(config) /\ config.demoEnabled, "foundation")
    /\ UNCHANGED <<phyVars, clientVars, demoVars>>

\* The health initialiseFoundation asks for.
IsHealthy(h) ==
    /\ h.initialised /\ h.busPowered /\ h.transceiverHealthy
    /\ ~h.lineStuckHigh /\ ~h.lineStuckLow

\* initialiseFoundation, which validates the configuration once more.
InitialiseFoundation ==
    /\ boot = "foundation"
    /\ PhyInitialise
    /\ Continue(IsValid(config) /\ TransceiverResult = "Ok" /\ IsHealthy(health'), "script")
    /\ UNCHANGED <<clientVars, demoVars>>

SelfCheckResponse == [result |-> "Ok", value |-> 4, delayMs |-> 0]

\* The transaction layer takes as many retries as validate admits, and a response is
\* told from none.
ASSUME SelfCheckAssumption ==
    /\ AbsoluteMaxRetries >= 8
    /\ \A c \in Configs : c.maxCommandRetries \in Nat
    /\ SelfCheckResponse # NoResponse

ScriptResponse ==
    /\ boot = "script"
    /\ EnqueueResponse(SelfCheckResponse)
    /\ Continue(responseCount < Capacity, "query")
    /\ UNCHANGED <<clientVars, demoVars>>

SelfCheckCall == [kind |-> "shortCommand", target |-> 3, data |-> QueryStatus]

\* The request is enqueued and processed.
SubmitSelfCheck ==
    /\ boot = "query"
    /\ Submit(Request(SelfCheckCall, TRUE, 20, config.maxCommandRetries))
    /\ Continue(TRUE, "processing")
    /\ UNCHANGED demoVars

ProcessSelfCheck ==
    /\ boot = "processing"
    /\ Attempt
    /\ UNCHANGED <<demoVars, bootVars>>

\* What app_main asks of the transaction and of its response.
SelfCheckPassed ==
    /\ answer.status = "Ok"
    /\ answer.response # NoResponse
    /\ "lampPowerOn" \in
         ParseBasicStatus(answer.response.value, QualityFromPhyResult("Ok"))

\* The result is examined; if it is good the demo task is created and app_main
\* returns, its locals gone.
FinishBoot ==
    /\ boot = "processing"
    /\ request = Idle
    /\ boot' = IF SelfCheckPassed THEN "running" ELSE "stopped"
    /\ config' = NoConfig
    /\ UNCHANGED <<phyVars, clientVars, demoVars>>

Boot ==
    \/ CheckConfig \/ InitialiseFoundation \/ ScriptResponse
    \/ SubmitSelfCheck \/ ProcessSelfCheck \/ FinishBoot

\* The loop of the demo task: a step, then vTaskDelay of a second.  The delay is
\* counted from a tick and the clock is read in whole milliseconds after a wake-up
\* that takes more or less time, so that the clock may tell a millisecond less.
FirstStep ==
    /\ boot = "running"
    /\ boot' = "looping"
    /\ \E t \in BootTimes : Step(t)
    /\ UNCHANGED <<phyVars, clientVars, config>>

NextStep ==
    /\ boot = "looping"
    /\ \E period \in Periods : nowMs + period <= MaxUptime /\ Step(nowMs + period)
    /\ UNCHANGED <<phyVars, clientVars, bootVars>>

DemoTask ==
    \/ FirstStep
    \/ NextStep
    \/ StepGoesOn /\ UNCHANGED <<phyVars, clientVars, bootVars>>

Next == Boot \/ DemoTask

\* Both tasks are scheduled: nothing of the program runs besides them.
Spec == Init /\ [][Next]_vars /\ WF_vars(Next)

-----------------------------------------------------------------------------

\* A build with a valid configuration and the demonstration enabled boots, passes
\* the self-check of the protocol layer and discovers all four lights, whenever
\* the demo task starts and however late its steps come.
ValidatedBootDiscovers ==
    (boot = "start" /\ IsValid(config) /\ config.demoEnabled) ~>
        (boot = "looping" /\ discoveredLights = 4)

\* src/docs/superpowers/specs/2026-07-10-savantix-dali-edge-controller-design.md:270
\* "Demo mode produces the required four-light lifecycle without duplicate active
\* alarms and emits valid mock C6 frames": between steps the peer has been sent
\* exactly one frame for every alarm in the table, numbered in the order sent; one of
\* them tells of a fault of every light that has ever lost health, and one of the
\* discovery of every light in the registry, which discoveredLights counts once.
EachAlarmOneFrame ==
    demo = "asleep" =>
        /\ {wire[i].about.alarm : i \in 1 .. Len(wire)}
             = {active[i].alarm : i \in Slots} \ {NoAlarm}
        /\ Len(wire) = Cardinality({i \in Slots : active[i].alarm # NoAlarm})
        /\ \A i \in 1 .. Len(wire) : wire[i].sequence = i
        /\ \A l \in Lights : scores[l] < 100 =>
              \E i \in 1 .. Len(wire) :
                  wire[i].about.alarm \in
                      {<<l, t>> : t \in {"LampFailure", "ThermalWarning", "IntermittentFault"}}
        /\ LET discovered == {l \in Lights : records[l] # Manager!NoRecord} IN
           /\ \A l \in Lights :
                 l \in discovered <=> \E i \in 1 .. Len(wire) :
                                        wire[i].about.alarm = <<l, "DeviceDiscovered">>
           /\ discoveredLights = Cardinality(discovered)

\* The light that is silent every other two seconds is taken for missing only by a
\* third scan in the last two milliseconds of its silence, and only until the next
\* scan that finds it; no scans skip the seconds in which it answers, and the lights
\* that always answer are present from their first scan on.
MissingForMilliseconds ==
    demo \in {"report", "lights"} =>
        \A l \in Lights :
            \/ records[l] = Manager!Seen
            \/ /\ l = 3 /\ OddWindow
               /\ records[l].lifecycle = "Missing" => nowMs % 2000 >= 1998

\* What a line may make of the bytes of a frame: one changed by one or several bits,
\* the first or the last lost, one too many.
Damaged(bytes) ==
         {[bytes EXCEPT ![i] = (@ + d) % 256] : i \in 1 .. Len(bytes), d \in {1, 2, 85, 128, 255}}
    \cup {Tail(bytes), SubSeq(bytes, 1, Len(bytes) - 1), Append(bytes, End)}

\* src/docs/superpowers/specs/2026-07-10-savantix-dali-edge-controller-design.md:270
\* "... and emits valid mock C6 frames": the peer gets exactly what was published from
\* decode, and refuses it with a byte damaged, lost or added; also if the payload were
\* made of markers.  A payload at the limit passes, and one byte more is not encoded.
FramesAreValid ==
    demo \in {"report", "lights"} /\ transition.action # "None" =>
        LET last == wire[Len(wire)]
            sent == EventFrame(last.sequence, last.about)
            with(payload) == [sent EXCEPT !.payload = payload]
            filled(n) == with([i \in 1 .. n |-> i])
        IN
        /\ \A frame \in {sent, with(<<126, 127, 126>>)} :
             LET bytes == Encode(frame) IN
             /\ Decode(bytes) = frame
             /\ \A received \in Damaged(bytes) : Decode(received) = Refused
        /\ Decode(Encode(filled(MaximumPayload))) = filled(MaximumPayload)
        /\ Encode(filled(MaximumPayload + 1)) = Refused
===============================================================================
