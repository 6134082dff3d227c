------------------------------- MODULE MCAppMain -------------------------------
(***************************************************************************)
(* The program for TLC: every configuration one field away from the        *)
(* default, or two where validate relates two; five addresses, the last    *)
(* without a light; a demo task that starts at the edges of the two-second *)
(* windows and whose steps may come a millisecond early or up to a second  *)
(* late.                                                                   *)
(***************************************************************************)
EXTENDS AppMain

Base == [maximumLights |-> 64, onStatusPollMs |-> 5000, offStatusPollMs |-> 30000,
         warningStatusPollMs |-> 2000, maxCommandRetries |-> 3, normalUtilisation |-> 30,
         diagnosticUtilisation |-> 60, temperatureWarningC |-> 80,
         temperatureCriticalC |-> 90, warningSamples |-> 3, faultSamples |-> 5,
         recoverySamples |-> 10, daliTxGpio |-> -1, daliRxGpio |-> -1, c6TxGpio |-> -1,
         c6RxGpio |-> -1, c6Enabled |-> FALSE, demoEnabled |-> TRUE]

With(field, values) == {[Base EXCEPT ![field] = v] : v \in values}

MCConfigs ==
         {Base}
    \cup With("maximumLights", {1}) \cup With("maxCommandRetries", {0, 8})
    \cup With("normalUtilisation", {1, 60, 61}) \cup With("diagnosticUtilisation", {29, 100})
    \cup With("temperatureWarningC", {90}) \cup With("faultSamples", {1})
    \cup With("demoEnabled", {FALSE}) \cup With("c6Enabled", {TRUE})
    \cup {[Base EXCEPT !.daliTxGpio = t, !.daliRxGpio = 4] : t \in {4, 5}}
    \cup {[Base EXCEPT !.c6Enabled = TRUE, !.c6TxGpio = t, !.c6RxGpio = 6] : t \in {6, 7}}

MCScoring == [confirmedLampFailure |-> 80, confirmedGearFailure |-> 80,
              deviceMissing |-> 70, criticalTemperature |-> 60,
              intermittentFailure |-> 40, currentDeviation |-> 25,
              powerDeviation |-> 25, thermalWarning |-> 20,
              poorCommunication |-> 15, recoveryStep |-> 1]

MCNoResponse == [result |-> "none", value |-> 0, delayMs |-> 0]
MCEmptySlot == [result |-> "Timeout", value |-> 0, delayMs |-> 0]
MCNoConfig == [demoEnabled |-> FALSE]

MCNoAlarm == <<99, "none">>
MCAlarms ==
    {<<l, t>> : l \in 0 .. 4, t \in {"DeviceDiscovered", "DeviceMissing", "DeviceRecovered",
                                    "LampFailure", "ThermalWarning", "IntermittentFault"}}
===============================================================================
