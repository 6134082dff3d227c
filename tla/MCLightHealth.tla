---------------------------- MODULE MCLightHealth ----------------------------
EXTENDS LightHealth

\* The deductions of the code, and a recovery of five points a sample.
MCConfig == [confirmedLampFailure |-> 80, confirmedGearFailure |-> 80,
             deviceMissing |-> 70, criticalTemperature |-> 60,
             intermittentFailure |-> 40, currentDeviation |-> 25,
             powerDeviation |-> 25, thermalWarning |-> 20,
             poorCommunication |-> 15, recoveryStep |-> 5]

\* Samples of a healthy light, on and off, and those with one or two things wrong.
Faults ==
    {[CleanSample EXCEPT !.present = FALSE], [CleanSample EXCEPT !.lampFailure = TRUE],
     [CleanSample EXCEPT !.gearFailure = TRUE], [CleanSample EXCEPT !.thermal = "Critical"],
     [CleanSample EXCEPT !.thermal = "Warning"], [CleanSample EXCEPT !.powerDrift = TRUE],
     [CleanSample EXCEPT !.intermittentFault = TRUE],
     [CleanSample EXCEPT !.poorCommunication = TRUE]}
Doubled ==
    {[CleanSample EXCEPT !.lampFailure = TRUE, !.gearFailure = TRUE],
     [CleanSample EXCEPT !.lampFailure = TRUE, !.present = FALSE],
     [CleanSample EXCEPT !.gearFailure = TRUE, !.thermal = "Warning"],
     [CleanSample EXCEPT !.intermittentFault = TRUE, !.poorCommunication = TRUE]}
MCSamples ==
    {[s EXCEPT !.currentAbnormal = abnormal] : s \in Faults \cup {CleanSample}, abnormal \in BOOLEAN}
    \cup Doubled \cup {[CleanSample EXCEPT !.commandedOn = FALSE]}

\* Nothing but the current is ever wrong.
CurrentSamples == {[CleanSample EXCEPT !.currentAbnormal = abnormal] : abnormal \in BOOLEAN}
=============================================================================
