----------------------------- MODULE LightHealth -----------------------------
(***************************************************************************)
(* The health of one light: its samples go through the persistence of the  *)
(* current measurement, the diagnostic rules and the health score, in the  *)
(* order src/docs/architecture-and-integration.md:46 gives for the owner.  *)
(***************************************************************************)
EXTENDS FaultPersistence, FiniteSets

CONSTANTS
    Config,         \* HealthScoringConfig: the deductions and the recovery step
    Samples,        \* the samples the light may give
    Window          \* bound: how many samples the history keeps

HealthScoringConfig ==
    [{"confirmedLampFailure", "confirmedGearFailure", "deviceMissing",
      "criticalTemperature", "intermittentFailure", "currentDeviation",
      "powerDeviation", "thermalWarning", "poorCommunication", "recoveryStep"} -> Nat]

\* What is measured of a light; thermal is how its temperature compares with
\* the warning and the critical threshold.
Sample == [present : BOOLEAN, commandedOn : BOOLEAN, lampFailure : BOOLEAN,
           gearFailure : BOOLEAN, thermal : {"Normal", "Warning", "Critical"},
           currentAbnormal : BOOLEAN, powerDrift : BOOLEAN,
           intermittentFault : BOOLEAN, poorCommunication : BOOLEAN]

ASSUME HealthAssumption ==
    /\ Config \in HealthScoringConfig
    /\ Config.recoveryStep > 0
    /\ Samples \subseteq Sample
    /\ Window \in Nat
    /\ \A n \in {WarningSamples, FaultSamples, RecoverySamples} : Window >= n

\* The faults that make a light Failed or Missing take off so much that a single
\* step of recovery after them stays below 50, the limit under which it is due
\* for service; and so does a step from below 20.  The code has 80, 80, 70 and 60
\* points, and a step of one.
ASSUME SeverityAssumption ==
    /\ Config.recoveryStep <= 30
    /\ \A points \in {Config.confirmedLampFailure, Config.confirmedGearFailure,
                       Config.deviceMissing, Config.criticalTemperature} :
           points > 50 + Config.recoveryStep

LightState == {"Unknown", "Learning", "OffCommanded", "OnHealthy", "DimmedHealthy",
               "Warning", "ServiceRequired", "Failed", "Missing",
               "CommunicationFault", "Recovering"}

VARIABLES
    score,          \* score_
    state,          \* the state of the last evaluation
    diagnosis,      \* the result of the diagnostic rules on the last sample
    sample,         \* the last sample
    recent,         \* the latest samples of the current, abnormal or not
    mended          \* clean evaluations since the last lamp failure, up to FullRecovery

healthVars == <<score, state, diagnosis>>
vars == <<persistenceVars, healthVars, sample, recent, mended>>

CleanSample == [present |-> TRUE, commandedOn |-> TRUE, lampFailure |-> FALSE,
                gearFailure |-> FALSE, thermal |-> "Normal",
                currentAbnormal |-> FALSE, powerDrift |-> FALSE,
                intermittentFault |-> FALSE, poorCommunication |-> FALSE]

\* As many clean evaluations as recover any score.
FullRecovery == 100 \div Config.recoveryStep + 1

NoDiagnosis == [type |-> "HealthScoreChanged", critical |-> FALSE]

\* No lamp failure was ever seen, so nothing is left to recover.
Init ==
    /\ PersistenceInit
    /\ score = 100
    /\ state = "Unknown"
    /\ diagnosis = NoDiagnosis
    /\ sample = CleanSample
    /\ recent = <<>>
    /\ mended = FullRecovery

-----------------------------------------------------------------------------

\* What evaluate takes off for a sample, with the drift of the current as the
\* persistence reports it.
Deductions(s, currentDrift) ==
    LET If(condition, points) == IF condition THEN points ELSE 0 IN
      If(s.lampFailure, Config.confirmedLampFailure)
    + If(s.gearFailure, Config.confirmedGearFailure)
    + If(~s.present, Config.deviceMissing)
    + If(s.thermal = "Critical", Config.criticalTemperature)
    + If(s.thermal = "Warning", Config.thermalWarning)
    + If(s.intermittentFault, Config.intermittentFailure)
    + If(currentDrift, Config.currentDeviation)
    + If(s.powerDrift, Config.powerDeviation)
    + If(s.poorCommunication, Config.poorCommunication)

Floored(n) == IF n < 0 THEN 0 ELSE n

\* Mutant of Recovers: whatever is wrong now.
RecoversAnyway(deductions) == score < 100

\* Mutant of Recovers: only while a whole step fits under the full score.
RecoversShort(deductions) == deductions = 0 /\ score + 2 * Config.recoveryStep <= 100

\* The score only rises when nothing at all is taken off.
Recovers(deductions) == deductions = 0 /\ score < 100

\* The new score: down to the target or by the deductions, whichever is less
\* far; up by a step.
Rescored(deductions) ==
    LET target == Floored(100 - deductions) IN
    IF score > target
    THEN IF score - deductions > target THEN score - deductions ELSE target
    ELSE IF Recovers(deductions)
    THEN IF score + Config.recoveryStep < 100 THEN score + Config.recoveryStep ELSE 100
    ELSE score

\* Mutants of Classified: the gear is not looked at; the score is not looked at.
ClassifiedLampOnly(s, deductions, points) ==
    IF ~s.present THEN "Missing"
    ELSE IF s.lampFailure \/ s.thermal = "Critical" \/ points < 20 THEN "Failed"
    ELSE IF points < 50 THEN "ServiceRequired"
    ELSE IF deductions > 0 THEN "Warning"
    ELSE IF s.commandedOn THEN "OnHealthy" ELSE "OffCommanded"
ClassifiedUnscored(s, deductions, points) ==
    IF ~s.present THEN "Missing"
    ELSE IF s.lampFailure \/ s.gearFailure \/ s.thermal = "Critical" THEN "Failed"
    ELSE IF deductions > 0 THEN "Warning"
    ELSE IF s.commandedOn THEN "OnHealthy" ELSE "OffCommanded"

\* The state a sample and the new score put the light in.
Classified(s, deductions, points) ==
    IF ~s.present THEN "Missing"
    ELSE IF s.lampFailure \/ s.gearFailure \/ s.thermal = "Critical" \/ points < 20 THEN "Failed"
    ELSE IF points < 50 THEN "ServiceRequired"
    ELSE IF deductions > 0 THEN "Warning"
    ELSE IF s.commandedOn THEN "OnHealthy" ELSE "OffCommanded"

\* DiagnosticEngine::evaluate: the first rule that applies.
Diagnosed(s) ==
    LET result(type, critical) == [type |-> type, critical |-> critical] IN
    IF s.lampFailure THEN result("LampFailure", TRUE)
    ELSE IF s.gearFailure THEN result("ControlGearFailure", TRUE)
    ELSE IF ~s.present THEN result("DeviceMissing", TRUE)
    ELSE IF s.thermal = "Critical" THEN result("ThermalCritical", TRUE)
    ELSE IF s.thermal = "Warning" THEN result("ThermalWarning", FALSE)
    ELSE IF s.currentAbnormal \/ s.powerDrift THEN result("ElectricalDrift", FALSE)
    ELSE NoDiagnosis

-----------------------------------------------------------------------------

\* LightHealthEngine::evaluate.
Evaluate(s, currentDrift) ==
    LET deductions == Deductions(s, currentDrift) IN
    /\ score' = Rescored(deductions)
    /\ state' = Classified(s, deductions, score')

\* The histories of this step.
Remembered(s) ==
    /\ recent' = LET longer == Append(recent, s.currentAbnormal) IN
                 IF Len(longer) > Window THEN Tail(longer) ELSE longer
    /\ mended' = IF s.lampFailure THEN 0
                 ELSE IF Deductions(s, warningActive') = 0 /\ mended < FullRecovery
                 THEN mended + 1 ELSE mended

\* One sample of the light is taken and worked up.
Work(s) ==
    /\ Observe(s.currentAbnormal)
    /\ diagnosis' = Diagnosed(s)
    /\ Evaluate(s, warningActive')
    /\ sample' = s
    /\ Remembered(s)

Next == \E s \in Samples : Work(s)

\* Lights are sampled for ever.
Spec == Init /\ [][Next]_vars /\ WF_vars(Next)

-----------------------------------------------------------------------------

TypeOK ==
    /\ PersistenceTypeOK
    /\ score \in 0 .. 100
    /\ state \in LightState
    /\ diagnosis.critical \in BOOLEAN
    /\ sample \in Sample
    /\ recent \in Seq(BOOLEAN) /\ Len(recent) <= Window
    /\ mended \in 0 .. FullRecovery

\* The last n samples of the current were all abnormal, or all not.
Streak(samples, n, abnormal) ==
    /\ Len(samples) >= n
    /\ \A i \in Len(samples) - n + 1 .. Len(samples) : samples[i] = abnormal

\* What a step makes of the latches, by the samples it leaves behind.
LatchStep ==
    LET raised == Streak(recent', WarningSamples, TRUE)
        failed == Streak(recent', FaultSamples, TRUE)
        recovered == Streak(recent', RecoverySamples, FALSE)
    IN  /\ warningActive' = (raised \/ (warningActive /\ ~recovered))
        /\ faultActive' = (failed \/ (faultActive /\ ~recovered))

\* Warning and fault are raised by an unbroken streak of abnormal samples and by
\* nothing else, and cleared, both together, by one of healthy samples, however
\* the two kinds alternate and for how long a streak goes on.
LatchesFollowStreaks == [][LatchStep]_vars

\* The score remembers a lamp failure: from what it left, it takes as many clean
\* evaluations to come back as there are steps, whatever else happens meanwhile.
ScoreRemembers ==
    score <= Floored(100 - Config.confirmedLampFailure) + mended * Config.recoveryStep

\* A light that failed or went missing is not reported as working, not even with
\* a warning, by the next evaluation: it is in need of service first.
RecoveryThroughService ==
    [][(state \in {"Failed", "Missing"}) =>
            (state' \in {"Failed", "Missing", "ServiceRequired"})]_vars

\* The diagnostic rules and the health engine, which look at the same sample each
\* in its own order, agree on what is critical.
DiagnosticsAgree ==
    diagnosis.critical => state \in {"Failed", "Missing"}

\* Once nothing is wrong with a light any more it is healthy again, with a full
\* score, in the end.
FullHealthRegained ==
    LET clean == Deductions(sample, warningActive) = 0 IN
    <>[]clean => <>[](score = 100 /\ state \in {"OnHealthy", "OffCommanded"})

\* src/docs/superpowers/specs/2026-07-10-savantix-dali-edge-controller-design.md:207
\* "Statistical warnings use configurable sample persistence, defaulting to 3 of
\* 5 abnormal samples": with so many abnormal among the last five, there is a
\* warning.
WarningAfterThreeOfFive ==
    LET latest == {i \in 1 .. Len(recent) : i > Len(recent) - 5 /\ recent[i]}
    IN  Cardinality(latest) >= 3 => warningActive
=============================================================================
