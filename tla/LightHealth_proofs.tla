-------------------------- MODULE LightHealth_proofs --------------------------
(***************************************************************************)
(* The theorems about the health of a light, for all thresholds, widths of *)
(* the counters, weights and samples: the latches follow the streaks, the  *)
(* score remembers, a failed light comes back through service, and the     *)
(* diagnostic rules agree with the health engine.                          *)
(***************************************************************************)
EXTENDS LightHealth, SequenceTheorems, TLAPS

-----------------------------------------------------------------------------
(* Scores *)

LEMMA ConfigPoints ==
    /\ Config.confirmedLampFailure \in Nat /\ Config.confirmedGearFailure \in Nat
    /\ Config.deviceMissing \in Nat /\ Config.criticalTemperature \in Nat
    /\ Config.intermittentFailure \in Nat /\ Config.currentDeviation \in Nat
    /\ Config.powerDeviation \in Nat /\ Config.thermalWarning \in Nat
    /\ Config.poorCommunication \in Nat
    /\ Config.recoveryStep \in Nat \ {0}
BY HealthAssumption DEF HealthScoringConfig

\* What a sample costs, and that each severe fault alone costs its weight.
LEMMA DeductionsBounded ==
    ASSUME NEW s \in Sample, NEW drift \in BOOLEAN
    PROVE  /\ Deductions(s, drift) \in Nat
           /\ s.lampFailure => Deductions(s, drift) >= Config.confirmedLampFailure
           /\ s.gearFailure => Deductions(s, drift) >= Config.confirmedGearFailure
           /\ ~s.present => Deductions(s, drift) >= Config.deviceMissing
           /\ s.thermal = "Critical" => Deductions(s, drift) >= Config.criticalTemperature
<1> DEFINE If(condition, points) == IF condition THEN points ELSE 0
<1>1. \A c, n : n \in Nat => If(c, n) \in Nat /\ (c => If(c, n) = n)
  OBVIOUS
<1>2. PICK lamp, gear, missing, critical, warm, flicker, current, power, comm :
        /\ lamp = If(s.lampFailure, Config.confirmedLampFailure)
        /\ gear = If(s.gearFailure, Config.confirmedGearFailure)
        /\ missing = If(~s.present, Config.deviceMissing)
        /\ critical = If(s.thermal = "Critical", Config.criticalTemperature)
        /\ warm = If(s.thermal = "Warning", Config.thermalWarning)
        /\ flicker = If(s.intermittentFault, Config.intermittentFailure)
        /\ current = If(drift, Config.currentDeviation)
        /\ power = If(s.powerDrift, Config.powerDeviation)
        /\ comm = If(s.poorCommunication, Config.poorCommunication)
  OBVIOUS
<1>3. Deductions(s, drift) = lamp + gear + missing + critical + warm + flicker
                             + current + power + comm
  BY <1>2 DEF Deductions
<1> HIDE DEF If
<1>4. /\ lamp \in Nat /\ gear \in Nat /\ missing \in Nat /\ critical \in Nat /\ warm \in Nat
      /\ flicker \in Nat /\ current \in Nat /\ power \in Nat /\ comm \in Nat
  BY <1>1, <1>2, ConfigPoints
<1>5. /\ s.lampFailure => lamp = Config.confirmedLampFailure
      /\ s.gearFailure => gear = Config.confirmedGearFailure
      /\ ~s.present => missing = Config.deviceMissing
      /\ s.thermal = "Critical" => critical = Config.criticalTemperature
  BY <1>1, <1>2, ConfigPoints
<1> QED  BY <1>3, <1>4, <1>5

\* As many steps as make a full recovery are worth the full score.
LEMMA FullRecoveryRecovers ==
    /\ FullRecovery \in Nat
    /\ FullRecovery * Config.recoveryStep >= 100
<1>1. PICK s \in Nat \ {0} : s = Config.recoveryStep
  BY ConfigPoints
<1>2. PICK q \in Nat, r \in 0 .. s - 1 : q = 100 \div s /\ 100 = s * q + r
  <2>1. 100 \div s \in Nat /\ 100 % s \in 0 .. s - 1
    OBVIOUS
  <2>2. 100 = s * (100 \div s) + (100 % s)
    OBVIOUS
  <2> QED  BY <2>1, <2>2
<1>3. (q + 1) * s = s * q + s
  OBVIOUS
<1>4. FullRecovery = q + 1
  BY <1>1, <1>2 DEF FullRecovery
<1> QED  BY <1>1, <1>2, <1>3, <1>4

\* What the score becomes: at once what a sample leaves of a full score, if it
\* was above that; up by a step when nothing is taken off; else as it was.
LEMMA RescoredIs ==
    ASSUME score \in 0 .. 100, NEW d \in Nat
    PROVE  /\ Rescored(d) \in 0 .. 100
           /\ Rescored(d) <= Floored(100 - d) \/ Rescored(d) <= score + Config.recoveryStep
           /\ d > 0 => Rescored(d) <= Floored(100 - d) /\ Rescored(d) <= score
           /\ d = 0 => Rescored(d) <= score + Config.recoveryStep
<1> USE ConfigPoints
<1> QED  BY DEF Rescored, Recovers, Floored

-----------------------------------------------------------------------------
(* Types *)

LEMMA PersistenceTyped ==
    ASSUME PersistenceTypeOK, NEW abnormal \in BOOLEAN, Observe(abnormal)
    PROVE  PersistenceTypeOK'
BY PersistenceAssumption
DEF PersistenceTypeOK, Observe, Counted, HealthyStreak, Recovered

\* The history with one more sample, of which the oldest is dropped beyond Window.
Pushed(samples, abnormal) ==
    LET longer == Append(samples, abnormal) IN
    IF Len(longer) > Window THEN Tail(longer) ELSE longer

LEMMA PushedIs ==
    ASSUME NEW samples \in Seq(BOOLEAN), Len(samples) <= Window, NEW b \in BOOLEAN
    PROVE  /\ Pushed(samples, b) \in Seq(BOOLEAN)
           /\ Len(Pushed(samples, b)) = IF Len(samples) < Window THEN Len(samples) + 1 ELSE Window
           /\ Pushed(samples, b)[Len(Pushed(samples, b))] = b
           /\ \A k \in 1 .. Len(Pushed(samples, b)) - 1 :
                Pushed(samples, b)[Len(Pushed(samples, b)) - k] = samples[Len(samples) - k + 1]
<1>1. Window \in Nat \ {0}
  BY HealthAssumption, PersistenceAssumption
<1>2. PICK longer : longer = Append(samples, b)
  OBVIOUS
<1>3. PICK n \in Nat : n = Len(samples)
  OBVIOUS
<1>4. /\ longer \in Seq(BOOLEAN) /\ Len(longer) = n + 1 /\ longer[n + 1] = b
      /\ \A i \in 1 .. n : longer[i] = samples[i]
  BY <1>2, <1>3, AppendProperties
<1>5. CASE n < Window
  <2>1. Pushed(samples, b) = longer
    BY <1>1, <1>2, <1>4, <1>5 DEF Pushed
  <2>2. \A k \in 1 .. n : longer[n + 1 - k] = samples[n - k + 1]
    BY <1>4
  <2> QED  BY <1>3, <1>4, <1>5, <2>1, <2>2
<1>6. CASE n = Window
  <2>1. longer # << >>
    BY <1>4, <1>1, <1>6, EmptySeq
  <2>2. PICK t : t = Tail(longer)
    OBVIOUS
  <2>3. t \in Seq(BOOLEAN) /\ Len(t) = n /\ \A i \in 1 .. n : t[i] = longer[i + 1]
    BY <1>4, <2>1, <2>2, HeadTailProperties
  <2>4. Pushed(samples, b) = t
    BY <1>1, <1>2, <1>4, <1>6, <2>2 DEF Pushed
  <2>5. t[n] = b
    BY <1>1, <1>4, <1>6, <2>3
  <2>6. \A k \in 1 .. n - 1 : t[n - k] = samples[n - k + 1]
    <3> TAKE k \in 1 .. n - 1
    <3>1. n - k \in 1 .. n /\ n - k + 1 \in 1 .. n
      OBVIOUS
    <3> QED  BY <3>1, <1>4, <2>3
  <2> QED
    <3>1. /\ t \in Seq(BOOLEAN) /\ Len(t) = Window /\ t[Len(t)] = b
          /\ \A k \in 1 .. Len(t) - 1 : t[Len(t) - k] = samples[n - k + 1]
      BY <1>6, <2>3, <2>5, <2>6
    <3> QED  BY <3>1, <2>4, <1>3, <1>6
<1> QED  BY <1>1, <1>3, <1>5, <1>6

LEMMA RememberedIs ==
    ASSUME NEW s \in Sample, Remembered(s)
    PROVE  recent' = Pushed(recent, s.currentAbnormal)
BY DEF Remembered, Pushed

LEMMA TypeStep ==
    ASSUME TypeOK, [Next]_vars
    PROVE  TypeOK'
<1>1. ASSUME NEW s \in Samples, Work(s)
      PROVE  TypeOK'
  <2>1. s \in Sample /\ s.currentAbnormal \in BOOLEAN
    BY HealthAssumption DEF Sample
  <2>2. PersistenceTypeOK'
    BY <1>1, <2>1, PersistenceTyped DEF TypeOK, Work
  <2>3. warningActive' \in BOOLEAN
    BY <2>2 DEF PersistenceTypeOK
  <2>4. Deductions(s, warningActive') \in Nat
    BY <2>1, <2>3, DeductionsBounded
  <2>5. score' \in 0 .. 100
    BY <1>1, <2>4, RescoredIs DEF TypeOK, Work, Evaluate
  <2>6. state' \in LightState
    BY <1>1 DEF Work, Evaluate, Classified, LightState
  <2>7. (diagnosis.critical \in BOOLEAN)'
    BY <1>1 DEF Work, Diagnosed, NoDiagnosis
  <2>8. sample' \in Sample
    BY <1>1, <2>1 DEF Work
  <2>9. (recent \in Seq(BOOLEAN) /\ Len(recent) <= Window)'
    BY <1>1, <2>1, RememberedIs, PushedIs, HealthAssumption DEF TypeOK, Work
  <2>10. (mended \in 0 .. FullRecovery)'
    BY <1>1, FullRecoveryRecovers DEF TypeOK, Work, Remembered, FullRecovery
  <2> QED  BY <2>2, <2>5, <2>6, <2>7, <2>8, <2>9, <2>10 DEF TypeOK
<1>2. CASE UNCHANGED vars
  BY <1>2 DEF TypeOK, PersistenceTypeOK, vars, persistenceVars, healthVars
<1> QED  BY <1>1, <1>2 DEF Next

LEMMA InitTyped ==
    ASSUME Init
    PROVE  TypeOK
<1>1. PersistenceTypeOK
  <2>1. {abnormalCount, consecutiveAbnormal, consecutiveHealthy} \subseteq 0 .. CountLimit
    BY PersistenceAssumption DEF Init, PersistenceInit
  <2>2. {warningActive, faultActive} \subseteq BOOLEAN
    BY DEF Init, PersistenceInit
  <2> QED  BY <2>1, <2>2 DEF PersistenceTypeOK
<1>2. CleanSample \in Sample
  BY DEF CleanSample, Sample
<1>3. recent \in Seq(BOOLEAN) /\ Len(recent) <= Window
  BY HealthAssumption DEF Init
<1> QED  BY <1>1, <1>2, <1>3, FullRecoveryRecovers DEF Init, TypeOK, LightState, NoDiagnosis

\* Whatever a light gives for samples, the score stays in 0 .. 100 and the
\* counters within their width.
THEOREM TypeCorrect == Spec => []TypeOK
<1>1. Init => TypeOK
  BY InitTyped
<1>2. TypeOK /\ [Next]_vars => TypeOK'
  BY TypeStep
<1> QED  BY <1>1, <1>2, PTL DEF Spec

-----------------------------------------------------------------------------
(* The memory of the score *)

LEMMA RememberStep ==
    ASSUME TypeOK, ScoreRemembers, [Next]_vars
    PROVE  ScoreRemembers'
<1>1. ASSUME NEW s \in Samples, Work(s)
      PROVE  ScoreRemembers'
  <2>1. s \in Sample
    BY HealthAssumption
  <2>2. PICK d : d = Deductions(s, warningActive')
    OBVIOUS
  <2>3. warningActive' \in BOOLEAN
    BY <1>1, TypeStep DEF TypeOK, PersistenceTypeOK, Next
  <2>4. d \in Nat /\ (s.lampFailure => d >= Config.confirmedLampFailure)
    BY <2>1, <2>2, <2>3, DeductionsBounded
  <2>5. PICK step \in Nat, floor \in Nat, lamp \in Nat :
          /\ step = Config.recoveryStep /\ lamp = Config.confirmedLampFailure
          /\ floor = Floored(100 - lamp)
    <3>1. Config.recoveryStep \in Nat /\ Config.confirmedLampFailure \in Nat
      BY ConfigPoints
    <3>2. Floored(100 - Config.confirmedLampFailure) \in Nat
      BY <3>1 DEF Floored
    <3> QED  BY <3>1, <3>2, Zenon
  <2>6. /\ score \in 0 .. 100 /\ mended \in 0 .. FullRecovery
        /\ score <= floor + mended * step
    BY <2>5 DEF TypeOK, ScoreRemembers
  <2>7. /\ score' \in 0 .. 100
        /\ d > 0 => score' <= Floored(100 - d) /\ score' <= score
        /\ d = 0 => score' <= score + step
    BY <1>1, <2>2, <2>4, <2>5, <2>6, RescoredIs DEF Work, Evaluate
  <2>8. mended' = IF s.lampFailure THEN 0
                  ELSE IF d = 0 /\ mended < FullRecovery THEN mended + 1 ELSE mended
    BY <1>1, <2>2 DEF Work, Remembered
  <2>9. score' <= floor + mended' * step
    <3>1. CASE s.lampFailure
      <4>1. mended' * step = 0
        BY <3>1, <2>8
      <4>2. score' <= floor
        BY <3>1, <2>4, <2>5, <2>7 DEF Floored
      <4> QED  BY <4>1, <4>2, <2>5
    <3>2. CASE ~s.lampFailure /\ d = 0 /\ mended < FullRecovery
      <4>1. (mended + 1) * step = mended * step + step
        BY <2>6, FullRecoveryRecovers
      <4>2. mended * step \in Nat
        BY <2>6, FullRecoveryRecovers
      <4> QED  BY <4>1, <4>2, <3>2, <2>5, <2>6, <2>7, <2>8
    <3>3. CASE ~s.lampFailure /\ d = 0 /\ ~(mended < FullRecovery)
      <4>1. mended' = FullRecovery
        BY <3>3, <2>6, <2>8, FullRecoveryRecovers
      <4> QED  BY <4>1, <2>5, <2>7, FullRecoveryRecovers
    <3>4. CASE ~s.lampFailure /\ d # 0
      <4>1. mended * step \in Nat /\ mended' = mended
        BY <3>4, <2>6, <2>8, FullRecoveryRecovers
      <4> QED  BY <4>1, <3>4, <2>4, <2>5, <2>6, <2>7
    <3> QED  BY <3>1, <3>2, <3>3, <3>4
  <2> QED  BY <2>5, <2>9 DEF ScoreRemembers
<1>2. CASE UNCHANGED vars
  BY <1>2 DEF ScoreRemembers, vars, healthVars
<1> QED  BY <1>1, <1>2 DEF Next

\* From what a lamp failure left of the score it takes as many clean evaluations
\* to come back as there are steps: LightHealthEngine::evaluate raises the score
\* by one step at a time, and only when nothing is deducted.
THEOREM ScoreCorrect == Spec => []ScoreRemembers
<1>1. Init => TypeOK /\ ScoreRemembers
  <2> SUFFICES ASSUME Init
               PROVE  ScoreRemembers
    BY InitTyped
  <2>1. PICK worth \in Nat : worth = FullRecovery * Config.recoveryStep /\ worth >= 100
    BY FullRecoveryRecovers, ConfigPoints
  <2> QED  BY <2>1, ConfigPoints DEF Init, ScoreRemembers, Floored
<1>2. TypeOK /\ ScoreRemembers /\ [Next]_vars => TypeOK' /\ ScoreRemembers'
  BY TypeStep, RememberStep
<1> QED  BY <1>1, <1>2, PTL DEF Spec

-----------------------------------------------------------------------------
(* Diagnosis and health *)

\* DiagnosticEngine and LightHealthEngine agree on what is critical, by two lists
\* of rules in two orders.
THEOREM AgreementCorrect == Spec => []DiagnosticsAgree
<1>1. Init => DiagnosticsAgree
  BY DEF Init, NoDiagnosis, DiagnosticsAgree
<1>2. DiagnosticsAgree /\ [Next]_vars => DiagnosticsAgree'
  <2> SUFFICES ASSUME DiagnosticsAgree, [Next]_vars
               PROVE  DiagnosticsAgree'
    OBVIOUS
  <2>1. ASSUME NEW s \in Samples, Work(s)
        PROVE  DiagnosticsAgree'
    <3>1. diagnosis' = Diagnosed(s)
      BY <2>1 DEF Work
    <3>2. PICK d, points : state' = Classified(s, d, points)
      BY <2>1 DEF Work, Evaluate
    <3>3. Diagnosed(s).critical =>
            s.lampFailure \/ s.gearFailure \/ ~s.present \/ s.thermal = "Critical"
      BY DEF Diagnosed, NoDiagnosis
    <3>4. s.lampFailure \/ s.gearFailure \/ ~s.present \/ s.thermal = "Critical" =>
            state' \in {"Failed", "Missing"}
      BY <3>2 DEF Classified
    <3> QED  BY <3>1, <3>3, <3>4 DEF DiagnosticsAgree
  <2>2. CASE UNCHANGED vars
    BY <2>2 DEF DiagnosticsAgree, vars, healthVars
  <2> QED  BY <2>1, <2>2 DEF Next
<1> QED  BY <1>1, <1>2, PTL DEF Spec

\* A light in one of the two states of failure has a score that one step of
\* recovery does not bring out of the range that is due for service.
ServiceDue == state \in {"Failed", "Missing"} => score + Config.recoveryStep < 50

LEMMA ServiceStep ==
    ASSUME TypeOK, ServiceDue, NEW s \in Samples, Work(s)
    PROVE  /\ ServiceDue'
           /\ state \in {"Failed", "Missing"} =>
                state' \in {"Failed", "Missing", "ServiceRequired"}
<1>1. s \in Sample
  BY HealthAssumption
<1>2. warningActive' \in BOOLEAN
  BY TypeStep DEF TypeOK, PersistenceTypeOK, Next
<1>3. PICK d \in Nat : d = Deductions(s, warningActive')
  BY <1>1, <1>2, DeductionsBounded
<1>4. /\ score \in 0 .. 100 /\ score' \in 0 .. 100
      /\ d > 0 => score' <= Floored(100 - d) /\ score' <= score
      /\ d = 0 => score' <= score + Config.recoveryStep
  BY <1>3, RescoredIs DEF TypeOK, Work, Evaluate
<1>5. state' = Classified(s, d, score')
  BY <1>3 DEF Work, Evaluate
<1>6. Config.recoveryStep \in 1 .. 30
  BY ConfigPoints, SeverityAssumption
<1>7. (s.lampFailure \/ s.gearFailure \/ ~s.present \/ s.thermal = "Critical") =>
        d > 50 + Config.recoveryStep
  BY <1>1, <1>2, <1>3, <1>6, DeductionsBounded, SeverityAssumption, ConfigPoints
<1>8. ServiceDue'
  <2>1. d > 50 + Config.recoveryStep => score' + Config.recoveryStep < 50
    BY <1>3, <1>4, <1>6 DEF Floored
  <2>2. score' < 20 => score' + Config.recoveryStep < 50
    BY <1>4, <1>6
  <2>3. state' \in {"Failed", "Missing"} =>
          \/ s.lampFailure \/ s.gearFailure \/ ~s.present \/ s.thermal = "Critical"
          \/ score' < 20
    BY <1>5 DEF Classified
  <2> QED  BY <2>1, <2>2, <2>3, <1>7 DEF ServiceDue
<1>9. score' < 50 => state' \in {"Failed", "Missing", "ServiceRequired"}
  BY <1>5 DEF Classified
<1>10. state \in {"Failed", "Missing"} => score' < 50
  BY <1>3, <1>4, <1>6 DEF ServiceDue
<1> QED  BY <1>8, <1>9, <1>10

\* A light that failed or went missing is due for service before it is working
\* again, because evaluate looks at the remembered score after the present sample.
THEOREM RecoveryCorrect == Spec => RecoveryThroughService
<1> DEFINE Comeback == (state \in {"Failed", "Missing"}) =>
                         (state' \in {"Failed", "Missing", "ServiceRequired"})
<1>1. Init => TypeOK /\ ServiceDue
  BY InitTyped DEF Init, ServiceDue
<1>2. TypeOK /\ ServiceDue /\ [Next]_vars => TypeOK' /\ ServiceDue' /\ [Comeback]_vars
  <2> SUFFICES ASSUME TypeOK, ServiceDue, [Next]_vars
               PROVE  ServiceDue' /\ [Comeback]_vars
    BY TypeStep
  <2>1. CASE Next
    BY <2>1, ServiceStep DEF Next
  <2>2. CASE UNCHANGED vars
    BY <2>2 DEF ServiceDue, vars, healthVars
  <2> QED  BY <2>1, <2>2
<1> QED  BY <1>1, <1>2, PTL DEF Spec, RecoveryThroughService

-----------------------------------------------------------------------------
(* Latches and streaks *)

LEMMA NoStreak ==
    ASSUME NEW samples \in Seq(BOOLEAN), NEW kind
    PROVE  Streak(samples, 0, kind)
BY DEF Streak

\* One more sample makes a streak longer, if it is of its kind, and ends it if not.
LEMMA StreakGrows ==
    ASSUME NEW samples \in Seq(BOOLEAN), Len(samples) <= Window, NEW b \in BOOLEAN,
           NEW n \in 1 .. Window, NEW kind \in BOOLEAN
    PROVE  Streak(Pushed(samples, b), n, kind) <=> b = kind /\ Streak(samples, n - 1, kind)
<1>1. PICK l \in Nat, w \in Nat : l = Len(samples) /\ w = Window /\ l <= w /\ n \in 1 .. w
  BY HealthAssumption
<1>2. PICK p \in Seq(BOOLEAN) : p = Pushed(samples, b)
  BY PushedIs
<1>3. PICK m \in Nat :
        /\ m = Len(p)
        /\ m = IF l < w THEN l + 1 ELSE w
        /\ p[m] = b
        /\ \A k \in 1 .. m - 1 : p[m - k] = samples[l - k + 1]
  <2>1. PICK m \in Nat : m = Len(p)
    BY <1>2
  <2>2. /\ Len(Pushed(samples, b)) = IF Len(samples) < Window THEN Len(samples) + 1 ELSE Window
        /\ Pushed(samples, b)[Len(Pushed(samples, b))] = b
        /\ \A k \in 1 .. Len(Pushed(samples, b)) - 1 :
             Pushed(samples, b)[Len(Pushed(samples, b)) - k] = samples[Len(samples) - k + 1]
    BY PushedIs
  <2>3. /\ Len(p) = IF Len(samples) < Window THEN Len(samples) + 1 ELSE Window
        /\ p[Len(p)] = b
        /\ \A k \in 1 .. Len(p) - 1 : p[Len(p) - k] = samples[Len(samples) - k + 1]
    BY <1>2, <2>2, Zenon
  <2> QED  BY <1>1, <2>1, <2>3
<1>4. m >= n <=> l >= n - 1
  BY <1>1, <1>3
<1>5. ASSUME Streak(p, n, kind)
      PROVE  b = kind /\ Streak(samples, n - 1, kind)
  <2>1. m >= n /\ \A i \in m - n + 1 .. m : p[i] = kind
    BY <1>3, <1>5 DEF Streak
  <2>2. b = kind
    <3>1. m \in m - n + 1 .. m
      BY <1>1, <1>3
    <3> QED  BY <1>3, <2>1, <3>1
  <2>3. \A j \in l - (n - 1) + 1 .. l : samples[j] = kind
    <3> TAKE j \in l - (n - 1) + 1 .. l
    <3>1. PICK k : k = l - j + 1
      OBVIOUS
    <3>2. k \in 1 .. m - 1 /\ m - k \in m - n + 1 .. m /\ l - k + 1 = j
      BY <1>1, <1>3, <1>4, <2>1, <3>1
    <3> QED  BY <1>3, <2>1, <3>2
  <2> QED  BY <1>1, <1>4, <2>1, <2>2, <2>3 DEF Streak
<1>6. ASSUME b = kind, Streak(samples, n - 1, kind)
      PROVE  Streak(p, n, kind)
  <2>1. l >= n - 1 /\ \A j \in l - (n - 1) + 1 .. l : samples[j] = kind
    BY <1>1, <1>6 DEF Streak
  <2>2. \A i \in m - n + 1 .. m : p[i] = kind
    <3> TAKE i \in m - n + 1 .. m
    <3>1. CASE i = m
      BY <3>1, <1>3, <1>6
    <3>2. CASE i # m
      <4>1. PICK k : k = m - i
        OBVIOUS
      <4>2. k \in 1 .. m - 1 /\ l - k + 1 \in l - (n - 1) + 1 .. l /\ m - k = i
        <5>1. m >= n
          BY <1>4, <2>1
        <5>2. l - n <= m - n /\ i <= m - 1 /\ m - n + 1 <= i
          BY <3>2, <1>1, <1>3
        <5> QED  BY <1>1, <4>1, <5>1, <5>2
      <4> QED  BY <1>3, <2>1, <4>2
    <3> QED  BY <3>1, <3>2
  <2> QED  BY <1>3, <1>4, <2>1, <2>2 DEF Streak
<1> QED  BY <1>2, <1>5, <1>6

\* As far as the window reaches and a counter counts, the counters tell how long
\* the streaks are.
StreaksCounted ==
    \A n \in 1 .. Window : n <= CountLimit =>
        /\ abnormalCount >= n <=> Streak(recent, n, TRUE)
        /\ consecutiveAbnormal >= n <=> Streak(recent, n, TRUE)
        /\ consecutiveHealthy >= n <=> Streak(recent, n, FALSE)

LEMMA CountStep ==
    ASSUME NEW c \in 0 .. CountLimit, NEW n \in Nat, 1 <= n, n <= CountLimit
    PROVE  Counted(c) >= n <=> c >= n - 1
BY PersistenceAssumption DEF Counted

LEMMA StreaksStep ==
    ASSUME TypeOK, StreaksCounted, NEW s \in Samples, Work(s)
    PROVE  StreaksCounted'
<1>1. PICK b \in BOOLEAN : b = s.currentAbnormal
  BY HealthAssumption DEF Sample
<1>2. recent' = Pushed(recent, b)
  BY <1>1, RememberedIs, HealthAssumption DEF Work
<1>3. /\ recent \in Seq(BOOLEAN) /\ Len(recent) <= Window
      /\ abnormalCount \in 0 .. CountLimit /\ consecutiveAbnormal \in 0 .. CountLimit
      /\ consecutiveHealthy \in 0 .. CountLimit
  BY DEF TypeOK, PersistenceTypeOK
<1>4. /\ abnormalCount' = IF b THEN Counted(abnormalCount) ELSE 0
      /\ consecutiveAbnormal' = IF b THEN Counted(consecutiveAbnormal) ELSE 0
      /\ consecutiveHealthy' = IF b THEN 0 ELSE Counted(consecutiveHealthy)
  BY <1>1 DEF Work, Observe, HealthyStreak
<1> SUFFICES ASSUME NEW n \in 1 .. Window, n <= CountLimit
             PROVE  /\ abnormalCount' >= n <=> Streak(recent', n, TRUE)
                    /\ consecutiveAbnormal' >= n <=> Streak(recent', n, TRUE)
                    /\ consecutiveHealthy' >= n <=> Streak(recent', n, FALSE)
  BY DEF StreaksCounted
<1>5. n \in Nat /\ 1 <= n
  BY HealthAssumption
<1>6. /\ Streak(recent', n, TRUE) <=> b = TRUE /\ Streak(recent, n - 1, TRUE)
      /\ Streak(recent', n, FALSE) <=> b = FALSE /\ Streak(recent, n - 1, FALSE)
  BY <1>2, <1>3, StreakGrows
<1>7. /\ abnormalCount >= n - 1 <=> Streak(recent, n - 1, TRUE)
      /\ consecutiveAbnormal >= n - 1 <=> Streak(recent, n - 1, TRUE)
      /\ consecutiveHealthy >= n - 1 <=> Streak(recent, n - 1, FALSE)
  <2>1. CASE n = 1
    <3>1. Streak(recent, 0, TRUE) /\ Streak(recent, 0, FALSE)
      BY <1>3, NoStreak
    <3>2. abnormalCount >= 0 /\ consecutiveAbnormal >= 0 /\ consecutiveHealthy >= 0
      BY <1>3, PersistenceAssumption
    <3>3. n - 1 = 0
      BY <2>1
    <3> QED  BY <3>1, <3>2, <3>3
  <2>2. CASE n # 1
    <3>1. PICK k \in 1 .. Window : k = n - 1 /\ k <= CountLimit
      BY <2>2, <1>5, HealthAssumption, PersistenceAssumption
    <3> QED  BY <3>1 DEF StreaksCounted
  <2> QED  BY <2>1, <2>2
<1>8. CASE b
  <2>1. /\ abnormalCount' >= n <=> abnormalCount >= n - 1
        /\ consecutiveAbnormal' >= n <=> consecutiveAbnormal >= n - 1
        /\ ~ (consecutiveHealthy' >= n)
    BY <1>3, <1>4, <1>5, <1>8, CountStep
  <2> QED  BY <2>1, <1>6, <1>7, <1>8
<1>9. CASE ~b
  <2>1. /\ consecutiveHealthy' >= n <=> consecutiveHealthy >= n - 1
        /\ ~ (abnormalCount' >= n) /\ ~ (consecutiveAbnormal' >= n)
    BY <1>3, <1>4, <1>5, <1>9, CountStep
  <2> QED  BY <2>1, <1>6, <1>7, <1>9
<1> QED  BY <1>8, <1>9

LEMMA LatchesStep ==
    ASSUME TypeOK, StreaksCounted', NEW s \in Samples, Work(s)
    PROVE  LatchStep
<1>1. PICK b \in BOOLEAN : b = s.currentAbnormal
  BY HealthAssumption DEF Sample
<1>2. PICK w \in 1 .. Window, f \in 1 .. Window, r \in 1 .. Window :
        /\ w = WarningSamples /\ f = FaultSamples /\ r = RecoverySamples
        /\ w <= CountLimit /\ f <= CountLimit /\ r <= CountLimit
  BY HealthAssumption, PersistenceAssumption
<1>3. /\ abnormalCount' >= w <=> Streak(recent', w, TRUE)
      /\ consecutiveAbnormal' >= f <=> Streak(recent', f, TRUE)
      /\ consecutiveHealthy' >= r <=> Streak(recent', r, FALSE)
  BY <1>2 DEF StreaksCounted
<1>4. Recovered(b) <=> consecutiveHealthy' >= r
  <2>1. consecutiveHealthy' = HealthyStreak(b)
    BY <1>1 DEF Work, Observe
  <2>2. b => ~ (consecutiveHealthy' >= r)
    BY <1>2, <2>1, HealthAssumption DEF HealthyStreak
  <2> QED  BY <1>2, <2>1, <2>2 DEF Recovered
<1>5. /\ warningActive' = (abnormalCount' >= w \/ (warningActive /\ ~Recovered(b)))
      /\ faultActive' = (consecutiveAbnormal' >= f \/ (faultActive /\ ~Recovered(b)))
  BY <1>1, <1>2 DEF Work, Observe
<1> QED  BY <1>2, <1>3, <1>4, <1>5 DEF LatchStep

\* FaultPersistence::observe raises its latches by unbroken streaks of abnormal
\* samples only and clears them by one of healthy ones, for streaks of any length.
THEOREM LatchesCorrect == Spec => LatchesFollowStreaks
<1>1. Init => TypeOK /\ StreaksCounted
  <2> SUFFICES ASSUME Init, NEW n \in 1 .. Window
               PROVE  /\ ~ (0 >= n)
                      /\ ~ Streak(recent, n, TRUE) /\ ~ Streak(recent, n, FALSE)
    BY InitTyped DEF StreaksCounted, Init, PersistenceInit
  <2>1. n \in Nat /\ 1 <= n /\ Len(recent) = 0
    BY HealthAssumption DEF Init
  <2> QED  BY <2>1 DEF Streak
<1>2. TypeOK /\ StreaksCounted /\ [Next]_vars =>
        TypeOK' /\ StreaksCounted' /\ [LatchStep]_vars
  <2> SUFFICES ASSUME TypeOK, StreaksCounted, [Next]_vars
               PROVE  StreaksCounted' /\ [LatchStep]_vars
    BY TypeStep
  <2>1. CASE Next
    BY <2>1, StreaksStep, LatchesStep DEF Next
  <2>2. CASE UNCHANGED vars
    BY <2>2 DEF StreaksCounted, Streak, vars, persistenceVars
  <2> QED  BY <2>1, <2>2
<1> QED  BY <1>1, <1>2, PTL DEF Spec, LatchesFollowStreaks
===============================================================================
