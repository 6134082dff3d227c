--------------------------- MODULE FaultPersistence ---------------------------
(***************************************************************************)
(* FaultPersistence: a warning and a fault that streaks of abnormal        *)
(* samples raise and a streak of healthy ones clears.  The streaks are     *)
(* counted in eight bits that stay at their limit.                         *)
(***************************************************************************)
EXTENDS Integers, Sequences

CONSTANTS
    WarningSamples, FaultSamples, RecoverySamples,  \* the constructor's arguments
    CountLimit                                      \* 255

ASSUME PersistenceAssumption ==
    /\ CountLimit \in Nat \ {0}
    /\ WarningSamples \in 1 .. CountLimit
    /\ FaultSamples \in 1 .. CountLimit
    /\ RecoverySamples \in 1 .. CountLimit

VARIABLES
    abnormalCount, consecutiveAbnormal, consecutiveHealthy,
    warningActive, faultActive

persistenceVars == <<abnormalCount, consecutiveAbnormal, consecutiveHealthy,
                     warningActive, faultActive>>

PersistenceInit ==
    /\ abnormalCount = 0 /\ consecutiveAbnormal = 0 /\ consecutiveHealthy = 0
    /\ warningActive = FALSE /\ faultActive = FALSE

PersistenceTypeOK ==
    /\ {abnormalCount, consecutiveAbnormal, consecutiveHealthy} \subseteq 0 .. CountLimit
    /\ {warningActive, faultActive} \subseteq BOOLEAN

Counted(n) == IF n < CountLimit THEN n + 1 ELSE n

\* Mutant of HealthyStreak: an abnormal sample does not end the streak.
HealthyStreakUnbroken(abnormal) ==
    IF abnormal THEN consecutiveHealthy ELSE Counted(consecutiveHealthy)

HealthyStreak(abnormal) == IF abnormal THEN 0 ELSE Counted(consecutiveHealthy)

Recovered(abnormal) == ~abnormal /\ HealthyStreak(abnormal) >= RecoverySamples

\* observe: one sample.  What it returns, whether the warning changed, is
\* warningActive' # warningActive.
Observe(abnormal) ==
    /\ abnormalCount' = IF abnormal THEN Counted(abnormalCount) ELSE 0
    /\ consecutiveAbnormal' = IF abnormal THEN Counted(consecutiveAbnormal) ELSE 0
    /\ consecutiveHealthy' = HealthyStreak(abnormal)
    /\ warningActive' = \/ abnormalCount' >= WarningSamples
                        \/ warningActive /\ ~Recovered(abnormal)
    /\ faultActive' = \/ consecutiveAbnormal' >= FaultSamples
                      \/ faultActive /\ ~Recovered(abnormal)
=============================================================================
