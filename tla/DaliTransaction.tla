---------------------------- MODULE DaliTransaction ----------------------------
(***************************************************************************)
(* The stateless part of the transaction layer of components/dali_protocol *)
(* (dali_transaction.cpp, pipeline_query_client.cpp): the verdicts of the  *)
(* PHY, which of them are retried and after how long, how a transaction is *)
(* closed, how the quality counters classify it and what a query client    *)
(* and a controller make of it.                                            *)
(***************************************************************************)
EXTENDS Integers

CONSTANTS
    AbsoluteMaxRetries,         \* kAbsoluteMaxRetries, 8 in the code
    CounterMax                  \* UINT32_MAX, where the counters saturate

ASSUME TransactionAssumption ==
    /\ AbsoluteMaxRetries \in Nat
    /\ CounterMax \in Nat \ {0}

MaximumJitterMs == 25           \* kMaximumJitterMs

-----------------------------------------------------------------------------
(* Results and statuses.                                                   *)

PhyResult ==
    {"Ok", "Timeout", "Busy", "Collision", "BusPowerLost", "TransceiverFault",
     "InvalidArgument", "NotInitialised", "InternalError"}

TransactionStatus ==
    {"Ok", "RetriesExhausted", "InvalidRequest", "BusPowerLost",
     "TransceiverFault", "NotInitialised", "InternalError"}

\* isRetryable: only these may be followed by another attempt.
IsRetryable(result) == result \in {"Timeout", "Busy", "Collision"}

\* baseRetryDelayMs: the wait after the attempt with this index.
BaseRetryDelayMs(retryIndex) ==
    CASE retryIndex = 0 -> 100
      [] retryIndex = 1 -> 500
      [] OTHER          -> 2000

\* mapTerminalStatus, for the results that end a transaction at once.
MapTerminalStatus(result) ==
    CASE result = "InvalidArgument" -> "InvalidRequest"
      [] IsRetryable(result)        -> "RetriesExhausted"
      [] OTHER                      -> result

\* Mutant of IsExecutable: the hard retry limit is not checked.
IsExecutableUnlimited(request) == request.timeoutMs # 0

\* The check execute makes before it touches the bus.
IsExecutable(request) ==
    /\ request.timeoutMs # 0
    /\ request.maxRetries <= AbsoluteMaxRetries

-----------------------------------------------------------------------------
(* Communication quality.                                                  *)

FailureCounters ==
    {"timeouts", "collisions", "busy", "busPowerLosses", "transceiverFaults",
     "otherFailures"}

CounterNames == {"total", "successes"} \cup FailureCounters

NoCounts == [name \in CounterNames |-> 0]

\* Which counter, next to total, one recorded transaction increments.
CounterFor(status, lastPhyResult) ==
    CASE status = "Ok"                        -> "successes"
      [] lastPhyResult = "Timeout"            -> "timeouts"
      [] lastPhyResult = "Collision"          -> "collisions"
      [] lastPhyResult = "Busy"               -> "busy"
      [] lastPhyResult = "BusPowerLost"       -> "busPowerLosses"
      [] lastPhyResult = "TransceiverFault"   -> "transceiverFaults"
      [] OTHER                                -> "otherFailures"

\* Mutant of Saturating: the counter wraps.
Wrapping(value) == IF value = CounterMax THEN 0 ELSE value + 1

\* incrementSaturating.
Saturating(value) == IF value = CounterMax THEN value ELSE value + 1

\* CommunicationQualityTracker::record.
Recorded(counters, status, lastPhyResult) ==
    [counters EXCEPT
        !["total"] = Saturating(@),
        ![CounterFor(status, lastPhyResult)] = Saturating(@)]

\* snapshot().failures.
SnapshotFailures(counters) ==
    IF counters["total"] >= counters["successes"]
    THEN counters["total"] - counters["successes"]
    ELSE 0

-----------------------------------------------------------------------------
(* What the callers of the pipeline are told.                              *)

\* Mutant of QueryOutcome: the response is not looked at.
QueryOutcomeByStatus(status, hasResponse, lastPhyResult) ==
    IF status = "Ok" THEN "Ok" ELSE "NoResponse"

\* outcomeFromResult of PipelineQueryClient.
QueryOutcome(status, hasResponse, lastPhyResult) ==
    IF status = "Ok" /\ hasResponse
    THEN "Ok"
    ELSE CASE lastPhyResult = "Timeout"      -> "NoResponse"
           [] lastPhyResult = "Collision"    -> "Collision"
           [] lastPhyResult = "Busy"         -> "Busy"
           [] lastPhyResult = "BusPowerLost" -> "BusFailure"
           [] lastPhyResult \in {"TransceiverFault", "NotInitialised",
                                 "InternalError"} -> "HardwareFailure"
           [] OTHER                          -> "Invalid"

DaliQueryOutcome ==
    {"Ok", "NoResponse", "Collision", "Busy", "BusFailure", "HardwareFailure",
     "Invalid", "QueueFull"}

\* The last line of DaliControl::submit.
ControlOutcome(status) ==
    IF status = "Ok" THEN "Ok" ELSE "TransactionFailed"

\* An InvalidArgument is returned before anything is enqueued (DaliClient).
ControlResult == {"Ok", "TransactionFailed", "QueueFull", "InvalidArgument"}
===============================================================================
