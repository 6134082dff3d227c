------------------------------- MODULE DaliClient -------------------------------
(***************************************************************************)
(* A caller of the protocol layer over the simulated PHY: the wrappers of  *)
(* components/dali_control and queries.  The pipeline is as a single       *)
(* caller sees it: its queue is empty, so the request is executed at once  *)
(* (DaliProtocolPipeline has the queue).  Between two attempts of a        *)
(* transaction the task sleeps.                                            *)
(***************************************************************************)
EXTENDS SimulatedDaliPhy, DaliFrame, DaliTransaction

VARIABLES
    request,        \* the request being executed, or Idle
    attempt,        \* the index of its next attempt
    answer          \* what the last call returned, and the call

clientVars == <<request, attempt, answer>>

NoCall == [kind |-> "none", target |-> 0, data |-> 0]
Idle == [call |-> NoCall, expectsResponse |-> FALSE, timeoutMs |-> 0, maxRetries |-> 0]

Answered(call, status, response) == [call |-> call, status |-> status, response |-> response]
NoAnswer == Answered(NoCall, "none", NoResponse)

Request(call, expects, timeoutMs, maxRetries) ==
    [call |-> call, expectsResponse |-> expects, timeoutMs |-> timeoutMs,
     maxRetries |-> maxRetries]

ClientInit == request = Idle /\ attempt = 0 /\ answer = NoAnswer

-----------------------------------------------------------------------------

\* setShortLevel and setGroupLevel refuse what is no arc level.
IsSendable(call) == call.kind \in {"shortArc", "groupArc"} => IsArcLevel(call.data)

\* A call that returns before anything is sent.
Refuse(call, status) ==
    /\ request = Idle
    /\ answer' = Answered(call, status, NoResponse)
    /\ NothingReceived
    /\ UNCHANGED <<lineVars, lastForwardFrame, request, attempt>>

\* submit, or a query: the request is enqueued and execute begins with its checks.
Submit(r) ==
    IF ~IsSendable(r.call) THEN Refuse(r.call, "InvalidArgument")
    ELSE IF ~IsExecutable(r) THEN Refuse(r.call, "InvalidRequest")
    ELSE /\ request = Idle
         /\ request' = r
         /\ attempt' = 0
         /\ answer' = NoAnswer
         /\ NothingReceived
         /\ UNCHANGED <<lineVars, lastForwardFrame>>

\* Mutant of Listens: also when the frame did not go out.
ListensAnyway == request.expectsResponse

\* Whether this attempt comes to receive.
Listens == TransmitResult = "Ok" /\ request.expectsResponse

AttemptResult == IF Listens THEN ReceiveResult(request.timeoutMs) ELSE TransmitResult

\* What a transaction that ends with this result returns.
EndStatus(result) ==
    IF result = "Ok" THEN "Ok" ELSE MapTerminalStatus(result)

Retries(result) == IsRetryable(result) /\ attempt < request.maxRetries

\* One round of the loop of execute.
Attempt ==
    /\ request # Idle
    /\ Sent(FrameOf(request.call))
    /\ IF Listens THEN Received(request.timeoutMs) ELSE NothingReceived
    /\ IF Retries(AttemptResult)
       THEN attempt' = attempt + 1 /\ UNCHANGED <<request, answer>>
       ELSE /\ answer' = Answered(request.call, EndStatus(AttemptResult),
                                  IF AttemptResult = "Ok" THEN consumed' ELSE NoResponse)
            /\ request' = Idle /\ attempt' = 0
    /\ UNCHANGED lineVars
===============================================================================
