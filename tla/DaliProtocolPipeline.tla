------------------------- MODULE DaliProtocolPipeline -------------------------
(***************************************************************************)
(* The protocol pipeline of components/dali_protocol with its synchronous  *)
(* callers: DaliProtocolPipeline (enqueue, processNext), the attempt by    *)
(* attempt execution of one request by DaliTransactionService over any     *)
(* IDaliPhy, the communication quality it records, and the two clients     *)
(* that share one pipeline, PipelineQueryClient::query and                 *)
(* DaliControl::submit.                                                    *)
(*                                                                         *)
(* One task owns the pipeline, so calls do not overlap; within a call each *)
(* use of the PHY and each retry delay is a step of its own, because the   *)
(* bus changes between them.  The PHY may answer anything its interface    *)
(* allows: which answers are possible is the constant PhyResults.          *)
(***************************************************************************)
EXTENDS DaliCommandQueue, DaliTransaction

CONSTANTS
    DirectRequests,         \* the request shapes given to enqueue directly
    QueryRequests,          \* the shapes PipelineQueryClient builds
    ControlRequests,        \* the shapes DaliControl builds
    PhyResults,             \* the results the PHY can give
    Bytes,                  \* the backward frames a receive can return
    NoByte,                 \* an optional response without a value
    Jitter,                 \* what the jitter source can return
    MaxAccepted             \* bound: how many requests are ever accepted

Shape ==
    [priority : CommandPriority, expectsResponse : BOOLEAN,
     timeoutMs : Nat, maxRetries : Nat]

ASSUME PipelineAssumption ==
    /\ DirectRequests \subseteq Shape
    /\ QueryRequests \subseteq {s \in Shape : s.expectsResponse}
    /\ ControlRequests \subseteq {s \in Shape : ~ s.expectsResponse}
    /\ PhyResults \subseteq PhyResult
    /\ NoByte \notin Bytes
    /\ Jitter \subseteq 0..MaximumJitterMs
    /\ MaxAccepted \in Nat

\* A request as it is queued: its shape, and the ticket that says as how many
\* it was accepted.  The ticket replaces requestSequence, which no code reads.
DaliRequest ==
    [priority : CommandPriority, expectsResponse : BOOLEAN,
     timeoutMs : Nat, maxRetries : Nat, ticket : Nat]

VARIABLES
    queue,          \* queue_: the requests waiting
    accepted,       \* how many requests enqueue has accepted so far
    call,           \* the call the owner is in, and the ticket it enqueued
    exec,           \* the transaction in progress: the locals of execute
    quality,        \* counters_ of the quality tracker
    served,         \* the tickets of the requests whose result was recorded
    returned        \* what the last call to return handed its caller

vars == <<queue, accepted, call, exec, quality, served, returned>>

CallKind == {"none", "enqueue", "processNext", "query", "control"}
NoCall == [kind |-> "none", own |-> 0]
NoReturn == [kind |-> "none", own |-> 0, outcome |-> "none"]
Outcome ==
    {"none", "empty", "processed"} \cup DaliQueryOutcome \cup ControlResult

Phase == {"idle", "transmit", "receive", "backoff", "complete"}
NoRequest ==
    [priority |-> Normal, expectsResponse |-> TRUE, timeoutMs |-> 20,
     maxRetries |-> 3, ticket |-> 0]
\* A transaction result before the first attempt.
Started(request) ==
    [phase |-> "transmit", request |-> request, attempts |-> 0,
     last |-> "InternalError", status |-> "InternalError",
     response |-> NoByte, delayMs |-> 0]

-----------------------------------------------------------------------------

Init ==
    /\ queue = << >>
    /\ accepted = 0
    /\ call = NoCall
    /\ exec = [Started(NoRequest) EXCEPT !.phase = "idle"]
    /\ quality = NoCounts
    /\ served = {}
    /\ returned = NoReturn

Idle == call = NoCall

Ticketed(shape) ==
    [priority |-> shape.priority, expectsResponse |-> shape.expectsResponse,
     timeoutMs |-> shape.timeoutMs, maxRetries |-> shape.maxRetries,
     ticket |-> accepted + 1]

\* DaliCommandQueue::enqueue with room left.
Accept(shape) ==
    /\ ~ IsFull(queue)
    /\ accepted < MaxAccepted
    /\ queue' = Enqueued(queue, Ticketed(shape))
    /\ accepted' = accepted + 1
    /\ UNCHANGED <<exec, quality, served>>

\* DaliProtocolPipeline::enqueue, called by whoever holds the pipeline.
DirectEnqueue(shape) ==
    /\ Idle
    /\ Accept(shape)
    /\ returned' = [kind |-> "enqueue", own |-> accepted + 1, outcome |-> "Ok"]
    /\ UNCHANGED call

\* The first half of PipelineQueryClient::query and of DaliControl::submit.
BeginQuery(shape) ==
    /\ Idle
    /\ Accept(shape)
    /\ call' = [kind |-> "query", own |-> accepted + 1]
    /\ returned' = NoReturn

BeginControl(shape) ==
    /\ Idle
    /\ Accept(shape)
    /\ call' = [kind |-> "control", own |-> accepted + 1]
    /\ returned' = NoReturn

\* Any of the three on a full queue: the caller is told so, nothing is queued
\* and nothing is processed.
Refuse(kind) ==
    /\ Idle
    /\ IsFull(queue)
    /\ returned' = [kind |-> kind, own |-> 0, outcome |-> "QueueFull"]
    /\ UNCHANGED <<queue, accepted, call, exec, quality, served>>

\* The owner calls processNext itself.
BeginProcessNext ==
    /\ Idle
    /\ call' = [kind |-> "processNext", own |-> 0]
    /\ returned' = NoReturn
    /\ UNCHANGED <<queue, accepted, exec, quality, served>>

\* processNext: pop, and the check execute makes first.
Pop ==
    /\ ~ Idle
    /\ exec.phase = "idle"
    /\ Len(queue) > 0
    /\ queue' = AfterPop(queue)
    /\ exec' = IF IsExecutable(Popped(queue))
               THEN Started(Popped(queue))
               ELSE [Started(Popped(queue)) EXCEPT
                        !.phase = "complete",
                        !.status = "InvalidRequest",
                        !.last = "InvalidArgument"]
    /\ UNCHANGED <<accepted, call, quality, served, returned>>

\* Mutant of PopEmpty: processNext waits for a request instead of returning.
PopEmptyWaits ==
    /\ ~ Idle
    /\ exec.phase = "idle"
    /\ Len(queue) = 0
    /\ UNCHANGED vars

\* processNext on an empty queue.
PopEmpty ==
    /\ ~ Idle
    /\ exec.phase = "idle"
    /\ Len(queue) = 0
    /\ call' = NoCall
    /\ returned' = [kind |-> call.kind, own |-> call.own, outcome |-> "empty"]
    /\ UNCHANGED <<queue, accepted, exec, quality, served>>

-----------------------------------------------------------------------------
(* DaliTransactionService::execute.                                        *)

\* Mutant of AfterAttempt: the last retry is followed by one more.
AfterAttemptOneMore(e, result, byte) ==
    IF result = "Ok"
    THEN [e EXCEPT !.last = result, !.phase = "complete", !.status = "Ok",
                   !.response = byte]
    ELSE IF ~ IsRetryable(result)
    THEN [e EXCEPT !.last = result, !.phase = "complete",
                   !.status = MapTerminalStatus(result)]
    ELSE IF e.attempts - 1 > e.request.maxRetries
    THEN [e EXCEPT !.last = result, !.phase = "complete",
                   !.status = "RetriesExhausted"]
    ELSE [e EXCEPT !.last = result, !.phase = "backoff"]

\* The end of one attempt, with the last result of the PHY and the backward
\* frame it came with.
AfterAttempt(e, result, byte) ==
    IF result = "Ok"
    THEN [e EXCEPT !.last = result, !.phase = "complete", !.status = "Ok",
                   !.response = byte]
    ELSE IF ~ IsRetryable(result)
    THEN [e EXCEPT !.last = result, !.phase = "complete",
                   !.status = MapTerminalStatus(result)]
    ELSE IF e.attempts - 1 = e.request.maxRetries
    THEN [e EXCEPT !.last = result, !.phase = "complete",
                   !.status = "RetriesExhausted"]
    ELSE [e EXCEPT !.last = result, !.phase = "backoff"]

Transmit(result) ==
    /\ exec.phase = "transmit"
    /\ LET e == [exec EXCEPT !.attempts = @ + 1] IN
       exec' = IF result = "Ok" /\ exec.request.expectsResponse
               THEN [e EXCEPT !.phase = "receive"]
               ELSE AfterAttempt(e, result, NoByte)
    /\ UNCHANGED <<queue, accepted, call, quality, served, returned>>

Receive(result, byte) ==
    /\ exec.phase = "receive"
    /\ exec' = AfterAttempt(exec, result, byte)
    /\ UNCHANGED <<queue, accepted, call, quality, served, returned>>

\* The wait between two attempts; the loop then starts the next one.
Backoff(jitter) ==
    /\ exec.phase = "backoff"
    /\ exec' = [exec EXCEPT
                    !.delayMs = @ + BaseRetryDelayMs(exec.attempts - 1) + jitter,
                    !.phase = "transmit"]
    /\ UNCHANGED <<queue, accepted, call, quality, served, returned>>

\* What the caller makes of the result of the request that was processed.
OutcomeFor(kind) ==
    CASE kind = "query"   -> QueryOutcome(exec.status, exec.response # NoByte,
                                          exec.last)
      [] kind = "control" -> ControlOutcome(exec.status)
      [] OTHER            -> "processed"

\* The end of processNext and of the call around it.
Complete ==
    /\ exec.phase = "complete"
    /\ quality' = Recorded(quality, exec.status, exec.last)
    /\ served' = served \cup {exec.request.ticket}
    /\ exec' = [exec EXCEPT !.phase = "idle"]
    /\ returned' = [kind |-> call.kind, own |-> call.own,
                    outcome |-> OutcomeFor(call.kind)]
    /\ call' = NoCall
    /\ UNCHANGED <<queue, accepted>>

-----------------------------------------------------------------------------

\* What the owner may call.
Begin ==
    \/ \E shape \in DirectRequests : DirectEnqueue(shape)
    \/ \E shape \in QueryRequests : BeginQuery(shape)
    \/ \E shape \in ControlRequests : BeginControl(shape)
    \/ \E kind \in {"enqueue", "query", "control"} : Refuse(kind)
    \/ BeginProcessNext

\* What the call in progress does.
Proceed ==
    \/ Pop
    \/ PopEmpty
    \/ \E result \in PhyResults : Transmit(result)
    \/ \E result \in PhyResults, byte \in Bytes : Receive(result, byte)
    \/ \E jitter \in Jitter : Backoff(jitter)
    \/ Complete

Next == Begin \/ Proceed

\* A call runs to its end: it is straight-line code over PHY operations that
\* return.  Nobody is obliged to make a call.
Spec == Init /\ [][Next]_vars /\ WF_vars(Proceed)

-----------------------------------------------------------------------------
(* Properties.                                                             *)

Transaction ==
    [phase : Phase, request : DaliRequest, attempts : Nat, last : PhyResult,
     status : TransactionStatus, response : Bytes \cup {NoByte},
     delayMs : Nat]

\* Every variable holds a value of its type, and the queue no more than its
\* array does (kCapacity).
TypeOK ==
    /\ queue \in Seq(DaliRequest)
    /\ Len(queue) <= Capacity
    /\ accepted \in 0..MaxAccepted
    /\ call \in [kind : CallKind, own : Nat]
    /\ exec \in Transaction
    /\ quality \in [CounterNames -> 0..CounterMax]
    /\ served \in SUBSET Nat
    /\ returned \in [kind : CallKind, own : Nat, outcome : Outcome]

\* The ticket of the request being executed, if one is.
InExecution == IF exec.phase = "idle" THEN {} ELSE {exec.request.ticket}
Waiting == {queue[i].ticket : i \in 1..Len(queue)}

\* No accepted request is lost, executed twice or reported early: at any time
\* each is waiting, being executed or recorded, and only one of the three.
EachRequestOnce ==
    /\ Waiting \cup InExecution \cup served = 1..accepted
    /\ Waiting \cap InExecution = {}
    /\ (Waiting \cup InExecution) \cap served = {}
    /\ \A i, j \in 1..Len(queue) :
         queue[i].ticket = queue[j].ticket => i = j

\* The queue is kept in the order it is to be served in, whatever mix of
\* callers filled it.
QueueOrdered == Ordered(queue)

\* The waits of the first n retries, without jitter.
BaseDelayOf(n) ==
    CASE n = 0 -> 0
      [] n = 1 -> 100
      [] OTHER -> 600 + 2000 * (n - 2)

\* How often execute has waited for a retry so far.
Waits ==
    IF exec.attempts = 0 THEN 0
    ELSE IF exec.phase = "transmit" THEN exec.attempts ELSE exec.attempts - 1

\* A transaction makes no more attempts than its request and the hard limit
\* allow, goes on only after a result worth retrying, reports exhausted retries
\* exactly when it used them all up, and has waited between its attempts and
\* never after the last one.
RetryBudget ==
    exec.phase # "idle" =>
        /\ exec.attempts <= exec.request.maxRetries + 1
        /\ exec.attempts > 0 => exec.attempts <= AbsoluteMaxRetries + 1
        /\ exec.phase \in {"transmit", "backoff"} =>
             /\ exec.attempts <= exec.request.maxRetries
             /\ exec.attempts > 0 => IsRetryable(exec.last)
        /\ exec.phase = "complete" =>
             (exec.status = "RetriesExhausted" <=>
                /\ exec.attempts = exec.request.maxRetries + 1
                /\ IsRetryable(exec.last))
        /\ exec.delayMs >= BaseDelayOf(Waits)
        /\ exec.delayMs <= BaseDelayOf(Waits) + MaximumJitterMs * Waits

FailureTotal ==
    quality["timeouts"] + quality["collisions"] + quality["busy"]
        + quality["busPowerLosses"] + quality["transceiverFaults"]
        + quality["otherFailures"]

\* The counters add up: each recorded transaction is a success or a failure of
\* one kind, and the failures the snapshot derives are the failures counted,
\* for as long as total has not saturated.  Beyond that total stands still
\* while the rest goes on, and the snapshot may understate the failures, but
\* it never overstates them.
QualityAccounts ==
    LET recorded == Cardinality(served) IN
    /\ quality["total"] = IF recorded < CounterMax THEN recorded ELSE CounterMax
    /\ recorded <= CounterMax =>
         /\ quality["successes"] + FailureTotal = recorded
         /\ SnapshotFailures(quality) = FailureTotal
    /\ SnapshotFailures(quality) <= FailureTotal

\* A caller that got the result of a transaction, its own or not.
GotResult ==
    /\ returned.kind \in {"query", "control"}
    /\ returned.outcome \notin {"QueueFull", "empty"}

\* What a caller is told says how the transaction ended: a query is Ok only
\* with a backward frame, a light is called silent, jammed or the bus busy only
\* after every permitted attempt, and lost power or broken hardware never cost
\* a retry of that last result; a control call is Ok only for a transaction
\* that was.
OutcomeTruthful ==
    GotResult =>
        /\ returned.kind = "query" =>
             /\ returned.outcome = "Ok" <=>
                  exec.status = "Ok" /\ exec.response \in Bytes
             /\ returned.outcome \in {"NoResponse", "Collision", "Busy"} =>
                  exec.attempts = exec.request.maxRetries + 1
             /\ returned.outcome \in {"BusFailure", "HardwareFailure"} =>
                  exec.status \notin {"Ok", "RetriesExhausted"}
             /\ returned.outcome = "Invalid" =>
                  \/ ~ exec.request.expectsResponse
                  \/ exec.status = "InvalidRequest"
        /\ returned.kind = "control" =>
             (returned.outcome = "Ok" <=> exec.status = "Ok")

\* A synchronous caller can be handed the result of another request, since
\* processNext serves the head of the shared queue.  It is then the result of
\* an older request at least as urgent as the caller's, and the caller's own
\* request is still in the queue.
MisdeliveredIsOlder ==
    (GotResult /\ exec.request.ticket # returned.own) =>
        /\ exec.request.ticket < returned.own
        /\ \E i \in 1..Len(queue) :
             /\ queue[i].ticket = returned.own
             /\ exec.request.priority <= queue[i].priority

\* PipelineQueryClient and DaliControl enqueue one request, process it
\* immediately and report its transaction: the result a caller gets is that of
\* the request it made.
OwnResult ==
    GotResult => exec.request.ticket = returned.own

\* A call that was begun returns: no retry loop runs for ever, whatever the
\* bus does.
CallReturns == ~ Idle ~> Idle

\* The pipeline implements the service its callers rely on.
Service == INSTANCE DaliRequestService WITH
    pending <- Elements(queue),
    serving <- IF exec.phase = "idle" THEN {} ELSE {exec.request},
    sent    <- IF exec.phase = "idle" THEN 0 ELSE exec.attempts,
    settled <- served

\* Requests are served one at a time, most urgent and then oldest first, each
\* within its retry budget and each settled exactly once.
ImplementsService == Service!Spec
===============================================================================
