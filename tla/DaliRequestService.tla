-------------------------- MODULE DaliRequestService --------------------------
(***************************************************************************)
(* What the protocol pipeline promises, without saying how: a service that *)
(* accepts requests, serves them one at a time, always the most urgent and *)
(* among equally urgent ones the oldest, puts each on the bus no more      *)
(* often than its retry budget allows and only while it is being served,   *)
(* and settles each exactly once.                                          *)
(***************************************************************************)
EXTENDS Integers

CONSTANT AbsoluteMaxRetries

VARIABLES
    pending,        \* the requests accepted and not yet taken up
    serving,        \* the set of the request being served: empty, or a singleton
    sent,           \* how often the request being served has been transmitted
    settled         \* the tickets of the requests whose result is known

vars == <<pending, serving, sent, settled>>

-----------------------------------------------------------------------------

MoreUrgent(r, s) ==
    \/ r.priority < s.priority
    \/ r.priority = s.priority /\ r.ticket < s.ticket

\* A request the service will put on the bus; any other is settled unsent.
Sendable(r) == r.timeoutMs # 0 /\ r.maxRetries <= AbsoluteMaxRetries

Init ==
    /\ pending = {}
    /\ serving = {}
    /\ sent = 0
    /\ settled = {}

\* A new request has the next ticket: one nobody had, and the highest yet.
Accept(r) ==
    /\ \A s \in pending \cup serving : s.ticket < r.ticket
    /\ \A t \in settled : t < r.ticket
    /\ pending' = pending \cup {r}
    /\ UNCHANGED <<serving, sent, settled>>

TakeUp(r) ==
    /\ serving = {}
    /\ r \in pending
    /\ \A s \in pending \ {r} : MoreUrgent(r, s)
    /\ pending' = pending \ {r}
    /\ serving' = {r}
    /\ sent' = 0
    /\ UNCHANGED settled

Send(r) ==
    /\ serving = {r}
    /\ Sendable(r)
    /\ sent <= r.maxRetries
    /\ sent' = sent + 1
    /\ UNCHANGED <<pending, serving, settled>>

Settle(r) ==
    /\ serving = {r}
    /\ r.ticket \notin settled
    /\ Sendable(r) <=> sent > 0
    /\ serving' = {}
    /\ sent' = 0
    /\ settled' = settled \cup {r.ticket}
    /\ UNCHANGED pending

Next ==
    \/ \E r \in pending' \cup serving : Accept(r) \/ Send(r) \/ Settle(r)
    \/ \E r \in pending : TakeUp(r)

Spec == Init /\ [][Next]_vars
===============================================================================
