---------------------- MODULE DaliProtocolPipeline_proofs ----------------------
(***************************************************************************)
(* What holds of the protocol pipeline for every queue capacity, retry     *)
(* limit, counter width, mix of requests and behaviour of the PHY.  The    *)
(* first part is about the operators of DaliCommandQueue, for every        *)
(* capacity and every queue.                                               *)
(***************************************************************************)
EXTENDS DaliProtocolPipeline, SequenceTheorems, FiniteSetTheorems,
        WellFoundedInduction, TLAPS

-----------------------------------------------------------------------------
(* The operators of the queue.                                             *)

\* Every non-empty set of naturals has a least element.
LEMMA LeastNatural ==
    ASSUME NEW S \in SUBSET Nat, S # {}
    PROVE  \E n \in S : \A m \in S : n <= m
<1>1. PICK n \in S : \A m \in S : ~ (<<m, n>> \in OpToRel(<, Nat))
  BY NatLessThanWellFounded, WFMin, Zenon
<1>2. \A m \in S : ~ (m < n)
  BY <1>1, Zenon DEF OpToRel
<1> QED  BY <1>2

\* The scan of enqueue stops somewhere in the queue: everything it passed over
\* is at least as urgent as the request, and what it stopped at is less urgent.
LEMMA InsertionStops ==
    ASSUME NEW R, \A r \in R : r.priority \in CommandPriority,
           NEW items \in Seq(R), NEW request \in R
    PROVE  /\ Insertion(items, request) \in 0..Len(items)
           /\ \A i \in 1..Insertion(items, request) :
                items[i].priority <= request.priority
           /\ Insertion(items, request) < Len(items) =>
                request.priority < items[Insertion(items, request) + 1].priority
<1> DEFINE Stop(k) == /\ \A i \in 1..k : items[i].priority <= request.priority
                      /\ k < Len(items) =>
                           request.priority < items[k + 1].priority
           Less == {i \in 1..Len(items) : request.priority < items[i].priority}
<1>0. /\ \A i \in 1..Len(items) : items[i].priority \in Int
      /\ request.priority \in Int
      /\ Len(items) \in Nat
  BY ElementOfSeq, LenProperties DEF CommandPriority
<1>1. \E k \in 0..Len(items) : Stop(k)
  <2>1. CASE Less = {}
    BY <2>1, <1>0
  <2>2. CASE Less # {}
    <3>1. Less \in SUBSET Nat
      BY <1>0
    <3>2. PICK n \in Less : \A m \in Less : n <= m
      BY <2>2, <3>1, LeastNatural
    <3>3. n - 1 \in 0..Len(items) /\ Stop(n - 1)
      BY <3>2, <1>0
    <3> QED  BY <3>3
  <2> QED  BY <2>1, <2>2
<1> HIDE DEF Stop
<1>2. Insertion(items, request) = CHOOSE k \in 0..Len(items) : Stop(k)
  BY DEF Insertion, Stop
<1>3. /\ Insertion(items, request) \in 0..Len(items)
      /\ Stop(Insertion(items, request))
  BY <1>1, <1>2
<1> QED  BY <1>3 DEF Stop

\* Elements, as a predicate.
LEMMA ElementsAreIndexed ==
    ASSUME NEW items, NEW x
    PROVE  x \in Elements(items) <=> \E i \in 1..Len(items) : x = items[i]
BY DEF Elements

\* q is the queue with the request put behind its first k items.
InsertedBehind(k, items, request, q) ==
    /\ Len(q) = Len(items) + 1
    /\ \A i \in 1..k : q[i] = items[i]
    /\ q[k + 1] = request
    /\ \A i \in k + 1..Len(items) : q[i + 1] = items[i]

\* The shifting loop of enqueue moves what is behind the insertion and nothing
\* else.
LEMMA InsertAtElements ==
    ASSUME NEW R, NEW items \in Seq(R), NEW request \in R,
           NEW k \in 0..Len(items)
    PROVE  /\ InsertAt(items, k + 1, request) \in Seq(R)
           /\ InsertedBehind(k, items, request, InsertAt(items, k + 1, request))
<1>1. Len(items) \in Nat
  BY LenProperties
<1>2. PICK front, back : /\ front = SubSeq(items, 1, k)
                         /\ back = SubSeq(items, k + 1, Len(items))
  OBVIOUS
<1>3. /\ front \in Seq(R)
      /\ Len(front) = k
      /\ \A i \in 1..k : front[i] = items[i]
  BY <1>1, <1>2, SubSeqProperties
<1>4. /\ back \in Seq(R)
      /\ Len(back) = Len(items) - k
      /\ \A i \in 1..Len(items) - k : back[i] = items[k + i]
  BY <1>1, <1>2, SubSeqProperties
<1>5. PICK upto : upto = front \o <<request>>
  OBVIOUS
<1>6. /\ upto \in Seq(R)
      /\ Len(upto) = k + 1
      /\ \A i \in 1..k : upto[i] = items[i]
      /\ upto[k + 1] = request
  BY <1>1, <1>3, <1>5, ConcatProperties
<1>7. PICK q : q = upto \o back
  OBVIOUS
<1>8. /\ q \in Seq(R)
      /\ Len(q) = Len(upto) + Len(back)
      /\ \A i \in 1..Len(upto) + Len(back) :
           q[i] = IF i <= Len(upto) THEN upto[i] ELSE back[i - Len(upto)]
  BY <1>4, <1>6, <1>7, ConcatProperties
<1>9. Len(q) = Len(items) + 1
  BY <1>1, <1>4, <1>6, <1>8
<1>10. \A i \in 1..k + 1 : q[i] = upto[i]
  <2> TAKE i \in 1..k + 1
  <2>1. i \in 1..Len(upto) + Len(back) /\ i <= Len(upto)
    BY <1>1, <1>4, <1>6
  <2> QED  BY <2>1, <1>8
<1>11. \A i \in k + 1..Len(items) : q[i + 1] = items[i]
  <2> TAKE i \in k + 1..Len(items)
  <2>1. PICK d : d = i - k
    OBVIOUS
  <2>2. /\ i + 1 \in 1..Len(upto) + Len(back)
        /\ ~ (i + 1 <= Len(upto))
        /\ (i + 1) - Len(upto) = d
        /\ d \in 1..Len(items) - k
        /\ k + d = i
    BY <1>1, <1>4, <1>6, <2>1
  <2>3. q[i + 1] = back[d]
    BY <1>8, <2>2
  <2> QED  BY <1>4, <2>2, <2>3
<1>12. q[k + 1] = request /\ \A i \in 1..k : q[i] = items[i]
  BY <1>1, <1>6, <1>10
<1>13. InsertAt(items, k + 1, request) = q
  <2>1. (k + 1) - 1 = k
    BY <1>1
  <2> QED  BY <2>1, <1>2, <1>5, <1>7, Zenon DEF InsertAt
<1>14. InsertedBehind(k, items, request, q)
  BY <1>9, <1>11, <1>12 DEF InsertedBehind
<1> QED  BY <1>8, <1>13, <1>14

\* enqueue keeps every request it held, adds the new one, and keeps the order
\* the queue is popped in, when the new request is the youngest.
LEMMA EnqueuedKeepsOrder ==
    ASSUME NEW R,
           \A r \in R : r.priority \in CommandPriority /\ r.ticket \in Nat,
           NEW items \in Seq(R), NEW request \in R,
           Ordered(items),
           \A i \in 1..Len(items) : items[i].ticket < request.ticket
    PROVE  /\ Enqueued(items, request) \in Seq(R)
           /\ Len(Enqueued(items, request)) = Len(items) + 1
           /\ Ordered(Enqueued(items, request))
           /\ Elements(Enqueued(items, request)) = Elements(items) \cup {request}
<1>1. PICK k \in 0..Len(items) :
        /\ k = Insertion(items, request)
        /\ \A i \in 1..k : items[i].priority <= request.priority
        /\ k < Len(items) => request.priority < items[k + 1].priority
  BY InsertionStops
<1>2. PICK q : q = Enqueued(items, request)
  OBVIOUS
<1>2a. q = InsertAt(items, k + 1, request)
  BY <1>1, <1>2 DEF Enqueued
<1>2b. q \in Seq(R) /\ InsertedBehind(k, items, request, q)
  BY <1>2a, InsertAtElements
<1>3. /\ q \in Seq(R)
      /\ Len(q) = Len(items) + 1
      /\ \A i \in 1..k : q[i] = items[i]
      /\ q[k + 1] = request
      /\ \A i \in k + 1..Len(items) : q[i + 1] = items[i]
  BY <1>2b DEF InsertedBehind
<1>3a. \A x \in 1..k : q[x] = items[x]
  BY <1>3
<1>4. /\ Len(items) \in Nat
      /\ \A i \in 1..Len(items) : items[i] \in R
  BY ElementOfSeq, LenProperties
<1>4a. /\ \A i \in 1..Len(items) :
            items[i].priority \in Int /\ items[i].ticket \in Int
       /\ request.priority \in Int /\ request.ticket \in Int
  BY <1>4 DEF CommandPriority
\* What is in front of the new request goes before it, and the new request
\* goes before what is behind it.
<1>5a. \A i \in 1..k : Before(items[i], request)
  BY <1>1, <1>4, <1>4a DEF Before
<1>5b. \A i \in k + 1..Len(items) : Before(request, items[i])
  <2>1. TAKE i \in k + 1..Len(items)
  <2>2. /\ k + 1 \in 1..Len(items)
        /\ i \in 1..Len(items)
        /\ k < Len(items)
    BY <1>4
  <2>3. request.priority < items[k + 1].priority
    BY <1>1, <2>2
  <2>4. i = k + 1 \/ Before(items[k + 1], items[i])
    BY <2>2 DEF Ordered
  <2>5. items[k + 1].priority <= items[i].priority
    BY <1>4a, <2>2, <2>4 DEF Before
  <2> QED  BY <1>4a, <2>2, <2>3, <2>5 DEF Before
<1>5. Ordered(q)
  <2> SUFFICES ASSUME NEW i \in 1..Len(q), NEW j \in 1..Len(q), i < j
               PROVE  Before(q[i], q[j])
    BY DEF Ordered
  <2>1. PICK i1, j1 : i1 = i - 1 /\ j1 = j - 1
    OBVIOUS
  <2>2. /\ i > k + 1 => i1 \in k + 1..Len(items) /\ i = i1 + 1
        /\ j > k + 1 => j1 \in k + 1..Len(items) /\ j = j1 + 1
        /\ i <= k => i \in 1..k
        /\ j <= k => j \in 1..k
        /\ i1 < j1
    BY <1>3, <1>4, <2>1
  <2>3. CASE j <= k
    <3>0. k \in Int /\ i \in Int /\ j \in Int /\ i <= k
      BY <2>3, <1>4
    <3>1a. i \in 1..k /\ j \in 1..k
      BY <3>0, <2>2, <2>3
    <3>1. q[i] = items[i] /\ q[j] = items[j]
      BY <3>1a, <1>3a
    <3>2. i \in 1..Len(items) /\ j \in 1..Len(items)
      BY <3>1a, <1>4
    <3> QED  BY <3>1, <3>2 DEF Ordered
  <2>4. CASE j = k + 1
    <3>0. k \in Int /\ i \in Int /\ i <= k
      BY <2>4, <1>4
    <3>1a. i \in 1..k
      BY <3>0, <2>2
    <3>1b. q[i] = items[i]
      BY <3>1a, <1>3a
    <3>1c. q[j] = request
      BY <2>4, <1>3
    <3> QED  BY <3>1a, <3>1b, <3>1c, <1>5a
  <2>5. CASE j > k + 1 /\ i <= k
    <3>1. q[i] = items[i] /\ q[j] = items[j1]
      BY <2>2, <2>5, <1>3
    <3>2. i \in 1..Len(items) /\ j1 \in 1..Len(items) /\ i < j1
      BY <2>2, <2>5, <1>4
    <3> QED  BY <3>1, <3>2 DEF Ordered
  <2>6. CASE j > k + 1 /\ i = k + 1
    BY <2>2, <2>6, <1>3, <1>5b
  <2>7. CASE j > k + 1 /\ i > k + 1
    <3>1. q[i] = items[i1] /\ q[j] = items[j1]
      BY <2>2, <2>7, <1>3
    <3>2. i1 \in 1..Len(items) /\ j1 \in 1..Len(items) /\ i1 < j1
      BY <2>2, <2>7, <1>4
    <3> QED  BY <3>1, <3>2 DEF Ordered
  <2> QED  BY <2>3, <2>4, <2>5, <2>6, <2>7, <1>3, <1>4
<1>6. Elements(q) = Elements(items) \cup {request}
  <2>1. \A i \in 1..Len(items) :
          \E j \in 1..Len(q) : q[j] = items[i]
    <3> TAKE i \in 1..Len(items)
    <3>1. CASE i <= k
      <4>1. i \in 1..k /\ i \in 1..Len(q)
        BY <3>1, <1>3, <1>4
      <4> QED  BY <4>1, <1>3
    <3>2. CASE i > k
      <4>1. i \in k + 1..Len(items) /\ i + 1 \in 1..Len(q)
        BY <3>2, <1>3, <1>4
      <4> QED  BY <4>1, <1>3
    <3> QED  BY <3>1, <3>2, <1>4
  <2>2. k + 1 \in 1..Len(q)
    BY <1>3, <1>4
  <2>3. \A j \in 1..Len(q) :
          q[j] = request \/ \E i \in 1..Len(items) : q[j] = items[i]
    <3> TAKE j \in 1..Len(q)
    <3>1. \/ j \in 1..k /\ j \in 1..Len(items)
          \/ j = k + 1
          \/ \E i \in k + 1..Len(items) : j = i + 1 /\ i \in 1..Len(items)
      <4>1. PICK i : i = j - 1
        OBVIOUS
      <4>2. j > k + 1 => /\ i \in k + 1..Len(items)
                         /\ j = i + 1
                         /\ i \in 1..Len(items)
        BY <4>1, <1>3, <1>4
      <4>3. j <= k => j \in 1..k /\ j \in 1..Len(items)
        BY <1>3, <1>4
      <4> QED  BY <4>2, <4>3, <1>3, <1>4
    <3> QED  BY <3>1, <1>3
  <2>4. \A x : x \in Elements(items) \cup {request} => x \in Elements(q)
    <3>1. \A x : x \in Elements(items) => x \in Elements(q)
      BY <2>1, ElementsAreIndexed
    <3>2. request \in Elements(q)
      BY <2>2, <1>3, ElementsAreIndexed
    <3> QED  BY <3>1, <3>2
  <2>5. \A x : x \in Elements(q) => x \in Elements(items) \cup {request}
    BY <2>3, ElementsAreIndexed
  <2> QED  BY <2>4, <2>5
<1> QED  BY <1>2, <1>3, <1>5, <1>6

\* pop hands out the request that goes before every other one, and what it
\* leaves is the rest of the queue in the same order.
LEMMA PopTakesTheFirst ==
    ASSUME NEW R,
           \A r \in R : r.priority \in CommandPriority /\ r.ticket \in Nat,
           NEW items \in Seq(R), Len(items) > 0, Ordered(items)
    PROVE  /\ Popped(items) \in Elements(items)
           /\ Popped(items) \in R
           /\ AfterPop(items) \in Seq(R)
           /\ Len(AfterPop(items)) = Len(items) - 1
           /\ Ordered(AfterPop(items))
           /\ Elements(AfterPop(items)) = Elements(items) \ {Popped(items)}
           /\ \A r \in Elements(AfterPop(items)) : Before(Popped(items), r)
<1>0. PICK h, t : h = Popped(items) /\ t = AfterPop(items)
  OBVIOUS
<1>1. Len(items) \in Nat /\ items # << >>
  BY EmptySeq, LenProperties
<1>2. h = items[1]
  BY <1>0, <1>1 DEF Popped
<1>3. /\ t \in Seq(R)
      /\ Len(t) = Len(items) - 1
      /\ \A i \in 1..Len(t) : t[i] = items[i + 1]
  BY <1>1, HeadTailProperties, <1>0 DEF AfterPop
<1>4. \A i \in 1..Len(items) : items[i] \in R
  BY ElementOfSeq
<1>4a. \A r \in R : ~ Before(r, r)
  BY DEF Before, CommandPriority
<1>4b. \A i \in 1..Len(t) : i + 1 \in 1..Len(items)
  BY <1>1, <1>3
<1>5. Ordered(t)
  <2> SUFFICES ASSUME NEW i \in 1..Len(t), NEW j \in 1..Len(t), i < j
               PROVE  Before(t[i], t[j])
    BY DEF Ordered
  <2>1. i + 1 \in 1..Len(items) /\ j + 1 \in 1..Len(items) /\ i + 1 < j + 1
    BY <1>4b
  <2> QED  BY <1>3, <2>1 DEF Ordered
<1>6. \A i \in 1..Len(t) : Before(h, t[i])
  <2> TAKE i \in 1..Len(t)
  <2>1. 1 \in 1..Len(items) /\ i + 1 \in 1..Len(items) /\ 1 < i + 1
    BY <1>1, <1>4b
  <2> QED  BY <1>2, <1>3, <2>1 DEF Ordered
<1>7. \A i \in 1..Len(t) : t[i] # h
  <2>1. h \in R
    BY <1>1, <1>2, <1>4
  <2> QED  BY <1>4a, <1>6, <2>1, Zenon
<1>8. Elements(t) = Elements(items) \ {h}
  <2>1. \A i \in 2..Len(items) : i - 1 \in 1..Len(t) /\ t[i - 1] = items[i]
    BY <1>1, <1>3
  <2>2. \A i \in 1..Len(items) : i = 1 \/ i \in 2..Len(items)
    BY <1>1
  <2>3. \A i \in 1..Len(t) : i + 1 \in 1..Len(items)
    BY <1>1, <1>3
  <2>4. \A x : x \in Elements(t) => x \in Elements(items) \ {h}
    BY <1>3, <1>7, <2>3, ElementsAreIndexed
  <2>5. \A x : x \in Elements(items) \ {h} => x \in Elements(t)
    BY <1>2, <2>1, <2>2, ElementsAreIndexed
  <2> QED  BY <2>4, <2>5
<1>9. h \in Elements(items) /\ h \in R
  BY <1>1, <1>2, <1>4 DEF Elements
<1> QED  BY <1>3, <1>5, <1>6, <1>8, <1>9, <1>0 DEF Elements

-----------------------------------------------------------------------------
(* Type correctness.                                                       *)

\* What enqueue builds from a shape is a request.
LEMMA TicketedIsRequest ==
    ASSUME NEW shape \in DirectRequests \cup QueryRequests \cup ControlRequests,
           accepted \in Nat
    PROVE  Ticketed(shape) \in DaliRequest
<1>1. shape \in Shape
  BY PipelineAssumption
<1> QED  BY <1>1 DEF Ticketed, Shape, DaliRequest

\* enqueue on a queue with room keeps it a queue of requests in its array.
LEMMA EnqueuedType ==
    ASSUME NEW q \in Seq(DaliRequest), NEW r \in DaliRequest,
           Len(q) <= Capacity, ~ IsFull(q)
    PROVE  /\ Enqueued(q, r) \in Seq(DaliRequest)
           /\ Len(Enqueued(q, r)) = Len(q) + 1
           /\ Len(Enqueued(q, r)) <= Capacity
<1>1. \A x \in DaliRequest : x.priority \in CommandPriority
  BY DEF DaliRequest
<1>2. PICK k \in 0..Len(q) : k = Insertion(q, r)
  BY <1>1, InsertionStops
<1>3. /\ InsertAt(q, k + 1, r) \in Seq(DaliRequest)
      /\ InsertedBehind(k, q, r, InsertAt(q, k + 1, r))
  BY <1>2, InsertAtElements
<1>4. Enqueued(q, r) = InsertAt(q, k + 1, r)
  BY <1>2 DEF Enqueued
<1>5. Len(Enqueued(q, r)) = Len(q) + 1
  BY <1>3, <1>4 DEF InsertedBehind
<1> QED  BY <1>3, <1>4, <1>5, CapacityAssumption, LenProperties DEF IsFull

\* The end of an attempt leaves a well-formed transaction.
LEMMA AfterAttemptType ==
    ASSUME NEW e \in Transaction, NEW result \in PhyResult,
           NEW byte \in Bytes \cup {NoByte}
    PROVE  AfterAttempt(e, result, byte) \in Transaction
<1>1. ~ IsRetryable(result) => MapTerminalStatus(result) \in TransactionStatus
  BY DEF IsRetryable, MapTerminalStatus, TransactionStatus, PhyResult
<1> QED  BY <1>1 DEF AfterAttempt, Transaction, Phase, TransactionStatus

\* record keeps every counter within its width.
LEMMA RecordedType ==
    ASSUME NEW counters \in [CounterNames -> 0..CounterMax],
           NEW status, NEW last
    PROVE  Recorded(counters, status, last) \in [CounterNames -> 0..CounterMax]
<1>1. \A v \in 0..CounterMax : Saturating(v) \in 0..CounterMax
  BY TransactionAssumption DEF Saturating
<1>2. CounterFor(status, last) \in CounterNames /\ "total" \in CounterNames
  BY DEF CounterFor, CounterNames, FailureCounters
<1> QED  BY <1>1, <1>2 DEF Recorded

THEOREM TypeCorrect == Spec => []TypeOK
<1>1. Init => TypeOK
  <2> SUFFICES ASSUME Init PROVE TypeOK
    OBVIOUS
  <2>1. quality \in [CounterNames -> 0..CounterMax]
    BY TransactionAssumption DEF Init, NoCounts
  <2>2. queue \in Seq(DaliRequest) /\ Len(queue) <= Capacity
    BY CapacityAssumption DEF Init
  <2>3. exec \in Transaction
    <3>1. NoRequest \in DaliRequest
      BY DEF NoRequest, DaliRequest, CommandPriority, Normal
    <3>2. Started(NoRequest) \in Transaction
      BY <3>1 DEF Started, Transaction, Phase, PhyResult, TransactionStatus
    <3> QED  BY <3>2 DEF Init, Transaction, Phase
  <2>4. /\ call \in [kind : CallKind, own : Nat]
        /\ returned \in [kind : CallKind, own : Nat, outcome : Outcome]
    BY DEF Init, NoCall, NoReturn, CallKind, Outcome
  <2>5. accepted \in 0..MaxAccepted /\ served \in SUBSET Nat
    BY PipelineAssumption DEF Init
  <2> QED  BY <2>1, <2>2, <2>3, <2>4, <2>5 DEF TypeOK
<1>2. TypeOK /\ [Next]_vars => TypeOK'
  <2> SUFFICES ASSUME TypeOK, [Next]_vars PROVE TypeOK'
    OBVIOUS
  <2>1. ASSUME NEW shape \in DirectRequests \cup QueryRequests \cup ControlRequests,
               Accept(shape)
        PROVE  /\ queue' \in Seq(DaliRequest)
               /\ Len(queue') <= Capacity
               /\ accepted' \in 0..MaxAccepted
               /\ accepted + 1 \in Nat
               /\ exec' \in Transaction
               /\ quality' \in [CounterNames -> 0..CounterMax]
               /\ served' \in SUBSET Nat
    <3>1. Ticketed(shape) \in DaliRequest
      BY TicketedIsRequest DEF TypeOK
    <3>2. queue' \in Seq(DaliRequest) /\ Len(queue') <= Capacity
      BY <2>1, <3>1, EnqueuedType DEF TypeOK, Accept
    <3> QED  BY <2>1, <3>2, PipelineAssumption DEF TypeOK, Accept
  <2>2. ASSUME NEW shape \in DirectRequests, DirectEnqueue(shape) PROVE TypeOK'
    BY <2>1, <2>2 DEF DirectEnqueue, TypeOK, CallKind, Outcome, ControlResult
  <2>3. ASSUME NEW shape \in QueryRequests, BeginQuery(shape) PROVE TypeOK'
    BY <2>1, <2>3 DEF BeginQuery, TypeOK, CallKind, NoReturn, Outcome
  <2>4. ASSUME NEW shape \in ControlRequests, BeginControl(shape) PROVE TypeOK'
    BY <2>1, <2>4 DEF BeginControl, TypeOK, CallKind, NoReturn, Outcome
  <2>5. ASSUME NEW kind \in {"enqueue", "query", "control"}, Refuse(kind)
        PROVE  TypeOK'
    BY <2>5 DEF Refuse, TypeOK, CallKind, Outcome, ControlResult
  <2>6. CASE BeginProcessNext
    BY <2>6 DEF BeginProcessNext, TypeOK, CallKind, NoReturn, Outcome
  <2>7. CASE Pop
    <3>1. /\ queue' \in Seq(DaliRequest)
          /\ Len(queue') <= Capacity
          /\ Popped(queue) \in DaliRequest
      <4>1. queue # << >> /\ Len(queue) \in Nat
        BY <2>7, EmptySeq, LenProperties DEF Pop, TypeOK
      <4>2. /\ Head(queue) \in DaliRequest
            /\ Tail(queue) \in Seq(DaliRequest)
            /\ Len(Tail(queue)) = Len(queue) - 1
        BY <4>1, HeadTailProperties DEF TypeOK
      <4> QED  BY <2>7, <4>1, <4>2, CapacityAssumption
               DEF Pop, Popped, AfterPop, TypeOK
    <3>2. Started(Popped(queue)) \in Transaction
      BY <3>1 DEF Started, Transaction, Phase, PhyResult, TransactionStatus
    <3>3. exec' \in Transaction
      BY <2>7, <3>2 DEF Pop, Transaction, Phase, PhyResult, TransactionStatus
    <3> QED  BY <2>7, <3>1, <3>3 DEF Pop, TypeOK
  <2>8. CASE PopEmpty
    BY <2>8 DEF PopEmpty, TypeOK, NoCall, CallKind, Outcome
  <2>9. ASSUME NEW result \in PhyResults, Transmit(result) PROVE TypeOK'
    <3>1. PICK e : e = [exec EXCEPT !.attempts = @ + 1]
      OBVIOUS
    <3>2. e \in Transaction
      <4>1. exec \in Transaction /\ exec.attempts + 1 \in Nat
        BY DEF TypeOK, Transaction
      <4> QED  BY <3>1, <4>1 DEF Transaction
    <3>3. AfterAttempt(e, result, NoByte) \in Transaction
      BY <3>2, AfterAttemptType, PipelineAssumption
    <3>4. [e EXCEPT !.phase = "receive"] \in Transaction
      BY <3>2 DEF Transaction, Phase
    <3>5. exec' = [e EXCEPT !.phase = "receive"]
            \/ exec' = AfterAttempt(e, result, NoByte)
      BY <2>9, <3>1 DEF Transmit
    <3> QED  BY <2>9, <3>3, <3>4, <3>5 DEF Transmit, TypeOK
  <2>10. ASSUME NEW result \in PhyResults, NEW byte \in Bytes,
                Receive(result, byte)
         PROVE  TypeOK'
    <3>1. exec' \in Transaction
      BY <2>10, AfterAttemptType, PipelineAssumption DEF Receive, TypeOK
    <3> QED  BY <2>10, <3>1 DEF Receive, TypeOK
  <2>11. ASSUME NEW jitter \in Jitter, Backoff(jitter) PROVE TypeOK'
    <3>1. jitter \in Nat /\ BaseRetryDelayMs(exec.attempts - 1) \in Nat
      BY PipelineAssumption DEF MaximumJitterMs, BaseRetryDelayMs
    <3>2. PICK d : d = exec.delayMs + BaseRetryDelayMs(exec.attempts - 1) + jitter
      OBVIOUS
    <3>3. exec \in Transaction /\ d \in Nat
      BY <3>1, <3>2 DEF TypeOK, Transaction
    <3>4. exec' = [exec EXCEPT !.delayMs = d, !.phase = "transmit"]
      BY <2>11, <3>2 DEF Backoff
    <3>5. exec' \in Transaction
      BY <3>3, <3>4 DEF Transaction, Phase
    <3> QED  BY <2>11, <3>5 DEF Backoff, TypeOK
  <2>12. CASE Complete
    <3>1. quality' \in [CounterNames -> 0..CounterMax]
      BY <2>12, RecordedType DEF Complete, TypeOK
    <3>2. OutcomeFor(call.kind) \in Outcome
      BY DEF OutcomeFor, QueryOutcome, ControlOutcome, Outcome,
             DaliQueryOutcome, ControlResult
    <3>3. exec' \in Transaction
      BY <2>12 DEF Complete, TypeOK, Transaction, Phase
    <3>4. served' \in SUBSET Nat
      BY <2>12 DEF Complete, TypeOK, Transaction, DaliRequest
    <3>5. returned' \in [kind : CallKind, own : Nat, outcome : Outcome]
      BY <2>12, <3>2 DEF Complete, TypeOK
    <3>6. call' \in [kind : CallKind, own : Nat]
      BY <2>12 DEF Complete, NoCall, CallKind
    <3> QED  BY <2>12, <3>1, <3>3, <3>4, <3>5, <3>6 DEF Complete, TypeOK
  <2>13. CASE UNCHANGED vars
    BY <2>13 DEF vars, TypeOK
  <2> QED
    BY <2>2, <2>3, <2>4, <2>5, <2>6, <2>7, <2>8, <2>9, <2>10, <2>11, <2>12,
       <2>13 DEF Next, Begin, Proceed
<1> QED  BY <1>1, <1>2, PTL DEF Spec

-----------------------------------------------------------------------------
(* Order and conservation.                                                 *)

\* What the order and the conservation of requests rest on: tickets are handed
\* out once, so those in the queue are old, distinct, and neither in execution
\* nor recorded.
TicketInv ==
    /\ Ordered(queue)
    /\ \A r \in Elements(queue) :
         /\ r.ticket \in 1..accepted
         /\ r.ticket \notin InExecution
         /\ r.ticket \notin served
    /\ \A r, s \in Elements(queue) : r.ticket = s.ticket => r = s
    /\ InExecution \subseteq 1..accepted
    /\ served \subseteq 1..accepted
    /\ InExecution \cap served = {}
    /\ \A t \in 1..accepted :
         t \in InExecution \/ t \in served \/ \E r \in Elements(queue) : r.ticket = t

\* Requests are ordered by numbers.
LEMMA RequestNumbers ==
    \A r \in DaliRequest : r.priority \in CommandPriority /\ r.ticket \in Nat
BY DEF DaliRequest

\* The elements of a queue, index by index.
LEMMA ElementAt ==
    ASSUME NEW q, NEW i \in 1..Len(q)
    PROVE  q[i] \in Elements(q)
BY DEF Elements

\* Accepting a request hands out a new ticket and disturbs no other.
LEMMA AcceptKeepsTickets ==
    ASSUME TypeOK, TicketInv,
           NEW shape \in DirectRequests \cup QueryRequests \cup ControlRequests,
           Accept(shape)
    PROVE  /\ TicketInv'
           /\ Elements(queue') = Elements(queue) \cup {Ticketed(shape)}
<1>1. PICK r : r = Ticketed(shape)
  OBVIOUS
<1>2. r \in DaliRequest /\ r.ticket = accepted + 1 /\ accepted \in Nat
  BY <1>1, TicketedIsRequest DEF TypeOK, Ticketed
<1>3. \A i \in 1..Len(queue) : queue[i].ticket < r.ticket
  BY <1>2, ElementAt DEF TicketInv
<1>4. queue' = Enqueued(queue, r)
  BY <1>1 DEF Accept
<1>5. Ordered(queue') /\ Elements(queue') = Elements(queue) \cup {r}
  BY <1>2, <1>3, <1>4, RequestNumbers, EnqueuedKeepsOrder DEF TypeOK, TicketInv
<1>6. /\ accepted' = accepted + 1
      /\ UNCHANGED <<exec, served>>
  BY DEF Accept
<1>7. InExecution' = InExecution
  BY <1>6 DEF InExecution
<1>8. TicketInv'
  <2>1. \A t \in 1..accepted : t \in 1..accepted' /\ t # r.ticket
    BY <1>2, <1>6
  <2>2. \A t \in 1..accepted' : t \in 1..accepted \/ t = r.ticket
    BY <1>2, <1>6
  <2>3. r.ticket \in 1..accepted' /\ r.ticket \notin 1..accepted
    BY <1>2, <1>6
  <2> QED  BY <2>1, <2>2, <2>3, <1>5, <1>6, <1>7 DEF TicketInv
<1> QED  BY <1>1, <1>5, <1>8

\* Taking up the head of the queue moves its ticket into execution.
LEMMA PopKeepsTickets ==
    ASSUME TypeOK, TicketInv, Pop
    PROVE  /\ TicketInv'
           /\ Popped(queue) \in Elements(queue)
           /\ Elements(queue') = Elements(queue) \ {Popped(queue)}
           /\ \A r \in Elements(queue') : Before(Popped(queue), r)
           /\ exec'.request = Popped(queue)
           /\ exec'.phase # "idle"
<1>1. PICK h : h = Popped(queue)
  OBVIOUS
<1>2. /\ h \in Elements(queue)
      /\ Ordered(queue')
      /\ Elements(queue') = Elements(queue) \ {h}
      /\ \A r \in Elements(queue') : Before(h, r)
  BY <1>1, RequestNumbers, PopTakesTheFirst DEF Pop, TypeOK, TicketInv
<1>3. exec'.request = h /\ exec'.phase # "idle"
  BY <1>1 DEF Pop, Started
<1>4. InExecution' = {h.ticket} /\ InExecution = {}
  BY <1>3 DEF InExecution, Pop
<1>5. UNCHANGED <<accepted, served>>
  BY DEF Pop
<1>6. TicketInv'
  BY <1>2, <1>4, <1>5 DEF TicketInv
<1> QED  BY <1>1, <1>2, <1>3, <1>6

\* The steps of a transaction leave the request in execution where it is.
LEMMA AttemptKeepsRequest ==
    ASSUME TypeOK,
           \/ \E result \in PhyResults : Transmit(result)
           \/ \E result \in PhyResults, byte \in Bytes : Receive(result, byte)
           \/ \E jitter \in Jitter : Backoff(jitter)
    PROVE  /\ exec.phase # "idle" /\ exec'.phase # "idle"
           /\ exec'.request = exec.request
           /\ UNCHANGED <<queue, accepted, call, quality, served, returned>>
<1>1. \A e \in Transaction : \A result, byte :
        /\ AfterAttempt(e, result, byte).phase # "idle"
        /\ AfterAttempt(e, result, byte).request = e.request
        /\ AfterAttempt(e, result, byte).attempts = e.attempts
  BY DEF AfterAttempt, Transaction
<1>2. ASSUME NEW result \in PhyResults, Transmit(result)
      PROVE  /\ exec.phase # "idle" /\ exec'.phase # "idle"
             /\ exec'.request = exec.request
  <2>1. PICK e : e = [exec EXCEPT !.attempts = @ + 1]
    OBVIOUS
  <2>2. e \in Transaction /\ e.request = exec.request
    <3>1. exec \in Transaction /\ exec.attempts + 1 \in Nat
      BY DEF TypeOK, Transaction
    <3> QED  BY <2>1, <3>1 DEF Transaction
  <2>3. exec' = [e EXCEPT !.phase = "receive"]
          \/ exec' = AfterAttempt(e, result, NoByte)
    BY <1>2, <2>1 DEF Transmit
  <2>4. [e EXCEPT !.phase = "receive"].request = e.request
          /\ [e EXCEPT !.phase = "receive"].phase = "receive"
    BY <2>2 DEF Transaction
  <2>5. exec.phase = "transmit"
    BY <1>2 DEF Transmit
  <2>6. exec'.phase # "idle" /\ exec'.request = e.request
    <3>1. CASE exec' = [e EXCEPT !.phase = "receive"]
      BY <2>4, <3>1
    <3>2. CASE exec' = AfterAttempt(e, result, NoByte)
      BY <1>1, <2>2, <3>2
    <3> QED  BY <2>3, <3>1, <3>2
  <2> QED  BY <2>2, <2>5, <2>6
<1>3. ASSUME NEW result \in PhyResults, NEW byte \in Bytes, Receive(result, byte)
      PROVE  /\ exec.phase # "idle" /\ exec'.phase # "idle"
             /\ exec'.request = exec.request
  BY <1>1, <1>3 DEF Receive, TypeOK
<1>4. ASSUME NEW jitter \in Jitter, Backoff(jitter)
      PROVE  /\ exec.phase # "idle" /\ exec'.phase # "idle"
             /\ exec'.request = exec.request
  <2>1. exec \in Transaction
    BY DEF TypeOK
  <2>2. PICK d : exec' = [exec EXCEPT !.delayMs = d, !.phase = "transmit"]
    BY <1>4 DEF Backoff
  <2>3. \A e \in Transaction : \A x :
          LET f == [e EXCEPT !.delayMs = x, !.phase = "transmit"]
          IN  f.phase = "transmit" /\ f.request = e.request
    BY DEF Transaction
  <2>4. exec'.phase = "transmit" /\ exec'.request = exec.request
    BY <2>1, <2>2, <2>3
  <2> QED  BY <1>4, <2>4 DEF Backoff
<1> QED  BY <1>2, <1>3, <1>4 DEF Transmit, Receive, Backoff

\* Recording a result moves the ticket in execution to the recorded ones.
LEMMA CompleteKeepsTickets ==
    ASSUME TypeOK, TicketInv, Complete
    PROVE  TicketInv'
<1>1. /\ InExecution = {exec.request.ticket}
      /\ InExecution' = {}
      /\ served' = served \cup InExecution
      /\ UNCHANGED <<queue, accepted>>
  BY DEF Complete, InExecution, TypeOK, Transaction
<1> QED  BY <1>1 DEF TicketInv

LEMMA TicketStep == TypeOK /\ TicketInv /\ [Next]_vars => TicketInv'
<1> SUFFICES ASSUME TypeOK, TicketInv, [Next]_vars PROVE TicketInv'
  OBVIOUS
<1>1. ASSUME NEW shape \in DirectRequests \cup QueryRequests \cup ControlRequests,
             Accept(shape)
      PROVE  TicketInv'
  BY <1>1, AcceptKeepsTickets
<1>2. CASE Begin
  <2>1. ASSUME UNCHANGED <<queue, accepted, exec, served>> PROVE TicketInv'
    BY <2>1 DEF TicketInv, InExecution
  <2> QED
    BY <1>1, <1>2, <2>1
    DEF Begin, DirectEnqueue, BeginQuery, BeginControl, Refuse, BeginProcessNext
<1>3. CASE Pop
  BY <1>3, PopKeepsTickets
<1>4. CASE PopEmpty
  BY <1>4 DEF PopEmpty, TicketInv, InExecution
<1>5. CASE \/ \E result \in PhyResults : Transmit(result)
           \/ \E result \in PhyResults, byte \in Bytes : Receive(result, byte)
           \/ \E jitter \in Jitter : Backoff(jitter)
  <2>1. /\ InExecution' = InExecution
        /\ UNCHANGED <<queue, accepted, served>>
    BY <1>5, AttemptKeepsRequest DEF InExecution
  <2> QED  BY <2>1 DEF TicketInv
<1>6. CASE Complete
  BY <1>6, CompleteKeepsTickets
<1>7. CASE UNCHANGED vars
  BY <1>7 DEF vars, TicketInv, InExecution
<1> QED  BY <1>2, <1>3, <1>4, <1>5, <1>6, <1>7 DEF Next, Proceed

LEMMA TicketsCorrect == Spec => []TicketInv
<1>1. Init => TicketInv
  BY DEF Init, TicketInv, Ordered, Elements, InExecution
<1> QED  BY <1>1, TicketStep, TypeCorrect, PTL DEF Spec

\* The queue is served by urgency and then by age.
THEOREM OrderCorrect == Spec => []QueueOrdered
<1>1. TicketInv => QueueOrdered
  BY DEF TicketInv, QueueOrdered
<1> QED  BY <1>1, TicketsCorrect, PTL

\* No request is lost, executed twice or reported early.
THEOREM OnceCorrect == Spec => []EachRequestOnce
<1>1. ASSUME TypeOK, TicketInv PROVE EachRequestOnce
  <2>1. \A i, j \in 1..Len(queue) : i # j => Before(queue[i], queue[j])
                                              \/ Before(queue[j], queue[i])
    <3>1. Len(queue) \in Nat
      BY <1>1, LenProperties DEF TypeOK
    <3> QED  BY <1>1, <3>1 DEF TicketInv, Ordered
  <2>2. \A i \in 1..Len(queue) :
          queue[i] \in Elements(queue) /\ queue[i] \in DaliRequest
    BY <1>1, ElementAt, ElementOfSeq DEF TypeOK
  <2>3. \A r \in DaliRequest : ~ Before(r, r)
    BY DEF Before, DaliRequest, CommandPriority
  <2>4. \A i, j \in 1..Len(queue) :
          queue[i].ticket = queue[j].ticket => i = j
    <3> SUFFICES ASSUME NEW i \in 1..Len(queue), NEW j \in 1..Len(queue),
                        queue[i].ticket = queue[j].ticket, i # j
                 PROVE  FALSE
      OBVIOUS
    <3>1. queue[i] = queue[j]
      BY <1>1, <2>2 DEF TicketInv
    <3> QED  BY <2>1, <2>2, <2>3, <3>1
  <2>5. \A t : t \in Waiting <=> \E r \in Elements(queue) : r.ticket = t
    BY ElementsAreIndexed DEF Waiting
  <2>6. \A t \in Waiting : t \in 1..accepted /\ t \notin InExecution /\ t \notin served
    BY <1>1, <2>5 DEF TicketInv
  <2>7. \A t \in 1..accepted : t \in InExecution \/ t \in served \/ t \in Waiting
    BY <1>1, <2>5 DEF TicketInv
  <2>8. /\ InExecution \subseteq 1..accepted
        /\ served \subseteq 1..accepted
        /\ InExecution \cap served = {}
    BY <1>1 DEF TicketInv
  <2> QED  BY <2>4, <2>6, <2>7, <2>8 DEF EachRequestOnce
<1> QED  BY <1>1, TypeCorrect, TicketsCorrect, PTL

-----------------------------------------------------------------------------
(* The retry budget.                                                       *)

\* What a transaction has waited when it has waited n times.
DelayWithin(e, n) ==
    /\ BaseDelayOf(n) <= e.delayMs
    /\ e.delayMs <= BaseDelayOf(n) + MaximumJitterMs * n

\* Where the last attempt of a transaction is known to have been made.
Attempted(e) ==
    /\ IsExecutable(e.request)
    /\ e.attempts \in 1..e.request.maxRetries + 1
    /\ DelayWithin(e, e.attempts - 1)

\* RetryBudget, phase by phase: how far each phase may have come.
BudgetInv(e) ==
    /\ e.phase = "transmit" =>
         /\ IsExecutable(e.request)
         /\ e.attempts <= e.request.maxRetries
         /\ e.attempts > 0 => IsRetryable(e.last)
         /\ DelayWithin(e, e.attempts)
    /\ e.phase = "receive" => Attempted(e)
    /\ e.phase = "backoff" =>
         /\ Attempted(e)
         /\ e.attempts <= e.request.maxRetries
         /\ IsRetryable(e.last)
    /\ e.phase = "complete" =>
         \/ /\ ~ IsExecutable(e.request)
            /\ e.attempts = 0
            /\ e.delayMs = 0
            /\ e.status = "InvalidRequest"
         \/ /\ Attempted(e)
            /\ e.status = "RetriesExhausted" <=>
                 /\ e.attempts = e.request.maxRetries + 1
                 /\ IsRetryable(e.last)

\* One more wait, after the attempt with index n - 1.
LEMMA BaseDelayStep ==
    ASSUME NEW n \in Nat \ {0}
    PROVE  /\ BaseDelayOf(n) = BaseDelayOf(n - 1) + BaseRetryDelayMs(n - 1)
           /\ BaseDelayOf(n) \in Nat /\ BaseDelayOf(n - 1) \in Nat
           /\ BaseRetryDelayMs(n - 1) \in Nat
<1>1. CASE n = 1
  BY <1>1 DEF BaseDelayOf, BaseRetryDelayMs
<1>2. CASE n = 2
  BY <1>2 DEF BaseDelayOf, BaseRetryDelayMs
<1>3. CASE n > 2
  BY <1>3 DEF BaseDelayOf, BaseRetryDelayMs
<1> QED  BY <1>1, <1>2, <1>3

\* However an attempt ends, the transaction stays within its budget.
LEMMA AfterAttemptBudget ==
    ASSUME NEW e \in Transaction, Attempted(e),
           NEW result \in PhyResult, NEW byte \in Bytes \cup {NoByte}
    PROVE  BudgetInv(AfterAttempt(e, result, byte))
<1>1. PICK a : a = AfterAttempt(e, result, byte)
  OBVIOUS
<1>2. /\ a.request = e.request
      /\ a.attempts = e.attempts
      /\ a.delayMs = e.delayMs
      /\ a.last = result
      /\ a.phase \in {"complete", "backoff"}
  BY <1>1 DEF AfterAttempt, Transaction
<1>3. Attempted(a)
  BY <1>2 DEF Attempted, DelayWithin
<1>4. e.attempts \in Nat /\ e.request.maxRetries \in Nat
  BY DEF Transaction, DaliRequest
<1>5. CASE result = "Ok"
  <2>1. a.phase = "complete" /\ a.status = "Ok"
    BY <1>1, <1>5 DEF AfterAttempt, Transaction
  <2> QED  BY <1>1, <1>2, <1>3, <1>5, <2>1 DEF BudgetInv, IsRetryable
<1>6. CASE result # "Ok" /\ ~ IsRetryable(result)
  <2>1. a.phase = "complete" /\ a.status = MapTerminalStatus(result)
    BY <1>1, <1>6 DEF AfterAttempt, Transaction
  <2>2. MapTerminalStatus(result) # "RetriesExhausted"
    BY <1>6 DEF MapTerminalStatus, IsRetryable, PhyResult
  <2> QED  BY <1>1, <1>2, <1>3, <1>6, <2>1, <2>2 DEF BudgetInv
<1>7. CASE IsRetryable(result) /\ e.attempts - 1 = e.request.maxRetries
  <2>1. a.phase = "complete" /\ a.status = "RetriesExhausted"
    BY <1>1, <1>7 DEF AfterAttempt, Transaction, IsRetryable
  <2>2. a.attempts = a.request.maxRetries + 1
    BY <1>2, <1>4, <1>7
  <2> QED  BY <1>1, <1>2, <1>3, <1>7, <2>1, <2>2 DEF BudgetInv
<1>8. CASE IsRetryable(result) /\ e.attempts - 1 # e.request.maxRetries
  <2>1. a.phase = "backoff"
    BY <1>1, <1>8 DEF AfterAttempt, Transaction, IsRetryable
  <2>2. a.attempts <= a.request.maxRetries
    BY <1>2, <1>4, <1>8 DEF Attempted
  <2> QED  BY <1>1, <1>2, <1>3, <1>8, <2>1, <2>2 DEF BudgetInv
<1> QED  BY <1>5, <1>6, <1>7, <1>8

LEMMA BudgetStep == TypeOK /\ BudgetInv(exec) /\ [Next]_vars => BudgetInv(exec)'
<1> SUFFICES ASSUME TypeOK, BudgetInv(exec), [Next]_vars PROVE BudgetInv(exec')
  OBVIOUS
<1>0. exec \in Transaction /\ exec.attempts \in Nat /\ exec.delayMs \in Nat
      /\ exec.request \in DaliRequest /\ exec.request.maxRetries \in Nat
  BY DEF TypeOK, Transaction, DaliRequest
<1>1. ASSUME UNCHANGED exec PROVE BudgetInv(exec')
  BY <1>1
<1>2. CASE Begin
  BY <1>1, <1>2
  DEF Begin, DirectEnqueue, BeginQuery, BeginControl, Accept, Refuse,
      BeginProcessNext
<1>3. CASE Pop
  <2>1. PICK h : h = Popped(queue)
    OBVIOUS
  <2>2. h \in DaliRequest /\ h.maxRetries \in Nat
    <3>1. queue # << >>
      BY <1>3, EmptySeq DEF Pop, TypeOK
    <3>2. h \in DaliRequest
      BY <2>1, <3>1, HeadTailProperties DEF TypeOK, Popped
    <3> QED  BY <3>2 DEF DaliRequest
  <2>3. CASE IsExecutable(h)
    <3>1. exec' = Started(h)
      BY <1>3, <2>1, <2>3 DEF Pop
    <3>2. /\ exec'.phase = "transmit" /\ exec'.request = h
          /\ exec'.attempts = 0 /\ exec'.delayMs = 0
      BY <3>1 DEF Started
    <3>3. DelayWithin(exec', 0)
      BY <3>2 DEF DelayWithin, BaseDelayOf, MaximumJitterMs
    <3> QED  BY <2>2, <2>3, <3>2, <3>3 DEF BudgetInv
  <2>4. CASE ~ IsExecutable(h)
    <3>1. exec' = [Started(h) EXCEPT !.phase = "complete",
                                     !.status = "InvalidRequest",
                                     !.last = "InvalidArgument"]
      BY <1>3, <2>1, <2>4 DEF Pop
    <3>2. /\ exec'.phase = "complete" /\ exec'.request = h
          /\ exec'.attempts = 0 /\ exec'.delayMs = 0
          /\ exec'.status = "InvalidRequest"
      BY <3>1 DEF Started
    <3> QED  BY <2>4, <3>2 DEF BudgetInv
  <2> QED  BY <2>3, <2>4
<1>4. CASE PopEmpty
  BY <1>1, <1>4 DEF PopEmpty
<1>5. ASSUME NEW result \in PhyResults, Transmit(result) PROVE BudgetInv(exec')
  <2>1. PICK e : e = [exec EXCEPT !.attempts = @ + 1]
    OBVIOUS
  <2>2. /\ e \in Transaction
        /\ e.attempts = exec.attempts + 1
        /\ e.request = exec.request
        /\ e.delayMs = exec.delayMs
    <3>1. PICK n \in Nat : n = exec.attempts + 1
      BY <1>0
    <3>2. e = [exec EXCEPT !.attempts = n]
      BY <2>1, <3>1
    <3> QED  BY <1>0, <3>1, <3>2 DEF Transaction
  <2>3. Attempted(e)
    <3>1. e.attempts - 1 = exec.attempts
      BY <1>0, <2>2
    <3>2. /\ IsExecutable(exec.request)
          /\ exec.attempts <= exec.request.maxRetries
          /\ DelayWithin(exec, exec.attempts)
      BY <1>5 DEF Transmit, BudgetInv
    <3>3. e.attempts \in 1..e.request.maxRetries + 1
      BY <1>0, <2>2, <3>2
    <3>4. DelayWithin(e, e.attempts - 1)
      BY <2>2, <3>1, <3>2 DEF DelayWithin
    <3> QED  BY <2>2, <3>2, <3>3, <3>4 DEF Attempted
  <2>4. CASE exec' = [e EXCEPT !.phase = "receive"]
    <3>1. /\ exec'.phase = "receive"
          /\ exec'.request = e.request
          /\ exec'.attempts = e.attempts
          /\ exec'.delayMs = e.delayMs
      BY <2>2, <2>4 DEF Transaction
    <3>2. Attempted(exec')
      BY <2>3, <3>1 DEF Attempted, DelayWithin
    <3> QED  BY <3>1, <3>2 DEF BudgetInv
  <2>5. CASE exec' = AfterAttempt(e, result, NoByte)
    BY <2>2, <2>3, <2>5, AfterAttemptBudget, PipelineAssumption
  <2>6. exec' = [e EXCEPT !.phase = "receive"]
          \/ exec' = AfterAttempt(e, result, NoByte)
    BY <1>5, <2>1 DEF Transmit
  <2> QED  BY <2>4, <2>5, <2>6
<1>6. ASSUME NEW result \in PhyResults, NEW byte \in Bytes, Receive(result, byte)
      PROVE  BudgetInv(exec')
  <2>1. Attempted(exec) /\ exec' = AfterAttempt(exec, result, byte)
    BY <1>6 DEF Receive, BudgetInv
  <2> QED  BY <1>0, <2>1, AfterAttemptBudget, PipelineAssumption
<1>7. ASSUME NEW jitter \in Jitter, Backoff(jitter) PROVE BudgetInv(exec')
  <2>1. PICK d : d = exec.delayMs + BaseRetryDelayMs(exec.attempts - 1) + jitter
    OBVIOUS
  <2>2. exec' = [exec EXCEPT !.delayMs = d, !.phase = "transmit"]
    BY <1>7, <2>1 DEF Backoff
  <2>3. \A e \in Transaction : \A x :
          LET f == [e EXCEPT !.delayMs = x, !.phase = "transmit"]
          IN  /\ f.phase = "transmit" /\ f.request = e.request
              /\ f.attempts = e.attempts /\ f.last = e.last /\ f.delayMs = x
    BY DEF Transaction
  <2>4. /\ exec'.phase = "transmit" /\ exec'.request = exec.request
        /\ exec'.attempts = exec.attempts /\ exec'.last = exec.last
        /\ exec'.delayMs = d
    BY <1>0, <2>2, <2>3
  <2>5. /\ IsExecutable(exec.request)
        /\ exec.attempts \in Nat \ {0}
        /\ exec.attempts <= exec.request.maxRetries
        /\ IsRetryable(exec.last)
        /\ DelayWithin(exec, exec.attempts - 1)
    BY <1>0, <1>7 DEF Backoff, BudgetInv, Attempted
  <2>6. jitter \in 0..25
    BY PipelineAssumption DEF MaximumJitterMs
  <2>7. DelayWithin(exec', exec.attempts)
    BY <1>0, <2>1, <2>4, <2>5, <2>6, BaseDelayStep
    DEF DelayWithin, MaximumJitterMs
  <2> QED  BY <2>4, <2>5, <2>7 DEF BudgetInv
<1>8. CASE Complete
  <2>1. exec'.phase = "idle"
    BY <1>0, <1>8 DEF Complete, Transaction
  <2> QED  BY <2>1 DEF BudgetInv
<1>9. CASE UNCHANGED vars
  BY <1>1, <1>9 DEF vars
<1> QED
  BY <1>2, <1>3, <1>4, <1>5, <1>6, <1>7, <1>8, <1>9 DEF Next, Proceed

LEMMA BudgetKept == Spec => []BudgetInv(exec)
<1>1. Init => BudgetInv(exec)
  BY DEF Init, BudgetInv, Started
<1> QED  BY <1>1, BudgetStep, TypeCorrect, PTL DEF Spec

\* No transaction outruns its retry budget, gives up before it or reports
\* otherwise, and the time spent between its attempts is bounded accordingly.
THEOREM BudgetCorrect == Spec => []RetryBudget
<1>1. ASSUME TypeOK, BudgetInv(exec) PROVE RetryBudget
  <2> SUFFICES ASSUME exec.phase # "idle" PROVE RetryBudget
    BY DEF RetryBudget
  <2>1. /\ exec.phase \in {"transmit", "receive", "backoff", "complete"}
        /\ exec.attempts \in Nat
        /\ exec.request.maxRetries \in Nat
        /\ exec.delayMs \in Nat
        /\ AbsoluteMaxRetries \in Nat
    BY <1>1, TransactionAssumption DEF TypeOK, Transaction, DaliRequest, Phase
  <2>2. CASE exec.phase = "transmit"
    <3>1. Waits = exec.attempts
      BY <2>1, <2>2 DEF Waits
    <3> QED  BY <1>1, <2>1, <2>2, <3>1
             DEF BudgetInv, RetryBudget, DelayWithin, IsExecutable
  <2>3. CASE exec.phase # "transmit" /\ Attempted(exec)
    <3>1. Waits = exec.attempts - 1
      BY <2>1, <2>3 DEF Waits, Attempted
    <3>2. /\ exec.attempts <= exec.request.maxRetries + 1
          /\ exec.attempts <= AbsoluteMaxRetries + 1
          /\ exec.delayMs >= BaseDelayOf(Waits)
          /\ exec.delayMs <= BaseDelayOf(Waits) + MaximumJitterMs * Waits
      BY <2>1, <2>3, <3>1
      DEF Attempted, DelayWithin, IsExecutable, BaseDelayOf, MaximumJitterMs
    <3>3. exec.phase = "backoff" =>
            exec.attempts <= exec.request.maxRetries /\ IsRetryable(exec.last)
      BY <1>1 DEF BudgetInv
    <3>4. exec.phase = "complete" =>
            (exec.status = "RetriesExhausted" <=>
               /\ exec.attempts = exec.request.maxRetries + 1
               /\ IsRetryable(exec.last))
      BY <1>1, <2>1, <2>3 DEF BudgetInv, Attempted
    <3> QED  BY <2>1, <2>3, <3>2, <3>3, <3>4 DEF RetryBudget
  <2>4. CASE exec.phase # "transmit" /\ ~ Attempted(exec)
    <3>1. /\ exec.phase = "complete"
          /\ exec.attempts = 0
          /\ exec.delayMs = 0
          /\ exec.status = "InvalidRequest"
      BY <1>1, <2>1, <2>4 DEF BudgetInv
    <3>2. Waits = 0 /\ BaseDelayOf(0) = 0
      BY <3>1 DEF Waits, BaseDelayOf
    <3>3. exec.attempts # exec.request.maxRetries + 1
      BY <2>1, <3>1
    <3> QED  BY <2>1, <3>1, <3>2, <3>3 DEF RetryBudget, MaximumJitterMs
  <2> QED  BY <2>2, <2>3, <2>4
<1> QED  BY <1>1, TypeCorrect, BudgetKept, PTL

-----------------------------------------------------------------------------
(* The pipeline implements the request service.                            *)

\* What the service is serving, in terms of the pipeline's state.
Serving == IF exec.phase = "idle" THEN {} ELSE {exec.request}

\* A step that moves a transaction on puts at most one more frame on the bus.
LEMMA AttemptSends ==
    ASSUME TypeOK, BudgetInv(exec),
           \/ \E result \in PhyResults : Transmit(result)
           \/ \E result \in PhyResults, byte \in Bytes : Receive(result, byte)
           \/ \E jitter \in Jitter : Backoff(jitter)
    PROVE  \/ exec'.attempts = exec.attempts
           \/ /\ exec'.attempts = exec.attempts + 1
              /\ IsExecutable(exec.request)
              /\ exec.attempts <= exec.request.maxRetries
<1>1. exec \in Transaction
  BY DEF TypeOK
<1>2. \A e \in Transaction : \A result, byte :
        AfterAttempt(e, result, byte).attempts = e.attempts
  BY DEF AfterAttempt, Transaction
<1>3. ASSUME NEW result \in PhyResults, Transmit(result)
      PROVE  /\ exec'.attempts = exec.attempts + 1
             /\ IsExecutable(exec.request)
             /\ exec.attempts <= exec.request.maxRetries
  <2>1. PICK e : e = [exec EXCEPT !.attempts = @ + 1]
    OBVIOUS
  <2>2. e \in Transaction /\ e.attempts = exec.attempts + 1
    <3>1. PICK n \in Nat : n = exec.attempts + 1
      BY <1>1 DEF Transaction
    <3>2. e = [exec EXCEPT !.attempts = n]
      BY <2>1, <3>1
    <3> QED  BY <1>1, <3>1, <3>2 DEF Transaction
  <2>3. [e EXCEPT !.phase = "receive"].attempts = e.attempts
    BY <2>2 DEF Transaction
  <2>4. CASE exec' = [e EXCEPT !.phase = "receive"]
    BY <1>3, <2>2, <2>3, <2>4 DEF Transmit, BudgetInv
  <2>5. CASE exec' = AfterAttempt(e, result, NoByte)
    BY <1>2, <1>3, <2>2, <2>5 DEF Transmit, BudgetInv
  <2> QED  BY <1>3, <2>1, <2>4, <2>5 DEF Transmit
<1>4. ASSUME NEW result \in PhyResults, NEW byte \in Bytes, Receive(result, byte)
      PROVE  exec'.attempts = exec.attempts
  BY <1>1, <1>2, <1>4 DEF Receive
<1>5. ASSUME NEW jitter \in Jitter, Backoff(jitter)
      PROVE  exec'.attempts = exec.attempts
  <2>1. PICK d : exec' = [exec EXCEPT !.delayMs = d, !.phase = "transmit"]
    BY <1>5 DEF Backoff
  <2>2. \A e \in Transaction : \A x :
          [e EXCEPT !.delayMs = x, !.phase = "transmit"].attempts = e.attempts
    BY DEF Transaction
  <2> QED  BY <1>1, <2>1, <2>2
<1> QED  BY <1>3, <1>4, <1>5

LEMMA ServiceStep ==
    ASSUME TypeOK, TicketInv, BudgetInv(exec), [Next]_vars
    PROVE  [Service!Next]_(Service!vars)
<1>1. ASSUME UNCHANGED <<queue, exec, served>> PROVE UNCHANGED Service!vars
  BY <1>1 DEF Service!vars
<1>2. ASSUME NEW shape \in DirectRequests \cup QueryRequests \cup ControlRequests,
             Accept(shape)
      PROVE  Service!Next
  <2>1. PICK r : r = Ticketed(shape)
    OBVIOUS
  <2>2. /\ Elements(queue') = Elements(queue) \cup {r}
        /\ r.ticket = accepted + 1
        /\ accepted \in Nat
    BY <1>2, <2>1, AcceptKeepsTickets DEF Ticketed, TypeOK
  <2>3. UNCHANGED <<exec, served>>
    BY <1>2 DEF Accept
  <2>4. \A t \in 1..accepted : t < r.ticket
    BY <2>2
  <2>5. \A s \in Serving : s.ticket < r.ticket
    BY <2>4 DEF Serving, TicketInv, InExecution
  <2>6. Service!Accept(r)
    BY <2>2, <2>3, <2>4, <2>5 DEF Service!Accept, TicketInv, Serving
  <2> QED  BY <2>2, <2>6 DEF Service!Next
<1>3. CASE Begin
  BY <1>1, <1>2, <1>3
  DEF Begin, DirectEnqueue, BeginQuery, BeginControl, Refuse, BeginProcessNext
<1>4. CASE Pop
  <2>1. PICK h : h = Popped(queue)
    OBVIOUS
  <2>2. /\ h \in Elements(queue)
        /\ Elements(queue') = Elements(queue) \ {h}
        /\ \A r \in Elements(queue) \ {h} : Before(h, r)
        /\ exec'.request = h
        /\ exec'.phase # "idle"
    BY <1>4, <2>1, PopKeepsTickets
  <2>3. exec.phase = "idle" /\ served' = served /\ exec'.attempts = 0
    BY <1>4 DEF Pop, Started
  <2>4. \A r \in Elements(queue) \ {h} : Service!MoreUrgent(h, r)
    BY <2>2 DEF Service!MoreUrgent, Before
  <2>5. Service!TakeUp(h)
    BY <2>2, <2>3, <2>4 DEF Service!TakeUp
  <2> QED  BY <2>2, <2>5 DEF Service!Next
<1>5. CASE PopEmpty
  BY <1>1, <1>5 DEF PopEmpty
<1>6. CASE \/ \E result \in PhyResults : Transmit(result)
           \/ \E result \in PhyResults, byte \in Bytes : Receive(result, byte)
           \/ \E jitter \in Jitter : Backoff(jitter)
  <2>1. /\ exec.phase # "idle" /\ exec'.phase # "idle"
        /\ exec'.request = exec.request
        /\ UNCHANGED <<queue, served>>
    BY <1>6, AttemptKeepsRequest
  <2>2. CASE exec'.attempts = exec.attempts
    BY <2>1, <2>2 DEF Service!vars
  <2>3. CASE /\ exec'.attempts = exec.attempts + 1
             /\ IsExecutable(exec.request)
             /\ exec.attempts <= exec.request.maxRetries
    <3>1. Service!Send(exec.request)
      BY <2>1, <2>3 DEF Service!Send, Service!Sendable, IsExecutable
    <3> QED  BY <2>1, <3>1 DEF Service!Next
  <2> QED  BY <1>6, <2>2, <2>3, AttemptSends
<1>7. CASE Complete
  <2>1. /\ exec.phase = "complete"
        /\ served' = served \cup {exec.request.ticket}
        /\ UNCHANGED queue
    BY <1>7 DEF Complete
  <2>2. exec'.phase = "idle"
    BY <1>7 DEF Complete, TypeOK, Transaction
  <2>3. exec.request.ticket \notin served
    BY <2>1 DEF TicketInv, InExecution
  <2>4. IsExecutable(exec.request) <=> exec.attempts > 0
    BY <2>1 DEF BudgetInv, Attempted, TypeOK, Transaction, DaliRequest
  <2>5. Service!Settle(exec.request)
    BY <2>1, <2>2, <2>3, <2>4
    DEF Service!Settle, Service!Sendable, IsExecutable
  <2> QED  BY <2>1, <2>5 DEF Service!Next
<1>8. CASE UNCHANGED vars
  BY <1>1, <1>8 DEF vars
<1> QED
  BY <1>3, <1>4, <1>5, <1>6, <1>7, <1>8 DEF Next, Proceed

\* The pipeline is a request service: every step of it is a step of the
\* service or invisible to it.
THEOREM ServiceImplemented == Spec => ImplementsService
<1>1. Init => Service!Init
  BY DEF Init, Service!Init, Elements
<1>2. TypeOK /\ TicketInv /\ BudgetInv(exec) /\ [Next]_vars
        => [Service!Next]_(Service!vars)
  BY ServiceStep
<1> QED
  BY <1>1, <1>2, TypeCorrect, TicketsCorrect, BudgetKept, PTL
  DEF Spec, ImplementsService, Service!Spec

-----------------------------------------------------------------------------
(* Whose result a synchronous caller gets.                                 *)

Synchronous(kind) == kind \in {"query", "control"}

\* The request with ticket own is still queued, behind the one with request.
QueuedBehind(own, request) ==
    \E r \in Elements(queue) :
        /\ r.ticket = own
        /\ request.priority <= r.priority
        /\ request.ticket < own

\* While a synchronous call lasts its request is the youngest of all, and is in
\* the queue until it, or one that goes before it, is taken up.
CallInv ==
    /\ ~ Idle => returned = NoReturn
    /\ exec.phase # "idle" => ~ Idle
    /\ Synchronous(call.kind) =>
         /\ call.own = accepted
         /\ exec.phase = "idle" => \E r \in Elements(queue) : r.ticket = call.own
         /\ exec.phase # "idle" => \/ exec.request.ticket = call.own
                                   \/ QueuedBehind(call.own, exec.request)
    /\ GotResult => \/ exec.request.ticket = returned.own
                    \/ QueuedBehind(returned.own, exec.request)

LEMMA CallStep ==
    ASSUME TypeOK, TicketInv, CallInv, [Next]_vars
    PROVE  CallInv'
<1>1. CASE UNCHANGED vars
  BY <1>1 DEF vars, CallInv, Idle, GotResult, QueuedBehind
<1>2. ASSUME NEW shape \in DirectRequests \cup QueryRequests \cup ControlRequests,
             Accept(shape), Idle
      PROVE  /\ exec'.phase = "idle"
             /\ accepted' = accepted + 1
             /\ \E r \in Elements(queue') : r.ticket = accepted'
  <2>1. Elements(queue') = Elements(queue) \cup {Ticketed(shape)}
    BY <1>2, AcceptKeepsTickets
  <2> QED  BY <1>2, <2>1 DEF Accept, Ticketed, CallInv
<1>3. ASSUME NEW shape \in DirectRequests, DirectEnqueue(shape) PROVE CallInv'
  BY <1>2, <1>3
  DEF DirectEnqueue, CallInv, GotResult, Synchronous, Idle, NoCall
<1>4. ASSUME NEW shape \in QueryRequests, BeginQuery(shape) PROVE CallInv'
  BY <1>2, <1>4 DEF BeginQuery, CallInv, GotResult, NoReturn, Accept
<1>5. ASSUME NEW shape \in ControlRequests, BeginControl(shape) PROVE CallInv'
  BY <1>2, <1>5 DEF BeginControl, CallInv, GotResult, NoReturn, Accept
<1>6. ASSUME NEW kind \in {"enqueue", "query", "control"}, Refuse(kind)
      PROVE  CallInv'
  BY <1>6 DEF Refuse, CallInv, GotResult, Synchronous, Idle, NoCall
<1>7. CASE BeginProcessNext
  <2>1. /\ call'.kind = "processNext"
        /\ returned' = NoReturn
        /\ exec' = exec
        /\ exec.phase = "idle"
    BY <1>7 DEF BeginProcessNext, CallInv
  <2> QED  BY <2>1 DEF CallInv, GotResult, Synchronous, NoReturn
<1>8. CASE Pop
  <2>1. PICK h : h = Popped(queue)
    OBVIOUS
  <2>2. /\ h \in Elements(queue)
        /\ Elements(queue') = Elements(queue) \ {h}
        /\ \A r \in Elements(queue') : Before(h, r)
        /\ exec'.request = h
        /\ exec'.phase # "idle"
    BY <1>8, <2>1, PopKeepsTickets
  <2>3. /\ ~ Idle
        /\ exec.phase = "idle"
        /\ UNCHANGED <<accepted, call, served, returned>>
    BY <1>8 DEF Pop
  <2>4. ASSUME Synchronous(call.kind), h.ticket # call.own
        PROVE  QueuedBehind(call.own, h)'
    <3>1. PICK r \in Elements(queue) : r.ticket = call.own
      BY <2>3, <2>4 DEF CallInv
    <3>2. r \in Elements(queue') /\ Before(h, r)
      BY <2>2, <2>4, <3>1
    <3>3. \A x \in Elements(queue) : x \in DaliRequest
      BY ElementsAreIndexed, ElementOfSeq DEF TypeOK
    <3>4. h.ticket < call.own
      BY <2>2, <2>4 DEF CallInv, TicketInv, TypeOK
    <3>5. h.priority <= r.priority
      BY <2>2, <3>1, <3>2, <3>3 DEF Before, DaliRequest, CommandPriority
    <3> QED  BY <2>3, <3>1, <3>2, <3>4, <3>5 DEF QueuedBehind
  <2>5. returned = NoReturn
    BY <2>3 DEF CallInv
  <2>6. ~ GotResult'
    BY <2>3, <2>5 DEF GotResult, NoReturn
  <2>7. Synchronous(call'.kind) =>
          \/ exec'.request.ticket = call'.own
          \/ QueuedBehind(call.own, exec.request)'
    BY <2>2, <2>3, <2>4 DEF QueuedBehind
  <2>8. /\ ~ Idle' /\ returned' = NoReturn
        /\ Synchronous(call'.kind) => call'.own = accepted'
    BY <2>3, <2>5 DEF CallInv, Idle
  <2> QED  BY <2>2, <2>6, <2>7, <2>8 DEF CallInv
<1>9. CASE PopEmpty
  BY <1>9 DEF PopEmpty, CallInv, GotResult, Synchronous, Idle, NoCall
<1>10. CASE \/ \E result \in PhyResults : Transmit(result)
            \/ \E result \in PhyResults, byte \in Bytes : Receive(result, byte)
            \/ \E jitter \in Jitter : Backoff(jitter)
  <2>1. /\ exec.phase # "idle" /\ exec'.phase # "idle"
        /\ exec'.request = exec.request
        /\ UNCHANGED <<queue, accepted, call, quality, served, returned>>
    BY <1>10, AttemptKeepsRequest
  <2> QED  BY <2>1 DEF CallInv, GotResult, Synchronous, Idle, QueuedBehind
<1>11. CASE Complete
  <2>1. /\ exec.phase = "complete"
        /\ exec'.request = exec.request /\ exec'.phase = "idle"
        /\ returned'.kind = call.kind /\ returned'.own = call.own
        /\ call' = NoCall
        /\ queue' = queue
    BY <1>11 DEF Complete, TypeOK, Transaction
  <2>2. Synchronous(call.kind) =>
          \/ exec.request.ticket = call.own
          \/ QueuedBehind(call.own, exec.request)
    BY <2>1 DEF CallInv
  <2> QED
    BY <2>1, <2>2 DEF CallInv, GotResult, Synchronous, Idle, NoCall, QueuedBehind
<1> QED
  BY <1>1, <1>3, <1>4, <1>5, <1>6, <1>7, <1>8, <1>9, <1>10, <1>11
  DEF Next, Begin, Proceed

LEMMA CallKept == Spec => []CallInv
<1>1. Init => CallInv
  BY DEF Init, CallInv, GotResult, NoCall, NoReturn, Idle, Synchronous
<1>2. TypeOK /\ TicketInv /\ CallInv /\ [Next]_vars => CallInv'
  BY CallStep
<1> QED  BY <1>1, <1>2, TypeCorrect, TicketsCorrect, PTL DEF Spec

\* A result handed to the wrong caller is that of an older request, at least as
\* urgent, and the caller's own request is then still waiting.
THEOREM MisdeliveryBounded == Spec => []MisdeliveredIsOlder
<1>1. CallInv => MisdeliveredIsOlder
  <2> SUFFICES ASSUME CallInv, GotResult, exec.request.ticket # returned.own
               PROVE  MisdeliveredIsOlder
    BY DEF MisdeliveredIsOlder
  <2>1. PICK r \in Elements(queue) :
          /\ r.ticket = returned.own
          /\ exec.request.priority <= r.priority
          /\ exec.request.ticket < returned.own
    BY DEF CallInv, QueuedBehind
  <2>2. PICK i \in 1..Len(queue) : r = queue[i]
    BY <2>1, ElementsAreIndexed
  <2> QED  BY <2>1, <2>2 DEF MisdeliveredIsOlder
<1> QED  BY <1>1, CallKept, PTL

-----------------------------------------------------------------------------
(* What a synchronous caller is told.                                      *)

\* How the status of a closed transaction follows from its last result, and
\* what it took to get there.
Concluded(e) ==
    /\ e.last = "Ok" =>
         /\ e.status = "Ok"
         /\ e.request.expectsResponse => e.response \in Bytes
    /\ IsRetryable(e.last) =>
         /\ e.status = "RetriesExhausted"
         /\ e.attempts = e.request.maxRetries + 1
    /\ (e.last # "Ok" /\ ~ IsRetryable(e.last)) =>
         e.status = MapTerminalStatus(e.last)

\* A transaction is concluded when it is complete and, since the caller's view
\* of it is not taken back, for as long as a result of it is what the last call
\* returned.
ConclusionInv ==
    /\ (exec.phase = "complete" \/ GotResult) => Concluded(exec)
    /\ GotResult => returned.outcome = OutcomeFor(returned.kind)

\* An attempt that is the last one concludes its transaction, provided the
\* result Ok brought the backward frame that was asked for.
LEMMA AfterAttemptConcludes ==
    ASSUME NEW e \in Transaction, NEW result \in PhyResult,
           NEW byte \in Bytes \cup {NoByte},
           (result = "Ok" /\ e.request.expectsResponse) => byte \in Bytes,
           AfterAttempt(e, result, byte).phase = "complete"
    PROVE  Concluded(AfterAttempt(e, result, byte))
<1>1. PICK a : a = AfterAttempt(e, result, byte)
  OBVIOUS
<1>2. /\ a.request = e.request
      /\ a.attempts = e.attempts
      /\ a.last = result
  BY <1>1 DEF AfterAttempt, Transaction
<1>3. e.attempts \in Nat /\ e.request.maxRetries \in Nat
  BY DEF Transaction, DaliRequest
<1>4. CASE result = "Ok"
  <2>1. a.status = "Ok" /\ a.response = byte
    BY <1>1, <1>4 DEF AfterAttempt, Transaction
  <2> QED  BY <1>1, <1>2, <1>4, <2>1 DEF Concluded, IsRetryable
<1>5. CASE result # "Ok" /\ ~ IsRetryable(result)
  <2>1. a.status = MapTerminalStatus(result)
    BY <1>1, <1>5 DEF AfterAttempt, Transaction
  <2> QED  BY <1>1, <1>2, <1>5, <2>1 DEF Concluded
<1>6. CASE IsRetryable(result)
  <2>1. e.attempts - 1 = e.request.maxRetries
    BY <1>6 DEF AfterAttempt, Transaction, IsRetryable
  <2>2. a.status = "RetriesExhausted"
    BY <1>1, <1>6, <2>1 DEF AfterAttempt, Transaction, IsRetryable
  <2>3. a.attempts = a.request.maxRetries + 1
    BY <1>2, <1>3, <2>1
  <2> QED  BY <1>1, <1>2, <1>6, <2>2, <2>3 DEF Concluded, IsRetryable
<1> QED  BY <1>4, <1>5, <1>6

LEMMA ConclusionStep ==
    ASSUME TypeOK, CallInv, ConclusionInv, [Next]_vars
    PROVE  ConclusionInv'
<1>0. exec \in Transaction
  BY DEF TypeOK
<1>1. ASSUME UNCHANGED exec, exec.phase # "complete", ~ GotResult'
      PROVE  ConclusionInv'
  BY <1>1 DEF ConclusionInv
<1>2. CASE UNCHANGED vars
  BY <1>2 DEF vars, ConclusionInv, GotResult, OutcomeFor
<1>3. CASE Begin
  <2>1. Idle /\ UNCHANGED exec
    BY <1>3
    DEF Begin, DirectEnqueue, BeginQuery, BeginControl, Accept, Refuse,
        BeginProcessNext
  <2>2. ~ GotResult'
    BY <1>3
    DEF Begin, DirectEnqueue, BeginQuery, BeginControl, Refuse,
        BeginProcessNext, GotResult, NoReturn
  <2>3. exec.phase # "complete"
    BY <2>1 DEF CallInv
  <2> QED  BY <1>1, <2>1, <2>2, <2>3
<1>4. ASSUME ~ Idle, UNCHANGED returned PROVE ~ GotResult'
  BY <1>4 DEF CallInv, GotResult, NoReturn
<1>5. CASE Pop
  <2>1. PICK h : h = Popped(queue)
    OBVIOUS
  <2>2. ~ GotResult'
    BY <1>4, <1>5 DEF Pop
  <2>3. CASE IsExecutable(h)
    <3>1. exec'.phase = "transmit"
      BY <1>5, <2>1, <2>3 DEF Pop, Started
    <3> QED  BY <2>2, <3>1 DEF ConclusionInv
  <2>4. CASE ~ IsExecutable(h)
    <3>1. exec'.last = "InvalidArgument" /\ exec'.status = "InvalidRequest"
      BY <1>5, <2>1, <2>4 DEF Pop, Started
    <3>2. Concluded(exec')
      BY <3>1 DEF Concluded, IsRetryable, MapTerminalStatus
    <3> QED  BY <2>2, <3>2 DEF ConclusionInv
  <2> QED  BY <2>3, <2>4
<1>6. CASE PopEmpty
  <2>1. ~ GotResult'
    BY <1>6 DEF PopEmpty, GotResult
  <2> QED  BY <1>1, <1>6, <2>1 DEF PopEmpty
<1>7. ASSUME NEW result \in PhyResults, Transmit(result) PROVE ConclusionInv'
  <2>1. PICK e : e = [exec EXCEPT !.attempts = @ + 1]
    OBVIOUS
  <2>2. e \in Transaction /\ e.request = exec.request
    <3>1. PICK n \in Nat : n = exec.attempts + 1
      BY <1>0 DEF Transaction
    <3>2. e = [exec EXCEPT !.attempts = n]
      BY <2>1, <3>1
    <3> QED  BY <1>0, <3>1, <3>2 DEF Transaction
  <2>3. ~ GotResult'
    BY <1>4, <1>7 DEF Transmit, CallInv
  <2>4. CASE result = "Ok" /\ exec.request.expectsResponse
    <3>1. exec'.phase = "receive"
      BY <1>7, <2>1, <2>2, <2>4 DEF Transmit, Transaction
    <3> QED  BY <2>3, <3>1 DEF ConclusionInv
  <2>5. CASE ~ (result = "Ok" /\ exec.request.expectsResponse)
    <3>1. exec' = AfterAttempt(e, result, NoByte)
      BY <1>7, <2>1, <2>5 DEF Transmit
    <3>2. exec'.phase = "complete" => Concluded(exec')
      BY <2>2, <2>5, <3>1, AfterAttemptConcludes, PipelineAssumption
    <3> QED  BY <2>3, <3>2 DEF ConclusionInv
  <2> QED  BY <2>4, <2>5
<1>8. ASSUME NEW result \in PhyResults, NEW byte \in Bytes, Receive(result, byte)
      PROVE  ConclusionInv'
  <2>1. ~ GotResult'
    BY <1>4, <1>8 DEF Receive, CallInv
  <2>2. exec'.phase = "complete" => Concluded(exec')
    BY <1>0, <1>8, AfterAttemptConcludes, PipelineAssumption DEF Receive
  <2> QED  BY <2>1, <2>2 DEF ConclusionInv
<1>9. ASSUME NEW jitter \in Jitter, Backoff(jitter) PROVE ConclusionInv'
  <2>1. ~ GotResult'
    BY <1>4, <1>9 DEF Backoff, CallInv
  <2>2. exec'.phase = "transmit"
    BY <1>0, <1>9 DEF Backoff, Transaction
  <2> QED  BY <2>1, <2>2 DEF ConclusionInv
<1>10. CASE Complete
  <2>1. Concluded(exec)
    BY <1>10 DEF Complete, ConclusionInv
  <2>2. /\ exec'.last = exec.last /\ exec'.status = exec.status
        /\ exec'.attempts = exec.attempts /\ exec'.request = exec.request
        /\ exec'.response = exec.response
    BY <1>0, <1>10 DEF Complete, Transaction
  <2>3. Concluded(exec')
    BY <2>1, <2>2 DEF Concluded
  <2>4. returned'.kind = call.kind /\ returned'.outcome = OutcomeFor(call.kind)
    BY <1>10 DEF Complete
  <2>5. returned'.outcome = OutcomeFor(returned.kind)'
    BY <2>2, <2>4 DEF OutcomeFor
  <2> QED  BY <2>3, <2>5 DEF ConclusionInv
<1> QED
  BY <1>2, <1>3, <1>5, <1>6, <1>7, <1>8, <1>9, <1>10 DEF Next, Proceed

\* What a caller is told says how the transaction it was handed ended.
THEOREM OutcomeCorrect == Spec => []OutcomeTruthful
<1>1. Init => ConclusionInv
  BY DEF Init, ConclusionInv, GotResult, NoReturn, Started
<1>2. TypeOK /\ CallInv /\ ConclusionInv /\ [Next]_vars => ConclusionInv'
  BY ConclusionStep
<1>3. ASSUME TypeOK, ConclusionInv, GotResult PROVE OutcomeTruthful
  <2>1. /\ Concluded(exec)
        /\ returned.outcome = OutcomeFor(returned.kind)
        /\ exec.response \in Bytes \cup {NoByte}
        /\ exec.last \in PhyResult
    BY <1>3 DEF ConclusionInv, TypeOK, Transaction
  <2>2. ASSUME returned.kind = "query"
        PROVE  /\ returned.outcome = "Ok" <=>
                    exec.status = "Ok" /\ exec.response \in Bytes
               /\ returned.outcome \in {"NoResponse", "Collision", "Busy"} =>
                    exec.attempts = exec.request.maxRetries + 1
               /\ returned.outcome \in {"BusFailure", "HardwareFailure"} =>
                    exec.status \notin {"Ok", "RetriesExhausted"}
               /\ returned.outcome = "Invalid" =>
                    \/ ~ exec.request.expectsResponse
                    \/ exec.status = "InvalidRequest"
    <3>1. returned.outcome =
            QueryOutcome(exec.status, exec.response # NoByte, exec.last)
      BY <2>1, <2>2 DEF OutcomeFor
    <3>2. NoByte \notin Bytes
      BY PipelineAssumption
    <3>3. returned.outcome = "Ok" <=>
            exec.status = "Ok" /\ exec.response \in Bytes
      BY <2>1, <3>1, <3>2 DEF QueryOutcome
    <3>4. CASE exec.last = "Ok"
      <4>1. exec.status = "Ok"
        BY <2>1, <3>4 DEF Concluded
      <4>2. CASE exec.response \in Bytes
        <5>1. returned.outcome = "Ok"
          BY <3>3, <4>1, <4>2
        <5> QED  BY <3>3, <5>1
      <4>3. CASE exec.response \notin Bytes
        <5>1. returned.outcome = "Invalid"
          BY <2>1, <3>1, <3>2, <3>4, <4>3 DEF QueryOutcome
        <5>2. ~ exec.request.expectsResponse
          BY <2>1, <3>4, <4>3 DEF Concluded
        <5> QED  BY <3>3, <5>1, <5>2
      <4> QED  BY <4>2, <4>3
    <3>5. CASE IsRetryable(exec.last)
      <4>1. /\ exec.status = "RetriesExhausted"
            /\ exec.attempts = exec.request.maxRetries + 1
        BY <2>1, <3>5 DEF Concluded
      <4>2. returned.outcome \in {"NoResponse", "Collision", "Busy"}
        BY <3>1, <3>5, <4>1 DEF QueryOutcome, IsRetryable
      <4> QED  BY <3>3, <4>1, <4>2
    <3>6. CASE exec.last # "Ok" /\ ~ IsRetryable(exec.last)
      <4>1. exec.status = MapTerminalStatus(exec.last)
        BY <2>1, <3>6 DEF Concluded
      <4>2. exec.status \notin {"Ok", "RetriesExhausted"}
        BY <2>1, <3>6, <4>1 DEF MapTerminalStatus, IsRetryable, PhyResult
      <4>3. /\ returned.outcome \in {"BusFailure", "HardwareFailure", "Invalid"}
            /\ returned.outcome = "Invalid" => exec.last = "InvalidArgument"
        BY <2>1, <3>1, <3>6, <4>2 DEF QueryOutcome, IsRetryable, PhyResult
      <4>4. exec.last = "InvalidArgument" => exec.status = "InvalidRequest"
        BY <4>1 DEF MapTerminalStatus, IsRetryable
      <4> QED  BY <3>3, <4>2, <4>3, <4>4
    <3> QED  BY <3>4, <3>5, <3>6
  <2>3. returned.kind = "control" =>
          (returned.outcome = "Ok" <=> exec.status = "Ok")
    BY <2>1 DEF OutcomeFor, ControlOutcome
  <2> QED  BY <2>2, <2>3 DEF OutcomeTruthful
<1>4. TypeOK /\ ConclusionInv => OutcomeTruthful
  BY <1>3 DEF OutcomeTruthful
<1> QED  BY <1>1, <1>2, <1>4, TypeCorrect, CallKept, PTL DEF Spec

-----------------------------------------------------------------------------
(* The accounts of the communication quality.                              *)

\* What the counters next to total add up to.
Counted(counters) ==
    counters["successes"] + counters["timeouts"] + counters["collisions"]
        + counters["busy"] + counters["busPowerLosses"]
        + counters["transceiverFaults"] + counters["otherFailures"]

\* Until total saturates the counters add up to what was recorded, so none of
\* them can have saturated before it; afterwards the sum stays at least what
\* total stands at, since a counter that saturates is itself as large.
CountInv ==
    /\ IsFiniteSet(served)
    /\ LET recorded == Cardinality(served) IN
       /\ quality["total"] = IF recorded < CounterMax THEN recorded ELSE CounterMax
       /\ recorded <= CounterMax => Counted(quality) = recorded
       /\ Counted(quality) >= quality["total"]

\* record touches total and one counter next to it.
LEMMA RecordedCounters ==
    ASSUME NEW counters \in [CounterNames -> 0..CounterMax], NEW status, NEW last
    PROVE  \E c \in CounterNames \ {"total"} :
             \A name \in CounterNames :
               Recorded(counters, status, last)[name] =
                 IF name \in {"total", c} THEN Saturating(counters[name])
                                          ELSE counters[name]
<1>1. PICK c : c = CounterFor(status, last)
  OBVIOUS
<1>2. c \in CounterNames \ {"total"} /\ "total" \in CounterNames
  BY <1>1 DEF CounterFor, CounterNames, FailureCounters
<1>3. Recorded(counters, status, last) =
        [counters EXCEPT !["total"] = Saturating(@), ![c] = Saturating(@)]
  BY <1>1 DEF Recorded
<1> QED  BY <1>2, <1>3

\* The sum moves by as much as the one counter that changed.
LEMMA CountedStep ==
    ASSUME NEW f \in [CounterNames -> Nat], NEW g \in [CounterNames -> Nat],
           NEW c \in CounterNames \ {"total"},
           \A name \in CounterNames \ {"total", c} : g[name] = f[name]
    PROVE  /\ Counted(g) = Counted(f) + g[c] - f[c]
           /\ Counted(f) \in Nat /\ Counted(g) \in Nat
           /\ f[c] <= Counted(f) /\ g[c] <= Counted(g)
<1> DEFINE Names == {"successes", "timeouts", "collisions", "busy",
                     "busPowerLosses", "transceiverFaults", "otherFailures"}
<1>1. c \in Names /\ CounterNames \ {"total"} = Names
  BY DEF CounterNames, FailureCounters
<1>2. \A name \in Names : f[name] \in Nat /\ g[name] \in Nat
  BY <1>1
<1>3. \A name \in Names : name # c => g[name] = f[name]
  BY <1>1
<1>4. CASE c = "successes"
  BY <1>2, <1>3, <1>4 DEF Counted
<1>5. CASE c = "timeouts"
  BY <1>2, <1>3, <1>5 DEF Counted
<1>6. CASE c = "collisions"
  BY <1>2, <1>3, <1>6 DEF Counted
<1>7. CASE c = "busy"
  BY <1>2, <1>3, <1>7 DEF Counted
<1>8. CASE c = "busPowerLosses"
  BY <1>2, <1>3, <1>8 DEF Counted
<1>9. CASE c = "transceiverFaults"
  BY <1>2, <1>3, <1>9 DEF Counted
<1>10. CASE c = "otherFailures"
  BY <1>2, <1>3, <1>10 DEF Counted
<1> QED  BY <1>1, <1>4, <1>5, <1>6, <1>7, <1>8, <1>9, <1>10

\* Recording one more result keeps the accounts.
LEMMA CompleteKeepsCounts ==
    ASSUME TypeOK, TicketInv, CountInv, Complete
    PROVE  CountInv'
<1>1. PICK n, t : n = Cardinality(served) /\ t = exec.request.ticket
  OBVIOUS
<1>2. n \in Nat /\ CounterMax \in Nat \ {0}
  BY <1>1, FS_CardinalityType, TransactionAssumption DEF CountInv
<1>3. t \notin served /\ served' = served \cup {t}
  BY <1>1 DEF Complete, TicketInv, InExecution
<1>4. IsFiniteSet(served') /\ Cardinality(served') = n + 1
  BY <1>1, <1>3, FS_AddElement DEF CountInv
<1>5. quality \in [CounterNames -> 0..CounterMax]
  BY DEF TypeOK
<1>6. PICK c \in CounterNames \ {"total"} :
        \A name \in CounterNames :
          quality'[name] = IF name \in {"total", c} THEN Saturating(quality[name])
                                                    ELSE quality[name]
  BY <1>5, RecordedCounters DEF Complete
<1>7. quality' \in [CounterNames -> 0..CounterMax]
  BY <1>5, RecordedType DEF Complete
<1>8. /\ quality \in [CounterNames -> Nat] /\ quality' \in [CounterNames -> Nat]
      /\ quality["total"] \in Nat /\ quality[c] \in 0..CounterMax
  BY <1>2, <1>5, <1>7 DEF CounterNames
<1>9. /\ quality'["total"] = Saturating(quality["total"])
      /\ quality'[c] = Saturating(quality[c])
      /\ \A name \in CounterNames \ {"total", c} : quality'[name] = quality[name]
  BY <1>6 DEF CounterNames
<1>10. PICK s, u : s = Counted(quality) /\ u = Counted(quality')
  OBVIOUS
<1>11. /\ u = s + quality'[c] - quality[c]
       /\ s \in Nat /\ u \in Nat
       /\ quality[c] <= s /\ quality'[c] <= u
  BY <1>8, <1>9, <1>10, CountedStep
<1>12. /\ quality["total"] = IF n < CounterMax THEN n ELSE CounterMax
       /\ n <= CounterMax => s = n
       /\ s >= quality["total"]
  BY <1>1, <1>10 DEF CountInv
<1>13. quality'["total"] = IF n + 1 < CounterMax THEN n + 1 ELSE CounterMax
  BY <1>2, <1>8, <1>9, <1>12 DEF Saturating
<1>14. n + 1 <= CounterMax => u = n + 1
  <2> SUFFICES ASSUME n + 1 <= CounterMax PROVE u = n + 1
    OBVIOUS
  <2>1. s = n /\ quality[c] < CounterMax
    BY <1>2, <1>8, <1>11, <1>12
  <2>2. quality'[c] = quality[c] + 1
    BY <1>8, <1>9, <2>1 DEF Saturating
  <2> QED  BY <1>2, <1>8, <1>11, <2>1, <2>2
<1>15. u >= quality'["total"]
  <2>1. CASE quality[c] = CounterMax
    <3>1. quality'[c] = CounterMax
      BY <1>9, <2>1 DEF Saturating
    <3> QED  BY <1>2, <1>11, <1>13, <3>1
  <2>2. CASE quality[c] # CounterMax
    <3>1. quality'[c] = quality[c] + 1
      BY <1>9, <2>2 DEF Saturating
    <3>2. u = s + 1
      BY <1>8, <1>11, <3>1
    <3> QED  BY <1>2, <1>11, <1>12, <1>13, <3>2
  <2> QED  BY <2>1, <2>2
<1> QED  BY <1>4, <1>10, <1>13, <1>14, <1>15 DEF CountInv

\* The quality counters account for every recorded transaction until total
\* saturates, and never overstate the failures.
THEOREM AccountsCorrect == Spec => []QualityAccounts
<1>1. Init => CountInv
  <2> SUFFICES ASSUME Init PROVE CountInv
    OBVIOUS
  <2>1. IsFiniteSet(served) /\ Cardinality(served) = 0
    BY FS_EmptySet DEF Init
  <2>2. \A name \in CounterNames : quality[name] = 0
    BY DEF Init, NoCounts
  <2>3. Counted(quality) = 0 /\ quality["total"] = 0
    BY <2>2 DEF Counted, CounterNames, FailureCounters
  <2> QED  BY <2>1, <2>3, TransactionAssumption DEF CountInv
<1>2. TypeOK /\ TicketInv /\ CountInv /\ [Next]_vars => CountInv'
  <2> SUFFICES ASSUME TypeOK, TicketInv, CountInv, [Next]_vars PROVE CountInv'
    OBVIOUS
  <2>1. ASSUME UNCHANGED <<served, quality>> PROVE CountInv'
    BY <2>1 DEF CountInv
  <2>2. CASE Complete
    BY <2>2, CompleteKeepsCounts
  <2>3. CASE Begin
    BY <2>1, <2>3
    DEF Begin, DirectEnqueue, BeginQuery, BeginControl, Accept, Refuse,
        BeginProcessNext
  <2>4. CASE Proceed /\ ~ Complete
    BY <2>1, <2>4 DEF Proceed, Pop, PopEmpty, Transmit, Receive, Backoff
  <2>5. CASE UNCHANGED vars
    BY <2>1, <2>5 DEF vars
  <2> QED  BY <2>2, <2>3, <2>4, <2>5 DEF Next
<1>3. ASSUME TypeOK, CountInv PROVE QualityAccounts
  <2>1. PICK n, s, total :
          n = Cardinality(served) /\ s = quality["successes"]
            /\ total = quality["total"]
    OBVIOUS
  <2>2. n \in Nat /\ CounterMax \in Nat \ {0}
    BY <1>3, <2>1, FS_CardinalityType, TransactionAssumption DEF CountInv
  <2>3. /\ \A name \in CounterNames : quality[name] \in Nat
        /\ s \in Nat /\ total \in Nat
    BY <1>3, <2>1, <2>2 DEF TypeOK, CounterNames
  <2>4. FailureTotal \in Nat /\ Counted(quality) = s + FailureTotal
    BY <2>1, <2>3 DEF FailureTotal, Counted, CounterNames, FailureCounters
  <2>5. /\ total = IF n < CounterMax THEN n ELSE CounterMax
        /\ n <= CounterMax => s + FailureTotal = n
        /\ s + FailureTotal >= total
    BY <1>3, <2>1, <2>4 DEF CountInv
  <2>6. SnapshotFailures(quality) = IF total >= s THEN total - s ELSE 0
    BY <2>1 DEF SnapshotFailures
  <2>7. SnapshotFailures(quality) <= FailureTotal
    BY <2>2, <2>3, <2>4, <2>5, <2>6
  <2>8. n <= CounterMax => SnapshotFailures(quality) = FailureTotal
    BY <2>2, <2>3, <2>4, <2>5, <2>6
  <2> QED  BY <2>1, <2>5, <2>7, <2>8 DEF QualityAccounts
<1> QED  BY <1>1, <1>2, <1>3, TypeCorrect, TicketsCorrect, PTL DEF Spec
===============================================================================
