-------------------------- MODULE DaliScheduler_proofs --------------------------
(***************************************************************************)
(* Theorems about the poll scheduler, for any number of lights, any        *)
(* intervals in the order of the code's, and any owner.                    *)
(*                                                                         *)
(* The round robin is fair because of an order: with every light b counted *)
(* as having overtaken a, the cursor is about to reach a before b.         *)
(***************************************************************************)
EXTENDS DaliScheduler, WellFoundedInduction, TLAPS

\* Every non-empty set of naturals has a least element.
LEMMA LeastNatural ==
    ASSUME NEW S \in SUBSET Nat, S # {}
    PROVE  \E n \in S : \A m \in S : n <= m
<1>1. PICK n \in S : \A m \in S : ~ (<<m, n>> \in OpToRel(<, Nat))
  BY NatLessThanWellFounded, WFMin, Zenon
<1>2. \A m \in S : ~ (m < n)
  BY <1>1, Zenon DEF OpToRel
<1> QED  BY <1>2

\* The cursor stays on the lights, and steps to the one after the light served.
LEMMA CursorSteps ==
    ASSUME NEW a \in Lights
    PROVE  /\ CursorAfter(a) \in Lights
           /\ CursorAfter(a) = IF a = NumLights - 1 THEN 0 ELSE a + 1
<1>1. CASE a = NumLights - 1
  BY <1>1, SchedulerAssumption DEF CursorAfter, Lights
<1>2. CASE a # NumLights - 1
  <2>1. (a + 1) \in 0 .. NumLights - 1
    BY <1>2, SchedulerAssumption DEF Lights
  <2>2. (a + 1) % NumLights = a + 1
    BY <2>1, SchedulerAssumption
  <2> QED  BY <1>2, <2>1, <2>2 DEF CursorAfter, Lights
<1> QED  BY <1>1, <1>2

\* Among the lights next() could serve there is a nearest one.
LEMMA NearestIsNearest ==
    ASSUME cursor \in Lights, NEW S \in SUBSET Lights, S # {}
    PROVE  /\ Nearest(S) \in S
           /\ \A b \in S : Distance(cursor, Nearest(S)) <= Distance(cursor, b)
<1> DEFINE D == {Distance(cursor, a) : a \in S}
<1>1. \A a \in S : Distance(cursor, a) \in Nat
  BY SchedulerAssumption DEF Distance, Lights
<1>2. D \in SUBSET Nat /\ D # {}
  BY <1>1
<1>3. PICK n \in D : \A m \in D : n <= m
  BY <1>2, LeastNatural
<1>4. \E a \in S : \A b \in S : Distance(cursor, a) <= Distance(cursor, b)
  BY <1>3
<1> QED  BY <1>4 DEF Nearest

\* Among the polls of a light there is one that next() tries first.
LEMMA ForemostIsKind ==
    ASSUME NEW K \in SUBSET Kinds, K # {}
    PROVE  Foremost(K) \in K
<1> DEFINE R == {Rank[k] : k \in K}
<1>1. \A k \in K : Rank[k] \in Nat
  BY SchedulerAssumption DEF Rank, PollKinds
<1>2. R \in SUBSET Nat /\ R # {}
  BY <1>1
<1>3. PICK n \in R : \A m \in R : n <= m
  BY <1>2, LeastNatural
<1>4. \E k \in K : \A l \in K : Rank[k] <= Rank[l]
  BY <1>3
<1> QED  BY <1>4 DEF Foremost

\* Every interval is a natural number, the status interval one that only grows
\* while an observation goes on.
LEMMA Intervals ==
    ASSUME NEW c \in LightPollContext
    PROVE  /\ \A w \in Nat, k \in Kinds : IntervalFor(k, c, w) \in Nat
           /\ \A w \in Nat : StatusInterval(c, w) \in Nat
           /\ \A v, w \in Nat : v <= w => StatusInterval(c, v) <= StatusInterval(c, w)
<1>1. /\ \A n \in PeriodNames : Period[n] \in Nat
      /\ Period.fast <= Period.slow /\ Period.slow <= Period.on
      /\ Period.slow <= Period.off /\ Period.fastUntil <= Period.slowUntil
  BY SchedulerAssumption
<1>2. \A n \in {"fast", "slow", "on", "off", "fastUntil", "slowUntil"} : Period[n] \in Nat
  BY <1>1 DEF PeriodNames
<1>3. \A w \in Nat : StatusInterval(c, w) \in Nat
  BY <1>2 DEF StatusInterval
<1>4. \A v, w \in Nat : v <= w => StatusInterval(c, v) <= StatusInterval(c, w)
  BY <1>1, <1>2 DEF StatusInterval
<1>5. \A w \in Nat, k \in Kinds : IntervalFor(k, c, w) \in Nat
  BY <1>1, <1>3, SchedulerAssumption DEF IntervalFor, PeriodNames, PollKinds
<1> QED  BY <1>3, <1>4, <1>5

\* A poll is first due a natural number from the configuration, its status now.
LEMMA FirstDues ==
    /\ \A k \in Kinds : FirstDue(k) \in Nat
    /\ FirstDue("Status") = 0
BY SchedulerAssumption DEF FirstDue, PeriodNames, PollKinds

-----------------------------------------------------------------------------

\* What the owner passes on and what Elapse makes of the slots is typed.
LEMMA ElapseTyped ==
    ASSUME TypeOK, Elapse
    PROVE  /\ watched' \in [Lights -> 0 .. Period.slowUntil]
           /\ remaining' \in [Lights -> [Kinds -> Nat]]
           /\ clock' \in 0 .. 1
           /\ configured' = configured /\ context' = context
<1>1. Period.slowUntil \in Nat
  BY SchedulerAssumption DEF PeriodNames
<1>2. \A a \in Lights : watched[a] \in 0 .. Period.slowUntil
  BY DEF TypeOK
<1>3. \A a \in Lights : \A k \in Kinds : remaining[a][k] \in Nat
  BY DEF TypeOK
<1>4. watched' \in [Lights -> 0 .. Period.slowUntil]
  BY <1>1, <1>2 DEF Elapse
<1>5. remaining' \in [Lights -> [Kinds -> Nat]]
  BY <1>3 DEF Elapse
<1>6. clock' \in 0 .. 1
  BY DEF Elapse, TypeOK
<1> QED  BY <1>4, <1>5, <1>6 DEF Elapse

\* A call of next() that finds something grants a poll of a light it could serve.
LEMMA GrantServes ==
    ASSUME TypeOK, NEW u, Grant(u)
    PROVE  /\ inFlight'.address \in Servable(u)
           /\ inFlight' \in Poll
           /\ \A b \in Servable(u) :
                 Distance(cursor, inFlight'.address) <= Distance(cursor, b)
           /\ cursor' = CursorAfter(inFlight'.address)
           /\ Overtakes(inFlight'.address, u)
<1> DEFINE a == Nearest(Servable(u))
<1>1. /\ Servable(u) \in SUBSET Lights /\ Servable(u) # {}
      /\ cursor \in Lights
  BY DEF Grant, Servable, TypeOK
<1>2. /\ a \in Servable(u)
      /\ \A b \in Servable(u) : Distance(cursor, a) <= Distance(cursor, b)
  BY <1>1, NearestIsNearest
<1>3. /\ inFlight' = [address |-> a, kind |-> Foremost(Candidates(a, u))]
      /\ cursor' = CursorAfter(a)
      /\ Overtakes(a, u)
  BY DEF Grant
<1>4. Candidates(a, u) \in SUBSET Kinds /\ Candidates(a, u) # {}
  BY <1>2 DEF Servable, Candidates
<1>5. Foremost(Candidates(a, u)) \in Kinds
  BY <1>4, ForemostIsKind
<1>6. inFlight'.address = a
  BY <1>3
<1>7. inFlight' \in Poll
  BY <1>1, <1>2, <1>3, <1>5 DEF Poll
<1> QED  BY <1>2, <1>3, <1>6, <1>7

LEMMA TypeInit == Init => TypeOK
<1> SUFFICES ASSUME Init PROVE TypeOK
  OBVIOUS
<1>1. Period.slowUntil \in Nat
  BY SchedulerAssumption DEF PeriodNames
<1>2. cursor \in Lights
  BY SchedulerAssumption DEF Init, Lights
<1>3. overtaken \in [Lights -> [Lights -> Nat]]
  BY DEF Init, NotOvertaken
<1> QED
  BY <1>1, <1>2, <1>3, SchedulerAssumption DEF Init, TypeOK, LightPollContext

LEMMA TypeNext == TypeOK /\ [Next]_vars => TypeOK'
<1> SUFFICES ASSUME TypeOK, [Next]_vars PROVE TypeOK'
  OBVIOUS
<1>1. ASSUME NEW a \in Lights, NEW c \in Contexts, Configure(a, c) PROVE TypeOK'
  <2>1. c \in LightPollContext
    BY SchedulerAssumption
  <2>2. context' \in [Lights -> LightPollContext]
    BY <1>1, <2>1 DEF TypeOK, Configure
  <2>3. 0 \in 0 .. Period.slowUntil
    BY SchedulerAssumption DEF PeriodNames
  <2>4. watched' \in [Lights -> 0 .. Period.slowUntil]
    BY <1>1, <2>3 DEF TypeOK, Configure
  <2>5. [k \in Kinds |-> FirstDue(k)] \in [Kinds -> Nat]
    BY FirstDues
  <2>6. remaining' \in [Lights -> [Kinds -> Nat]]
    BY <1>1, <2>5 DEF TypeOK, Configure
  <2>7. configures' \in 0 .. MaxConfigures
    BY <1>1, SchedulerAssumption DEF TypeOK, Configure
  <2>8. configured' \subseteq Lights
    BY <1>1 DEF TypeOK, Configure
  <2>9. UNCHANGED <<clock, cursor, inFlight, busy, overtaken>>
    BY <1>1 DEF Configure, ownerVars
  <2> QED  BY <2>2, <2>4, <2>6, <2>7, <2>8, <2>9 DEF TypeOK
<1>2. ASSUME NEW u \in Utilisations, Grant(u) PROVE TypeOK'
  <2>1. inFlight' \in Poll /\ cursor' = CursorAfter(inFlight'.address)
    BY <1>2, GrantServes
  <2>2. cursor' \in Lights
    BY <2>1, CursorSteps DEF Poll
  <2>3. PICK b \in Lights : Overtakes(b, u)
    BY <1>2, <2>1, GrantServes DEF Poll
  <2>4. overtaken' \in [Lights -> [Lights -> Nat]]
    <3>1. NotOvertaken \in [Lights -> Nat]
      BY DEF NotOvertaken
    <3>2. \A a \in Lights : [overtaken[a] EXCEPT ![b] = @ + 1] \in [Lights -> Nat]
      BY DEF TypeOK
    <3> QED  BY <2>3, <3>1, <3>2 DEF Overtakes
  <2>5. busy' \in Nat
    BY <1>2, SchedulerAssumption DEF Grant
  <2>6. UNCHANGED <<configured, context, watched, remaining, clock, configures>>
    BY <1>2 DEF Grant, slotVars
  <2> QED  BY <2>1, <2>2, <2>4, <2>5, <2>6 DEF TypeOK
<1>3. ASSUME NEW u \in Utilisations, Wait(u) PROVE TypeOK'
  <2>1. overtaken' \in [Lights -> [Lights -> Nat]]
    BY <1>3 DEF Wait, NotOvertaken
  <2>2. UNCHANGED <<cursor, inFlight, busy, configures>> /\ Elapse
    BY <1>3 DEF Wait, ownerVars
  <2> QED  BY <2>1, <2>2, ElapseTyped DEF TypeOK
<1>4. ASSUME OnBus PROVE TypeOK'
  <2>1. busy' \in Nat
    BY <1>4 DEF OnBus, TypeOK
  <2>2. UNCHANGED <<cursor, inFlight, configures, overtaken>> /\ Elapse
    BY <1>4 DEF OnBus
  <2> QED  BY <2>1, <2>2, ElapseTyped DEF TypeOK
<1>5. ASSUME Complete PROVE TypeOK'
  <2>1. inFlight \in Poll
    BY <1>5 DEF Complete, TypeOK
  <2>2. PICK a \in Lights, k \in Kinds : inFlight = [address |-> a, kind |-> k]
    BY <2>1 DEF Poll
  <2>3. watched[a] \in Nat /\ context[a] \in LightPollContext
    BY <2>2, SchedulerAssumption DEF TypeOK, PeriodNames
  <2>4. PICK n \in Nat : n = IntervalFor(k, context[a], watched[a])
    BY <2>2, <2>3, Intervals
  <2>5. remaining' = [remaining EXCEPT ![a][k] = n]
    BY <1>5, <2>2, <2>4 DEF Complete
  <2>6. remaining' \in [Lights -> [Kinds -> Nat]]
    BY <2>5 DEF TypeOK
  <2> QED  BY <1>5, <2>6 DEF Complete, TypeOK
<1>6. ASSUME Abandon PROVE TypeOK'
  BY <1>6 DEF Abandon, TypeOK, slotVars
<1>7. CASE UNCHANGED vars
  BY <1>7 DEF vars, slotVars, ownerVars, TypeOK
<1> QED  BY <1>1, <1>2, <1>3, <1>4, <1>5, <1>6, <1>7 DEF Next, Call

\* The configured lights, contexts, dues and windows are what they should be,
\* in every state of every owner.
THEOREM SchedulerTyped == Spec => []TypeOK
BY TypeInit, TypeNext, PTL DEF Spec

-----------------------------------------------------------------------------

\* A unit of time brings every due time nearer and no interval down.
LEMMA ElapseKeepsPace ==
    ASSUME TypeOK, StatusPace, Elapse
    PROVE  StatusPace'
<1> SUFFICES ASSUME NEW a \in configured'
             PROVE  remaining'[a]["Status"] <= StatusInterval(context'[a], watched'[a])
  BY DEF StatusPace
<1>1. a \in configured /\ a \in Lights /\ "Status" \in Kinds
  BY SchedulerAssumption DEF Elapse, TypeOK
<1>2. PICK c \in LightPollContext : c = context[a] /\ c = context'[a]
  BY <1>1 DEF TypeOK, Elapse
<1>3. PICK v \in Nat : v = watched[a]
  BY <1>1, SchedulerAssumption DEF TypeOK, PeriodNames
<1>4. PICK w \in Nat : w = watched'[a] /\ v <= w
  BY <1>1, <1>3 DEF Elapse
<1>5. PICK r \in Nat : r = remaining[a]["Status"]
  BY <1>1 DEF TypeOK
<1>6. PICK q \in Nat : q = remaining'[a]["Status"] /\ q <= r
  BY <1>1, <1>5 DEF Elapse
<1>7. r <= StatusInterval(c, v)
  BY <1>1, <1>2, <1>3, <1>5 DEF StatusPace
<1>8. /\ StatusInterval(c, v) \in Nat /\ StatusInterval(c, w) \in Nat
      /\ StatusInterval(c, v) <= StatusInterval(c, w)
  BY <1>4, Intervals
<1> QED  BY <1>2, <1>4, <1>6, <1>7, <1>8

LEMMA PaceNext == TypeOK /\ StatusPace /\ [Next]_vars => StatusPace'
<1> SUFFICES ASSUME TypeOK, StatusPace, [Next]_vars PROVE StatusPace'
  OBVIOUS
<1>0. "Status" \in Kinds
  BY SchedulerAssumption
<1>1. ASSUME NEW a \in Lights, NEW c \in Contexts, Configure(a, c) PROVE StatusPace'
  <2> SUFFICES ASSUME NEW b \in configured'
               PROVE  remaining'[b]["Status"] <= StatusInterval(context'[b], watched'[b])
    BY DEF StatusPace
  <2>1. c \in LightPollContext
    BY SchedulerAssumption
  <2>2. CASE b = a
    <3>1. remaining'[b]["Status"] = 0
      BY <1>0, <1>1, <2>2, FirstDues DEF Configure, TypeOK
    <3>2. context'[b] = c /\ watched'[b] \in Nat
      BY <1>1, <2>2, SchedulerAssumption DEF Configure, TypeOK, PeriodNames
    <3> QED  BY <2>1, <3>1, <3>2, Intervals
  <2>3. CASE b # a
    <3>1. b \in configured /\ b \in Lights
      BY <1>1, <2>3 DEF Configure, TypeOK
    <3>2. /\ remaining'[b] = remaining[b]
          /\ context'[b] = context[b] /\ watched'[b] = watched[b]
      BY <1>1, <2>3, <3>1 DEF Configure, TypeOK
    <3> QED  BY <3>1, <3>2 DEF StatusPace
  <2> QED  BY <2>2, <2>3
<1>2. ASSUME NEW u \in Utilisations, Grant(u) PROVE StatusPace'
  BY <1>2 DEF Grant, slotVars, StatusPace
<1>3. ASSUME NEW u \in Utilisations, Wait(u) PROVE StatusPace'
  BY <1>3, ElapseKeepsPace DEF Wait
<1>4. ASSUME OnBus PROVE StatusPace'
  BY <1>4, ElapseKeepsPace DEF OnBus
<1>5. ASSUME Complete PROVE StatusPace'
  <2> SUFFICES ASSUME NEW b \in configured'
               PROVE  remaining'[b]["Status"] <= StatusInterval(context'[b], watched'[b])
    BY DEF StatusPace
  <2>1. PICK a \in Lights, k \in Kinds : inFlight = [address |-> a, kind |-> k]
    BY <1>5 DEF Complete, TypeOK, Poll
  <2>2. /\ remaining' = [remaining EXCEPT ![a][k] = IntervalFor(k, context[a], watched[a])]
        /\ UNCHANGED <<configured, context, watched>>
    BY <1>5, <2>1 DEF Complete
  <2>3. b \in configured /\ b \in Lights
    BY <2>2 DEF TypeOK
  <2>4. CASE b = a /\ k = "Status"
    <3>1. remaining'[b]["Status"] = StatusInterval(context[b], watched[b])
      BY <1>0, <2>2, <2>4 DEF TypeOK, IntervalFor
    <3>2. StatusInterval(context[b], watched[b]) \in Nat
      BY <2>3, Intervals, SchedulerAssumption DEF TypeOK, PeriodNames
    <3> QED  BY <2>2, <3>1, <3>2
  <2>5. CASE ~(b = a /\ k = "Status")
    <3>1. remaining'[b]["Status"] = remaining[b]["Status"]
      BY <1>0, <2>2, <2>3, <2>5 DEF TypeOK
    <3> QED  BY <2>2, <2>3, <3>1 DEF StatusPace
  <2> QED  BY <2>4, <2>5
<1>6. ASSUME Abandon PROVE StatusPace'
  BY <1>6 DEF Abandon, slotVars, StatusPace
<1>7. CASE UNCHANGED vars
  BY <1>7 DEF vars, slotVars, StatusPace
<1> QED  BY <1>1, <1>2, <1>3, <1>4, <1>5, <1>6, <1>7 DEF Next, Call

\* No status poll is ever scheduled further away than the pace that holds now,
\* whatever the owner configures and whenever: complete() uses the interval in
\* force and an interval in force only grows.
THEOREM StatusPaced == Spec => []StatusPace
<1>1. Init => StatusPace
  BY DEF Init, StatusPace
<1> QED  BY <1>1, PaceNext, SchedulerTyped, PTL DEF Spec

-----------------------------------------------------------------------------

\* Whoever has overtaken a light comes after it in the order of the next calls.
Behind ==
    \A a, b \in Lights :
        \/ overtaken[a][b] = 0
        \/ overtaken[a][b] = 1 /\ Distance(cursor, a) < Distance(cursor, b)

\* Once the cursor has passed the light s that was served, every light that was
\* not nearer keeps its place before those that were further away, and s is last.
LEMMA PassingKeepsOrder ==
    ASSUME NEW c \in Lights, NEW s \in Lights, NEW a \in Lights, a # s,
           Distance(c, s) <= Distance(c, a)
    PROVE  /\ Distance(CursorAfter(s), a) < Distance(CursorAfter(s), s)
           /\ \A b \in Lights : Distance(c, a) < Distance(c, b) =>
                Distance(CursorAfter(s), a) < Distance(CursorAfter(s), b)
<1>1. CursorAfter(s) = IF s = NumLights - 1 THEN 0 ELSE s + 1
  BY CursorSteps
<1>2. CASE s = NumLights - 1
  BY <1>1, <1>2, SchedulerAssumption DEF Distance, Lights
<1>3. CASE s # NumLights - 1
  BY <1>1, <1>3, SchedulerAssumption DEF Distance, Lights
<1> QED  BY <1>2, <1>3

LEMMA BehindNext == TypeOK /\ Behind /\ [Next]_vars => Behind'
<1> SUFFICES ASSUME TypeOK, Behind, [Next]_vars PROVE Behind'
  OBVIOUS
<1>1. ASSUME NEW u \in Utilisations, Grant(u) PROVE Behind'
  <2> SUFFICES ASSUME NEW a \in Lights, NEW b \in Lights
               PROVE  \/ overtaken'[a][b] = 0
                      \/ /\ overtaken'[a][b] = 1
                         /\ Distance(cursor', a) < Distance(cursor', b)
    BY DEF Behind
  <2>1. PICK s \in Lights :
            /\ s \in Servable(u)
            /\ \A x \in Servable(u) : Distance(cursor, s) <= Distance(cursor, x)
            /\ cursor' = CursorAfter(s)
            /\ Overtakes(s, u)
    BY <1>1, GrantServes DEF Poll
  <2>2. cursor \in Lights
    BY DEF TypeOK
  <2>3. CASE a = s \/ a \notin Servable(u)
    BY <2>1, <2>3 DEF Overtakes, NotOvertaken
  <2>4. CASE a # s /\ a \in Servable(u)
    <3>1. overtaken'[a] = [overtaken[a] EXCEPT ![s] = @ + 1]
      BY <2>1, <2>4 DEF Overtakes
    <3>2. Distance(cursor, s) <= Distance(cursor, a)
      BY <2>1, <2>4
    <3>3. CASE b = s
      <4>1. overtaken[a][s] = 0
        <5>1. ~(Distance(cursor, a) < Distance(cursor, s))
          BY <2>2, <3>2, SchedulerAssumption DEF Distance, Lights
        <5> QED  BY <5>1 DEF Behind
      <4>2. overtaken'[a][b] = 1
        BY <3>1, <3>3, <4>1 DEF TypeOK
      <4>3. Distance(cursor', a) < Distance(cursor', b)
        BY <2>1, <2>2, <2>4, <3>2, <3>3, PassingKeepsOrder
      <4> QED  BY <4>2, <4>3
    <3>4. CASE b # s
      <4>1. overtaken'[a][b] = overtaken[a][b]
        BY <3>1, <3>4 DEF TypeOK
      <4>2. Distance(cursor, a) < Distance(cursor, b) =>
                Distance(cursor', a) < Distance(cursor', b)
        BY <2>1, <2>2, <2>4, <3>2, PassingKeepsOrder
      <4> QED  BY <4>1, <4>2 DEF Behind
    <3> QED  BY <3>3, <3>4
  <2> QED  BY <2>3, <2>4
<1>2. ASSUME NEW u \in Utilisations, Wait(u) PROVE Behind'
  BY <1>2 DEF Wait, NotOvertaken, Behind
<1>3. CASE UNCHANGED <<cursor, overtaken>>
  BY <1>3 DEF Behind
<1>4. ASSUME NEW a \in Lights, NEW c \in Contexts, Configure(a, c)
      PROVE  UNCHANGED <<cursor, overtaken>>
  BY <1>4 DEF Configure
<1>5. ASSUME OnBus \/ Complete \/ Abandon PROVE UNCHANGED <<cursor, overtaken>>
  BY <1>5 DEF OnBus, Complete, Abandon
<1>6. CASE UNCHANGED vars
  BY <1>3, <1>6 DEF vars
<1> QED  BY <1>1, <1>2, <1>3, <1>4, <1>5, <1>6 DEF Next, Call

\* The round robin of next() serves no light twice before a light that could be
\* served all the while, for any number of lights and any owner.
THEOREM RoundRobinFair == Spec => []OvertakenOnce
<1>1. Init => Behind
  BY DEF Init, NotOvertaken, Behind
<1>2. Behind => OvertakenOnce
  BY DEF Behind, OvertakenOnce
<1> QED  BY <1>1, <1>2, BehindNext, SchedulerTyped, PTL DEF Spec
=============================================================================
