-------------------------- MODULE EspTimeSource_proofs --------------------------
(***************************************************************************)
(* Theorems about the time service, for any number of tasks and any uptime *)
(* and epoch.                                                              *)
(*                                                                         *)
(* The fields are a synchronisation that was measured whenever nobody      *)
(* writes them, and while a task reads them nobody does.                   *)
(***************************************************************************)
EXTENDS EspTimeSource, TLAPS

(* Extrapolating whole seconds.                                            *)

\* Quotient and remainder.
LEMMA Division ==
    ASSUME NEW s \in Nat \ {0}, NEW a \in Nat
    PROVE  \E q \in Nat, r \in 0 .. s - 1 : a = s * q + r /\ a \div s = q
<1>1. a \div s \in Nat /\ a % s \in 0 .. s - 1
  OBVIOUS
<1>2. a = s * (a \div s) + (a % s)
  OBVIOUS
<1> QED  BY <1>1, <1>2

LEMMA QuotientIs ==
    ASSUME NEW s \in Nat \ {0}, NEW q \in Nat, NEW r \in 0 .. s - 1
    PROVE  (s * q + r) \div s = q
OBVIOUS

\* Rounding twice loses at most one second.
LEMMA RoundedTwice ==
    ASSUME NEW s \in Nat \ {0}, NEW a \in Nat, NEW b \in Nat
    PROVE  (a \div s) + (b \div s) \in {((a + b) \div s) - 1, (a + b) \div s}
<1>1. PICK q \in Nat, r \in 0 .. s - 1 : a = s * q + r /\ a \div s = q
  BY Division
<1>2. PICK p \in Nat, t \in 0 .. s - 1 : b = s * p + t /\ b \div s = p
  BY Division
<1>3. CASE r + t < s
  <2>1. a + b = s * (q + p) + (r + t) /\ r + t \in 0 .. s - 1 /\ q + p \in Nat
    BY <1>1, <1>2, <1>3
  <2>2. (a + b) \div s = q + p
    BY <2>1, QuotientIs
  <2> QED  BY <1>1, <1>2, <2>2
<1>4. CASE ~ (r + t < s)
  <2>1. a + b = s * (q + p + 1) + (r + t - s)
    BY <1>1, <1>2
  <2>2. r + t - s \in 0 .. s - 1 /\ q + p + 1 \in Nat
    BY <1>4
  <2>3. (a + b) \div s = q + p + 1
    BY <2>1, <2>2, QuotientIs
  <2> QED  BY <1>1, <1>2, <2>3
<1> QED  BY <1>3, <1>4

\* An extrapolation of a measured time is the true time, or a second behind it.
LEMMA ExtrapolatedClose ==
    ASSUME NEW u \in Nat, NEW now \in Nat, u <= now,
           NEW v, v.unix = TrueSeconds(u), v.uptime = u
    PROVE  /\ Extrapolated(v, now) \in {TrueSeconds(now) - 1, TrueSeconds(now)}
           /\ Extrapolated(v, now) \in Nat
<1>1. PICK a \in Nat, b \in Nat, s \in Nat \ {0} : a = Epoch + u /\ b = now - u /\ s = Second
  BY TimeAssumption
<1>2. a + b = Epoch + now
  BY <1>1, TimeAssumption
<1>3. Extrapolated(v, now) = (a \div s) + (b \div s)
  BY <1>1 DEF Extrapolated, TrueSeconds
<1>4. TrueSeconds(now) = (a + b) \div s
  BY <1>1, <1>2 DEF TrueSeconds
<1>5. PICK p, q, e : p = a \div s /\ q = b \div s /\ e = (a + b) \div s
  OBVIOUS
<1>6. p \in Nat /\ q \in Nat
  BY <1>5
<1>7. p + q \in {e - 1, e}
  BY <1>5, RoundedTwice
<1> QED  BY <1>3, <1>4, <1>5, <1>6, <1>7

-----------------------------------------------------------------------------
(* The invariant.                                                          *)

Reading == {"readUnix", "readUptime", "readValid", "readFlag"}
Writing == {"writeUnix", "writeUptime", "writeValid"}

\* A task in the section holds the lock, so there is one at most.
Exclusive == \A t \in Tasks : pc[t] \in Reading \cup Writing => lock = t

\* The true time at an uptime that has been.
Measured(unix, u) == u \in Nat /\ u <= uptime /\ unix = TrueSeconds(u)

\* What a setter is about to write was measured.
SettersMeasured ==
    \A t \in Tasks : pc[t] \in {"measured"} \cup Writing =>
        Measured(seen[t].unix, seen[t].uptime)

\* The fields were measured, once they are said to be valid, but for the first two
\* writes of a setter, which it is about to complete.
FieldsMeasured ==
    /\ \A t \in Tasks :
         /\ pc[t] \in {"writeUptime", "writeValid"} => unixAtSync = seen[t].unix
         /\ pc[t] = "writeValid" => uptimeAtSync = seen[t].uptime
    /\ synchronised => \/ Measured(unixAtSync, uptimeAtSync)
                       \/ \E t \in Tasks : pc[t] \in {"writeUptime", "writeValid"}

\* What a reader has read so far is what the fields hold, and when it leaves the
\* section it has a time that was measured, or knows that there is none.
ReadersMeasured ==
    \A t \in Tasks :
        /\ pc[t] \in {"readUptime", "readValid"} => seen[t].unix = unixAtSync
        /\ pc[t] = "readValid" => seen[t].uptime = uptimeAtSync
        /\ pc[t] = "extrapolate" /\ seen[t].valid = TRUE =>
             Measured(seen[t].unix, seen[t].uptime)

TimeInv ==
    /\ TypeOK /\ Exclusive /\ SettersMeasured /\ FieldsMeasured /\ ReadersMeasured
    /\ AtMostASecondSlow

\* What was measured stays measured.
LEMMA MeasuredStays ==
    ASSUME TypeOK, uptime' \in {uptime, uptime + 1}, NEW unix, NEW u, Measured(unix, u)
    PROVE  Measured(unix, u)'
BY DEF TypeOK, Measured

\* The types are kept.
LEMMA TypeOKInductive ==
    ASSUME TypeOK, [Next]_vars
    PROVE  TypeOK'
<1>1. \A u \in Nat : TrueSeconds(u) \in Nat
  BY TimeAssumption DEF TrueSeconds
<1>2. CASE Advance
  BY <1>2, TimeAssumption DEF TypeOK, Advance, sharedVars
<1>3. ASSUME NEW r \in Readers, Read(r)  PROVE TypeOK'
  <2>0. r \in Tasks
    BY DEF Tasks
  <2>1. CASE AskSeconds(r) \/ AskValid(r)
    BY <2>0, <2>1 DEF TypeOK, AskSeconds, AskValid, Enter, sharedVars
  <2>2. CASE ReadUnix(r) \/ ReadUptime(r) \/ ReadValid(r)
    BY <2>0, <2>2 DEF TypeOK, ReadUnix, ReadUptime, ReadValid, Leave, sharedVars
  <2>3. CASE Extrapolate(r)
    <3>1. seen[r] \in [unix : Nat, uptime : 0 .. MaxUptime, valid : BOOLEAN] /\ uptime \in Nat
      BY <2>0, TimeAssumption DEF TypeOK
    <3>2. Extrapolated(seen[r], uptime) \in Nat
      BY <3>1, TimeAssumption DEF Extrapolated
    <3>3. answer' \in [Readers -> [seconds : Nat, at : 0 .. MaxUptime, told : BOOLEAN]]
      BY <2>3, <3>1, <3>2 DEF TypeOK, Extrapolate
    <3> QED  BY <2>0, <2>3, <3>3, TimeAssumption DEF TypeOK, Extrapolate, sharedVars, Unused
  <2>4. CASE ReadFlag(r)
    BY <2>0, <2>4 DEF TypeOK, ReadFlag, Leave, sharedVars
  <2> QED  BY <1>3, <2>1, <2>2, <2>3, <2>4 DEF Read
<1>4. ASSUME NEW t \in Setters, Set(t)  PROVE TypeOK'
  <2>0. t \in Tasks
    BY DEF Tasks
  <2>1. CASE Measure(t)
    BY <1>1, <2>0, <2>1, TimeAssumption DEF TypeOK, Measure, sharedVars
  <2>2. CASE Synchronise(t)
    BY <2>0, <2>2 DEF TypeOK, Synchronise, Enter, sharedVars
  <2>3. CASE WriteUnix(t) \/ WriteUptime(t)
    BY <2>0, <2>3 DEF TypeOK, WriteUnix, WriteUptime
  <2>4. CASE WriteValid(t)
    BY <2>0, <2>4, TimeAssumption DEF TypeOK, WriteValid, Leave, Unused
  <2> QED  BY <1>4, <2>1, <2>2, <2>3, <2>4 DEF Set
<1>5. CASE UNCHANGED vars
  BY <1>5 DEF TypeOK, vars, sharedVars
<1> QED  BY <1>2, <1>3, <1>4, <1>5 DEF Next

\* The initial values have their types.
LEMMA TypeCorrectInitially ==
    ASSUME Init
    PROVE  TypeOK
<1>1. 0 \in 0 .. MaxUptime
  BY TimeAssumption
<1>2. seen \in [Tasks -> [unix : Nat, uptime : 0 .. MaxUptime, valid : BOOLEAN]]
  BY <1>1 DEF Init, Unused
<1>3. answer \in [Readers -> [seconds : Nat, at : 0 .. MaxUptime, told : BOOLEAN]]
  BY <1>1 DEF Init, NoAnswer
<1> QED  BY <1>1, <1>2, <1>3 DEF Init, TypeOK

\* Every variable of the service keeps its type, the 64-bit fields included.
THEOREM TypeCorrect == Spec => []TypeOK
BY TypeCorrectInitially, TypeOKInductive, PTL DEF Spec

\* Who is in the section is alone in it.
LEMMA Alone ==
    ASSUME Exclusive, NEW t \in Tasks, pc[t] \in Reading \cup Writing
    PROVE  lock = t /\ \A o \in Tasks : o # t => pc[o] \notin Reading \cup Writing
BY DEF Exclusive

\* The task t goes to where, and no other moves.
Goes(t, where) == pc' = [pc EXCEPT ![t] = where]

LEMMA GoesOnly ==
    ASSUME TypeOK, NEW t \in Tasks, NEW where, Goes(t, where)
    PROVE  pc'[t] = where /\ \A o \in Tasks : o # t => pc'[o] = pc[o]
BY DEF Goes, TypeOK

\* Only t's locals change.
LocalsOf(t) == \A o \in Tasks : o # t => seen'[o] = seen[o]

\* The parts of the invariant but for the types and the answers.
Section == Exclusive /\ SettersMeasured /\ FieldsMeasured /\ ReadersMeasured

\* Time goes on.
LEMMA AdvanceKeeps ==
    ASSUME TimeInv, Advance
    PROVE  Section'
<1>1. /\ uptime' = uptime + 1 /\ unixAtSync' = unixAtSync /\ uptimeAtSync' = uptimeAtSync
      /\ synchronised' = synchronised /\ lock' = lock /\ pc' = pc /\ seen' = seen
  BY DEF Advance, sharedVars
<1>2. \A unix, u : Measured(unix, u) => Measured(unix, u)'
  BY <1>1, MeasuredStays DEF TimeInv
<1>3. Exclusive'
  BY <1>1 DEF TimeInv, Exclusive
<1>4. SettersMeasured'
  BY <1>1, <1>2 DEF TimeInv, SettersMeasured
<1>5. FieldsMeasured'
  BY <1>1, <1>2 DEF TimeInv, FieldsMeasured
<1>6. ReadersMeasured'
  BY <1>1, <1>2 DEF TimeInv, ReadersMeasured
<1> QED  BY <1>3, <1>4, <1>5, <1>6 DEF Section

\* Where a task enters the section, and from where.
Entry(from, to) ==
    \/ to \in {"readUnix", "readFlag"}
    \/ from = "measured" /\ to = "writeUnix"

\* A task enters: the section was empty.
LEMMA EnterKeeps ==
    ASSUME TimeInv, NEW t \in Tasks, NEW from, NEW to, Enter(t, from, to), Entry(from, to)
    PROVE  Section'
<1>1. /\ uptime' = uptime /\ unixAtSync' = unixAtSync /\ uptimeAtSync' = uptimeAtSync
      /\ synchronised' = synchronised /\ seen' = seen
      /\ lock = NoTask /\ lock' = t /\ pc[t] = from /\ Goes(t, to)
  BY DEF Enter, MayEnter, sharedVars, Goes
<1>2. pc'[t] = to /\ \A o \in Tasks : o # t => pc'[o] = pc[o]
  BY <1>1, GoesOnly DEF TimeInv
<1>3. \A o \in Tasks : pc[o] \notin Reading \cup Writing
  BY <1>1, TimeAssumption DEF TimeInv, Exclusive, Tasks
<1>4. Exclusive'
  BY <1>1, <1>2, <1>3 DEF Exclusive, Entry
<1>5. SettersMeasured'
  BY <1>1, <1>2 DEF TimeInv, SettersMeasured, Writing, Measured, Entry
<1>6. FieldsMeasured'
  BY <1>1, <1>2, <1>3 DEF TimeInv, FieldsMeasured, Writing, Measured, Entry
<1>7. ReadersMeasured'
  BY <1>1, <1>2 DEF TimeInv, ReadersMeasured, Measured, Entry
<1> QED  BY <1>4, <1>5, <1>6, <1>7 DEF Section

\* A reader reads the two times.
LEMMA ReadKeeps ==
    ASSUME TimeInv, NEW r \in Tasks, ReadUnix(r) \/ ReadUptime(r)
    PROVE  Section'
<1>1. /\ uptime' = uptime /\ unixAtSync' = unixAtSync /\ uptimeAtSync' = uptimeAtSync
      /\ synchronised' = synchronised /\ lock' = lock
      /\ pc[r] \in {"readUnix", "readUptime"}
      /\ Goes(r, IF pc[r] = "readUnix" THEN "readUptime" ELSE "readValid")
  BY DEF ReadUnix, ReadUptime, sharedVars, Goes
<1>2. /\ pc'[r] = IF pc[r] = "readUnix" THEN "readUptime" ELSE "readValid"
      /\ \A o \in Tasks : o # r => pc'[o] = pc[o]
  BY <1>1, GoesOnly DEF TimeInv
<1>3. LocalsOf(r) /\ seen'[r].unix = unixAtSync
      /\ (pc'[r] = "readValid" => seen'[r].uptime = uptimeAtSync)
  <2>1. seen \in [Tasks -> [unix : Nat, uptime : 0 .. MaxUptime, valid : BOOLEAN]]
    BY DEF TimeInv, TypeOK
  <2>2. pc[r] = "readUptime" => seen[r].unix = unixAtSync
    BY DEF TimeInv, ReadersMeasured
  <2>3. CASE ReadUnix(r)
    BY <1>2, <2>1, <2>3 DEF ReadUnix, LocalsOf
  <2>4. CASE ReadUptime(r)
    BY <1>2, <2>1, <2>2, <2>4 DEF ReadUptime, LocalsOf
  <2> QED  BY <2>3, <2>4
<1>4. Exclusive'
  BY <1>1, <1>2 DEF TimeInv, Exclusive, Reading
<1>5. SettersMeasured'
  BY <1>1, <1>2, <1>3 DEF TimeInv, SettersMeasured, Writing, Measured, LocalsOf
<1>6. FieldsMeasured'
  BY <1>1, <1>2, <1>3 DEF TimeInv, FieldsMeasured, Measured, LocalsOf
<1>7. ReadersMeasured'
  BY <1>1, <1>2, <1>3 DEF TimeInv, ReadersMeasured, Measured, LocalsOf
<1> QED  BY <1>4, <1>5, <1>6, <1>7 DEF Section

\* A reader reads whether the two are valid, and leaves.
LEMMA ReadValidKeeps ==
    ASSUME TimeInv, NEW r \in Tasks, ReadValid(r)
    PROVE  Section'
<1>1. /\ uptime' = uptime /\ unixAtSync' = unixAtSync /\ uptimeAtSync' = uptimeAtSync
      /\ synchronised' = synchronised
      /\ pc[r] = "readValid" /\ Goes(r, "extrapolate")
      /\ seen' = [seen EXCEPT ![r].valid = synchronised]
  BY DEF ReadValid, Leave, sharedVars, Goes
<1>2. pc'[r] = "extrapolate" /\ \A o \in Tasks : o # r => pc'[o] = pc[o]
  BY <1>1, GoesOnly DEF TimeInv
<1>3. \A o \in Tasks : o # r => pc[o] \notin Reading \cup Writing
  BY <1>1, Alone DEF TimeInv, Reading
<1>4. /\ LocalsOf(r) /\ seen'[r].valid = synchronised
      /\ seen'[r].unix = unixAtSync /\ seen'[r].uptime = uptimeAtSync
  <2>1. seen \in [Tasks -> [unix : Nat, uptime : 0 .. MaxUptime, valid : BOOLEAN]]
    BY DEF TimeInv, TypeOK
  <2>2. seen[r].unix = unixAtSync /\ seen[r].uptime = uptimeAtSync
    BY <1>1 DEF TimeInv, ReadersMeasured
  <2> QED  BY <1>1, <2>1, <2>2 DEF LocalsOf
<1>5. synchronised => Measured(unixAtSync, uptimeAtSync)
  BY <1>1, <1>3 DEF TimeInv, FieldsMeasured, Writing
<1>6. Exclusive'
  BY <1>2, <1>3 DEF Exclusive, Reading, Writing
<1>7. SettersMeasured'
  BY <1>1, <1>2, <1>4 DEF TimeInv, SettersMeasured, Writing, Measured, LocalsOf
<1>8. FieldsMeasured'
  BY <1>1, <1>2, <1>4, <1>5 DEF TimeInv, FieldsMeasured, Measured, LocalsOf
<1>9. ReadersMeasured'
  BY <1>1, <1>2, <1>4, <1>5 DEF TimeInv, ReadersMeasured, Measured, LocalsOf
<1> QED  BY <1>6, <1>7, <1>8, <1>9 DEF Section

\* A reader answers, or leaves with the flag: neither is in the way of anybody.
LEMMA AnswerKeeps ==
    ASSUME TimeInv, NEW r \in Tasks, Extrapolate(r) \/ ReadFlag(r)
    PROVE  Section'
<1>1. /\ uptime' = uptime /\ unixAtSync' = unixAtSync /\ uptimeAtSync' = uptimeAtSync
      /\ synchronised' = synchronised
      /\ pc[r] \in {"extrapolate", "readFlag"} /\ Goes(r, "idle")
  BY DEF Extrapolate, ReadFlag, Leave, sharedVars, Goes
<1>2. pc'[r] = "idle" /\ \A o \in Tasks : o # r => pc'[o] = pc[o]
  BY <1>1, GoesOnly DEF TimeInv
<1>3. LocalsOf(r)
  BY DEF Extrapolate, ReadFlag, LocalsOf, TimeInv, TypeOK
<1>4. Exclusive'
  <2>1. CASE Extrapolate(r)
    BY <1>2, <2>1 DEF Extrapolate, TimeInv, Exclusive, Reading, Writing
  <2>2. CASE ReadFlag(r)
    <3>1. \A o \in Tasks : o # r => pc[o] \notin Reading \cup Writing
      BY <2>2, Alone DEF ReadFlag, TimeInv, Reading
    <3> QED  BY <1>2, <3>1 DEF Exclusive, Reading, Writing
  <2> QED  BY <2>1, <2>2
<1>5. SettersMeasured'
  BY <1>1, <1>2, <1>3 DEF TimeInv, SettersMeasured, Writing, Measured, LocalsOf
<1>6. FieldsMeasured'
  BY <1>1, <1>2, <1>3 DEF TimeInv, FieldsMeasured, Measured, LocalsOf
<1>7. ReadersMeasured'
  BY <1>1, <1>2, <1>3 DEF TimeInv, ReadersMeasured, Measured, LocalsOf
<1> QED  BY <1>4, <1>5, <1>6, <1>7 DEF Section

\* A peer's time is measured.
LEMMA MeasureKeeps ==
    ASSUME TimeInv, NEW t \in Tasks, Measure(t)
    PROVE  Section'
<1>1. /\ uptime' = uptime /\ unixAtSync' = unixAtSync /\ uptimeAtSync' = uptimeAtSync
      /\ synchronised' = synchronised /\ lock' = lock
      /\ pc[t] = "idle" /\ Goes(t, "measured")
      /\ seen' = [seen EXCEPT ![t] = [unix |-> TrueSeconds(uptime), uptime |-> uptime,
                                      valid |-> TRUE]]
  BY DEF Measure, sharedVars, Goes
<1>2. pc'[t] = "measured" /\ \A o \in Tasks : o # t => pc'[o] = pc[o]
  BY <1>1, GoesOnly DEF TimeInv
<1>3. LocalsOf(t) /\ seen'[t].unix = TrueSeconds(uptime) /\ seen'[t].uptime = uptime
  BY <1>1 DEF LocalsOf, TimeInv, TypeOK
<1>4. uptime \in Nat
  BY TimeAssumption DEF TimeInv, TypeOK
<1>5. Exclusive'
  BY <1>1, <1>2 DEF TimeInv, Exclusive, Reading, Writing
<1>6. SettersMeasured'
  BY <1>1, <1>2, <1>3, <1>4 DEF TimeInv, SettersMeasured, Measured, LocalsOf
<1>7. FieldsMeasured'
  BY <1>1, <1>2, <1>3 DEF TimeInv, FieldsMeasured, Measured, LocalsOf
<1>8. ReadersMeasured'
  BY <1>1, <1>2, <1>3 DEF TimeInv, ReadersMeasured, Measured, LocalsOf
<1> QED  BY <1>5, <1>6, <1>7, <1>8 DEF Section

\* A setter writes the two times.
LEMMA WriteKeeps ==
    ASSUME TimeInv, NEW t \in Tasks, WriteUnix(t) \/ WriteUptime(t)
    PROVE  Section'
<1>1. /\ uptime' = uptime /\ lock' = lock /\ seen' = seen
      /\ pc[t] \in {"writeUnix", "writeUptime"}
      /\ Goes(t, IF pc[t] = "writeUnix" THEN "writeUptime" ELSE "writeValid")
      /\ unixAtSync' = seen[t].unix
      /\ (pc'[t] = "writeValid" => uptimeAtSync' = seen[t].uptime)
  <2>1. pc[t] = "writeUptime" => unixAtSync = seen[t].unix
    BY DEF TimeInv, FieldsMeasured
  <2>2. WriteUnix(t) => pc'[t] = "writeUptime"
    BY DEF WriteUnix, TimeInv, TypeOK
  <2> QED  BY <2>1, <2>2 DEF WriteUnix, WriteUptime, Goes
<1>2. /\ pc'[t] = IF pc[t] = "writeUnix" THEN "writeUptime" ELSE "writeValid"
      /\ \A o \in Tasks : o # t => pc'[o] = pc[o]
  BY <1>1, GoesOnly DEF TimeInv
<1>3. \A o \in Tasks : o # t => pc[o] \notin Reading \cup Writing
  BY <1>1, Alone DEF TimeInv, Writing
<1>4. Exclusive'
  BY <1>1, <1>2 DEF TimeInv, Exclusive, Writing
<1>5. SettersMeasured'
  BY <1>1, <1>2 DEF TimeInv, SettersMeasured, Writing, Measured
<1>6. FieldsMeasured'
  BY <1>1, <1>2, <1>3 DEF FieldsMeasured, Writing
<1>7. ReadersMeasured'
  BY <1>1, <1>2, <1>3 DEF TimeInv, ReadersMeasured, Measured, Reading
<1> QED  BY <1>4, <1>5, <1>6, <1>7 DEF Section

\* A setter says that they are valid, and leaves.
LEMMA WriteValidKeeps ==
    ASSUME TimeInv, NEW t \in Tasks, WriteValid(t)
    PROVE  Section'
<1>1. /\ uptime' = uptime /\ unixAtSync' = unixAtSync /\ uptimeAtSync' = uptimeAtSync
      /\ pc[t] = "writeValid" /\ Goes(t, "idle") /\ LocalsOf(t)
  BY DEF WriteValid, Leave, Goes, LocalsOf, TimeInv, TypeOK
<1>2. pc'[t] = "idle" /\ \A o \in Tasks : o # t => pc'[o] = pc[o]
  BY <1>1, GoesOnly DEF TimeInv
<1>3. \A o \in Tasks : o # t => pc[o] \notin Reading \cup Writing
  BY <1>1, Alone DEF TimeInv, Writing
<1>4. Measured(unixAtSync, uptimeAtSync)
  BY <1>1 DEF TimeInv, FieldsMeasured, SettersMeasured, Writing
<1>5. Exclusive'
  BY <1>2, <1>3 DEF Exclusive, Reading, Writing
<1>6. SettersMeasured'
  BY <1>1, <1>2 DEF TimeInv, SettersMeasured, Writing, Measured, LocalsOf
<1>7. FieldsMeasured'
  BY <1>1, <1>2, <1>3, <1>4 DEF FieldsMeasured, Writing, Measured
<1>8. ReadersMeasured'
  BY <1>1, <1>2, <1>3 DEF TimeInv, ReadersMeasured, Measured, LocalsOf, Reading
<1> QED  BY <1>5, <1>6, <1>7, <1>8 DEF Section

\* What a reader answers is close to the true time.
LEMMA AnswersClose ==
    ASSUME TimeInv, [Next]_vars
    PROVE  AtMostASecondSlow'
<1>1. CASE answer' = answer
  BY <1>1 DEF TimeInv, AtMostASecondSlow
<1>2. ASSUME NEW r \in Readers, Extrapolate(r)  PROVE AtMostASecondSlow'
  <2>1. r \in Tasks /\ pc[r] = "extrapolate" /\ uptime \in Nat
    BY <1>2, TimeAssumption DEF Extrapolate, Tasks, TimeInv, TypeOK
  <2>2. ASSUME seen[r].valid = TRUE
        PROVE  Extrapolated(seen[r], uptime) \in {TrueSeconds(uptime) - 1, TrueSeconds(uptime)}
    <3>1. Measured(seen[r].unix, seen[r].uptime)
      BY <2>1, <2>2 DEF TimeInv, ReadersMeasured
    <3>2. PICK u \in Nat : u = seen[r].uptime /\ u <= uptime /\ seen[r].unix = TrueSeconds(u)
      BY <3>1 DEF Measured
    <3> QED  BY <2>1, <3>2, ExtrapolatedClose
  <2>3. seen[r].valid \in BOOLEAN
    BY <2>1 DEF TimeInv, TypeOK
  <2>4. /\ answer'[r].at = uptime /\ answer'[r].told = seen[r].valid
        /\ (seen[r].valid = TRUE => answer'[r].seconds = Extrapolated(seen[r], uptime))
        /\ \A o \in Readers : o # r => answer'[o] = answer[o]
    BY <1>2 DEF Extrapolate, TimeInv, TypeOK
  <2> QED  BY <2>2, <2>3, <2>4 DEF TimeInv, AtMostASecondSlow
<1>3. (\E r \in Readers : Extrapolate(r)) \/ answer' = answer
  BY DEF Next, Advance, Read, AskSeconds, AskValid, Enter, ReadUnix, ReadUptime, ReadValid,
         ReadFlag, Set, Measure, Synchronise, WriteUnix, WriteUptime, WriteValid, vars
<1> QED  BY <1>1, <1>2, <1>3

LEMMA TimeInvInductive ==
    ASSUME TimeInv, [Next]_vars
    PROVE  TimeInv'
<1>1. Section'
  <2>1. ASSUME NEW r \in Readers, Read(r)  PROVE Section'
    <3>0. r \in Tasks
      BY DEF Tasks
    <3>1. Entry("idle", "readUnix") /\ Entry("idle", "readFlag")
      BY DEF Entry
    <3>2. CASE AskSeconds(r) \/ AskValid(r)
      BY <3>0, <3>1, <3>2, EnterKeeps DEF AskSeconds, AskValid
    <3> QED  BY <2>1, <3>0, <3>2, ReadKeeps, ReadValidKeeps, AnswerKeeps DEF Read
  <2>2. ASSUME NEW t \in Setters, Set(t)  PROVE Section'
    <3>0. t \in Tasks
      BY DEF Tasks
    <3>1. CASE Synchronise(t)
      BY <3>0, <3>1, EnterKeeps DEF Synchronise, Entry
    <3> QED  BY <2>2, <3>0, <3>1, MeasureKeeps, WriteKeeps, WriteValidKeeps DEF Set
  <2>3. CASE UNCHANGED vars
    BY <2>3 DEF vars, sharedVars, TimeInv, Section, Exclusive, SettersMeasured,
                FieldsMeasured, ReadersMeasured, Measured
  <2> QED  BY <2>1, <2>2, <2>3, AdvanceKeeps DEF Next
<1>2. TypeOK'
  BY TypeOKInductive DEF TimeInv
<1> QED  BY <1>1, <1>2, AnswersClose DEF TimeInv, Section

\* A Unix time that is returned is never made of two synchronisations, and at most
\* a second behind: whatever the tasks of both cores do meanwhile.
THEOREM TimeIsClose == Spec => []AtMostASecondSlow
<1>1. ASSUME Init  PROVE TimeInv
  <2>1. TypeOK
    BY <1>1, TypeCorrectInitially
  <2> QED  BY <1>1, <2>1 DEF Init, TimeInv, Exclusive, SettersMeasured, FieldsMeasured,
                             ReadersMeasured, AtMostASecondSlow, Reading, Writing, NoAnswer
<1>2. TimeInv => AtMostASecondSlow
  BY DEF TimeInv
<1> QED  BY <1>1, <1>2, TimeInvInductive, PTL DEF Spec
================================================================================
