------------------------ MODULE DaliDeviceManager_proofs ------------------------
(***************************************************************************)
(* What holds of the device manager for any number of addresses, any core  *)
(* features and any history of the bus.                                    *)
(*                                                                         *)
(* The invariant of the proof follows one address: its record is well      *)
(* formed, what the reader of the batches will know once the scan in       *)
(* progress returns (the view with the changes collected so far) agrees    *)
(* with the record, and a light that was never disturbed is only ever      *)
(* found or not asked.  It rests on the batch: a scan adds at most one     *)
(* change for each address it has passed, so the batch is never full when  *)
(* the next change comes.                                                  *)
(***************************************************************************)
EXTENDS DaliDeviceManager, TLAPS

Record == [lifecycle : DeviceLifecycle, present : BOOLEAN, missed : 0..3]
CapabilityEntry == [state : CapabilityState, noResponses : 0..2]
Absence == [missed : 0..3, inARow : 0..3]
View == {"unseen", "present", "missing"}
Op == [kind : {"idle", "scan", "detect"}, address : 0..AddressCount,
       probe : 0..(Len(CoreFeatures) + 1)]

-----------------------------------------------------------------------------
(* One record.                                                             *)

\* The slot is empty or the flag, the count and the lifecycle agree.
WellFormed(r) ==
    /\ r.lifecycle = "None" => r = NoRecord
    /\ r # NoRecord => /\ r.present <=> r.missed < 3
                       /\ r.lifecycle = "Missing" => ~ r.present
                       /\ r.lifecycle = "Present" => r.present

\* A reader whose view of a light is v has been told what its record says.
ToldOf(r, v) ==
    /\ v = "unseen" <=> r = NoRecord
    /\ r # NoRecord /\ ~ r.present => v = "missing"

\* What a known light missed since its last valid response is what its record
\* counted, and without a collision it missed it in a row.
Counted(r, collided, absence) ==
    r # NoRecord =>
        /\ absence.missed = r.missed
        /\ ~ collided => /\ absence.inARow = absence.missed
                         /\ r.lifecycle # "DuplicateAddress"

\* The histories of an address after the outcome of its presence query.
CollidedAfter(collided, outcome) ==
    IF IsValidResponse(outcome) THEN FALSE ELSE collided \/ outcome = "Collision"
AbsenceAfter(r, absence, outcome) ==
    IF AfterPresence(r, outcome) = NoRecord THEN NoAbsence
    ELSE AfterAbsence(absence, outcome)

\* A presence query leaves a well-formed record (AfterPresence).
LEMMA RecordKept ==
    ASSUME NEW r \in Record, WellFormed(r), NEW outcome \in Outcomes
    PROVE  /\ AfterPresence(r, outcome) \in Record
           /\ WellFormed(AfterPresence(r, outcome))
<1>1. CASE IsValidResponse(outcome)
  BY <1>1 DEF IsValidResponse, AfterPresence, Seen, WellFormed, NoRecord, Record, DeviceLifecycle
<1>2. CASE ~ IsValidResponse(outcome) /\ outcome = "Collision"
  <2>1. CASE r = NoRecord
    BY <1>2, <2>1 DEF AfterPresence
  <2>2. CASE r # NoRecord
    <3> DEFINE s == [r EXCEPT !.lifecycle = "DuplicateAddress"]
    <3>1. AfterPresence(r, outcome) = s
      BY <1>2, <2>2 DEF AfterPresence
    <3>2. /\ s \in Record
          /\ s.lifecycle = "DuplicateAddress"
          /\ s.present = r.present /\ s.missed = r.missed
      BY DEF Record, DeviceLifecycle
    <3> HIDE DEF s
    <3> QED  BY <2>2, <3>1, <3>2 DEF WellFormed
  <2> QED  BY <2>1, <2>2
<1>3. CASE ~ IsValidResponse(outcome) /\ outcome # "Collision"
  <2>1. Miss(r) \in Record
    BY DEF Miss, Record, DeviceLifecycle
  <2>2. r # NoRecord => WellFormed(Miss(r))
    BY DEF Miss, WellFormed, NoRecord, Record, DeviceLifecycle
  <2>3. AfterPresence(r, outcome) \in {r, Miss(r)}
    BY <1>3 DEF AfterPresence
  <2>4. r = NoRecord => AfterPresence(r, outcome) = r
    BY <1>3 DEF AfterPresence
  <2> QED  BY <2>1, <2>2, <2>3, <2>4
<1> QED  BY <1>1, <1>2, <1>3

\* The history goes on counting what the record counts (AfterPresence).
LEMMA CountKept ==
    ASSUME NEW r \in Record, WellFormed(r), NEW collided \in BOOLEAN,
           NEW absence \in Absence, Counted(r, collided, absence),
           NEW outcome \in Outcomes
    PROVE  /\ AbsenceAfter(r, absence, outcome) \in Absence
           /\ Counted(AfterPresence(r, outcome), CollidedAfter(collided, outcome),
                      AbsenceAfter(r, absence, outcome))
<1> USE DEF AbsenceAfter, CollidedAfter
<1>1. CASE IsValidResponse(outcome)
  <2>1. AfterPresence(r, outcome) = Seen /\ Seen # NoRecord
    <3>1. AfterPresence(r, outcome) = Seen
      BY <1>1 DEF AfterPresence, IsValidResponse
    <3>2. Seen.lifecycle # NoRecord.lifecycle
      BY DEF Seen, NoRecord
    <3> QED  BY <3>1, <3>2
  <2>2. AfterAbsence(absence, outcome) = NoAbsence /\ NoAbsence \in Absence
    BY <1>1 DEF AfterAbsence, IsValidResponse, NoAbsence, Absence
  <2>3. Counted(Seen, FALSE, NoAbsence)
    BY DEF Counted, Seen, NoAbsence
  <2> QED  BY <1>1, <2>1, <2>2, <2>3
<1>2. CASE ~ IsValidResponse(outcome) /\ r = NoRecord
  <2>1. AfterPresence(r, outcome) = NoRecord
    BY <1>2 DEF AfterPresence
  <2>2. NoAbsence \in Absence
    BY DEF NoAbsence, Absence
  <2> QED  BY <2>1, <2>2 DEF Counted
<1>3. CASE outcome = "Collision" /\ r # NoRecord
  <2> DEFINE s == [absence EXCEPT !.inARow = 0]
             q == [r EXCEPT !.lifecycle = "DuplicateAddress"]
  <2>1. AfterPresence(r, outcome) = q /\ ~ IsValidResponse(outcome)
    BY <1>3 DEF AfterPresence, IsValidResponse
  <2>2. AfterAbsence(absence, outcome) = s
    BY <1>3 DEF AfterAbsence
  <2>3. s \in Absence /\ s.missed = absence.missed
    BY DEF Absence
  <2>4. q.missed = r.missed /\ q.lifecycle = "DuplicateAddress"
    BY DEF Record
  <2>5. q # NoRecord
    BY <2>4 DEF NoRecord
  <2> HIDE DEF s, q
  <2> QED  BY <1>3, <2>1, <2>2, <2>3, <2>4, <2>5 DEF Counted
<1>4. CASE IsBusFailure(outcome) /\ r # NoRecord
  <2>1. AfterPresence(r, outcome) = r /\ ~ IsValidResponse(outcome)
    BY <1>4 DEF AfterPresence, IsValidResponse, IsBusFailure
  <2>2. AfterAbsence(absence, outcome) = absence /\ outcome # "Collision"
    BY <1>4 DEF AfterAbsence, IsBusFailure
  <2> QED  BY <1>4, <2>1, <2>2
<1>5. CASE /\ ~ IsValidResponse(outcome) /\ ~ IsBusFailure(outcome)
           /\ outcome # "Collision" /\ r # NoRecord
  <2> DEFINE OneMore(n) == IF n < 3 THEN n + 1 ELSE n
             s == [missed |-> OneMore(absence.missed),
                   inARow |-> OneMore(absence.inARow)]
  <2>1. AfterAbsence(absence, outcome) = s
    BY <1>5 DEF AfterAbsence, IsValidResponse, IsBusFailure
  <2>2. s \in Absence /\ (~ collided => s.inARow = s.missed)
    <3>1. absence.missed \in 0..3 /\ absence.inARow \in 0..3
      BY DEF Absence
    <3>2. OneMore(absence.missed) \in 0..3 /\ OneMore(absence.inARow) \in 0..3
      BY <3>1
    <3>3. s \in Absence
      BY <3>2 DEF Absence
    <3> QED  BY <1>5, <3>3 DEF Counted
  <2>3. /\ AfterPresence(r, outcome).missed = OneMore(r.missed)
        /\ AfterPresence(r, outcome) # NoRecord
        /\ ~ collided => AfterPresence(r, outcome).lifecycle # "DuplicateAddress"
    <3>1. ~ collided => r.lifecycle # "DuplicateAddress"
      BY <1>5 DEF Counted
    <3>2. CASE r.lifecycle = "Missing"
      <4>1. AfterPresence(r, outcome) = r
        BY <1>5, <3>2 DEF AfterPresence
      <4>2. r.missed = 3
        BY <1>5, <3>2 DEF WellFormed, Record
      <4> QED  BY <1>5, <3>1, <4>1, <4>2
    <3>3. CASE r.lifecycle # "Missing"
      <4>1. AfterPresence(r, outcome) = Miss(r)
        BY <1>5, <3>3 DEF AfterPresence
      <4>2. Miss(r).missed = OneMore(r.missed)
        BY DEF Miss, Record
      <4>3. Miss(r).lifecycle \in {r.lifecycle, "Missing"}
        BY DEF Miss, Record
      <4>4. r.lifecycle # "None"
        BY <1>5 DEF WellFormed
      <4>5. Miss(r) # NoRecord
        BY <4>3, <4>4 DEF NoRecord
      <4> QED  BY <3>1, <4>1, <4>2, <4>3, <4>5
    <3> QED  BY <3>2, <3>3
  <2>4. s.missed = OneMore(r.missed)
    BY <1>5 DEF Counted
  <2> HIDE DEF s, OneMore
  <2> QED  BY <1>5, <2>1, <2>2, <2>3, <2>4 DEF Counted
<1> QED  BY <1>1, <1>2, <1>3, <1>4, <1>5 DEF IsValidResponse, IsBusFailure

\* The change a query reports tells the reader what the query did to the
\* record (AfterPresence and ChangeOf agree).
LEMMA ChangeTold ==
    ASSUME NEW r \in Record, WellFormed(r), NEW v \in View, ToldOf(r, v),
           NEW reported \in BOOLEAN, NEW outcome \in Outcomes
    PROVE  ToldOf(AfterPresence(r, outcome),
                  AfterChange(v, ChangeOf(r, reported, outcome)))
<1>1. CASE IsValidResponse(outcome)
  BY <1>1 DEF IsValidResponse, AfterPresence, ChangeOf, AfterChange, ToldOf, WellFormed, Seen,
              NoRecord, View, Record, DeviceLifecycle
<1>2. CASE ~ IsValidResponse(outcome) /\ outcome = "Collision"
  <2>1. AfterChange(v, ChangeOf(r, reported, outcome)) = v
    BY <1>2 DEF ChangeOf, AfterChange
  <2>2. /\ AfterPresence(r, outcome) = NoRecord <=> r = NoRecord
        /\ AfterPresence(r, outcome).present = r.present
    <3>1. CASE r = NoRecord
      BY <1>2, <3>1 DEF AfterPresence
    <3>2. CASE r # NoRecord
      <4>1. AfterPresence(r, outcome) = [r EXCEPT !.lifecycle = "DuplicateAddress"]
        BY <1>2, <3>2 DEF AfterPresence
      <4>2. AfterPresence(r, outcome).lifecycle = "DuplicateAddress"
        BY <4>1 DEF Record
      <4> QED  BY <3>2, <4>1, <4>2 DEF NoRecord, Record
    <3> QED  BY <3>1, <3>2
  <2> QED  BY <2>1, <2>2 DEF ToldOf
<1>3. CASE ~ IsValidResponse(outcome) /\ outcome # "Collision"
  <2>1. CASE r = NoRecord \/ IsBusFailure(outcome) \/ r.lifecycle = "Missing"
    <3>1. AfterPresence(r, outcome) = r
      BY <1>3, <2>1 DEF AfterPresence
    <3>2. AfterChange(v, ChangeOf(r, reported, outcome)) = v
      BY <1>3, <3>1 DEF ChangeOf, AfterChange
    <3> QED  BY <3>1, <3>2
  <2>2. CASE ~ (r = NoRecord \/ IsBusFailure(outcome) \/ r.lifecycle = "Missing")
    <3>1. AfterPresence(r, outcome) = Miss(r)
      BY <1>3, <2>2 DEF AfterPresence
    <3>2. CASE Miss(r).lifecycle = "Missing"
      <4>1. ChangeOf(r, reported, outcome) = "DeviceMissing"
        BY <1>3, <2>2, <3>1, <3>2 DEF ChangeOf
      <4> QED  BY <3>1, <3>2, <4>1 DEF AfterChange, ToldOf, NoRecord
    <3>3. CASE Miss(r).lifecycle # "Missing"
      <4>1. AfterChange(v, ChangeOf(r, reported, outcome)) = v
        BY <1>3, <3>1, <3>3 DEF ChangeOf, AfterChange
      <4>2. Miss(r).present = r.present /\ Miss(r) # NoRecord
        BY <2>2, <3>3 DEF Miss, NoRecord, WellFormed, Record
      <4> QED  BY <2>2, <3>1, <4>1, <4>2 DEF ToldOf
    <3> QED  BY <3>2, <3>3
  <2> QED  BY <2>1, <2>2
<1> QED  BY <1>1, <1>2, <1>3

\* What a query reports is nothing or one of the changes.
LEMMA ChangeTyped ==
    ASSUME NEW r, NEW reported, NEW outcome
    PROVE  ChangeOf(r, reported, outcome) \in ChangeType \cup {"none"}
BY DEF ChangeOf, ChangeType

-----------------------------------------------------------------------------
(* The batch of a scan.                                                    *)

\* Every change is about an address the scan has passed, and no two are about
\* the same one.
Orderly(changes, passed) ==
    /\ Len(changes) <= passed
    /\ \A i \in 1..Len(changes) : changes[i].address < passed
    /\ \A i, j \in 1..Len(changes) :
         changes[i].address = changes[j].address => i = j

\* What a reader with the views v knows of light a after the changes.
ViewAfter(v, changes, a) ==
    IF \E i \in 1..Len(changes) : changes[i].address = a
    THEN AfterChange(v[a],
                     changes[CHOOSE i \in 1..Len(changes) :
                                changes[i].address = a].type)
    ELSE v[a]

\* The one change about a light decides what the reader knows of it.
LEMMA ViewOfOne ==
    ASSUME NEW v, NEW changes, NEW passed, Orderly(changes, passed), NEW a,
           NEW i \in 1..Len(changes), changes[i].address = a
    PROVE  ViewAfter(v, changes, a) = AfterChange(v[a], changes[i].type)
<1> DEFINE k == CHOOSE j \in 1..Len(changes) : changes[j].address = a
<1>1. k \in 1..Len(changes) /\ changes[k].address = a
  OBVIOUS
<1>2. k = i
  BY <1>1 DEF Orderly
<1> HIDE DEF k
<1> QED  BY <1>2 DEF ViewAfter, k

\* DiscoveryBatch::add finds room, and keeps the batch orderly.
LEMMA AddKeepsOrder ==
    ASSUME NEW changes \in Seq(Changes), NEW a \in Addresses,
           Orderly(changes, a), NEW type \in ChangeType \cup {"none"}
    PROVE  /\ Added(changes, type, a) \in Seq(Changes)
           /\ Orderly(Added(changes, type, a), a + 1)
           /\ Len(Added(changes, type, a)) <= BatchCapacity
           /\ type = "none" => Added(changes, type, a) = changes
           /\ type # "none" =>
                 Added(changes, type, a) =
                    Append(changes, [type |-> type, address |-> a])
<1>1. /\ a \in Nat /\ Len(changes) \in Nat /\ BatchCapacity \in Nat
      /\ Len(changes) <= a /\ a + 1 <= BatchCapacity
  BY DeviceManagerAssumption DEF Orderly, Addresses
<1>0. \A i \in 1..Len(changes) :
         changes[i].address \in Nat /\ changes[i].address < a
  <2>1. \A i \in 1..Len(changes) : changes[i] \in Changes
    OBVIOUS
  <2> QED  BY <2>1 DEF Changes, Addresses, Orderly
<1>2. CASE type = "none"
  <2>1. Added(changes, type, a) = changes
    BY <1>2 DEF Added
  <2>2. \A i \in 1..Len(changes) : changes[i].address < a + 1
    BY <1>0, <1>1
  <2>3. Orderly(changes, a + 1)
    BY <1>1, <2>2 DEF Orderly
  <2> QED  BY <1>1, <1>2, <2>1, <2>3
<1>3. CASE type # "none"
  <2> DEFINE change == [type |-> type, address |-> a]
  <2> DEFINE longer == Append(changes, change)
  <2>1. change \in Changes
    BY <1>3 DEF Changes
  <2>2. Added(changes, type, a) = longer
    BY <1>1, <1>3 DEF Added
  <2>3. /\ longer \in Seq(Changes)
        /\ Len(longer) = Len(changes) + 1
        /\ \A i \in 1..Len(changes) : longer[i] = changes[i]
        /\ longer[Len(changes) + 1] = change
    BY <2>1
  <2>4. change.address = a
    OBVIOUS
  <2> HIDE DEF longer, change
  <2>5. Orderly(longer, a + 1)
    <3>1. \A i \in 1..Len(changes) : longer[i].address < a
      BY <2>3 DEF Orderly
    <3>2. \A i \in 1..Len(longer) : longer[i].address < a + 1
      BY <1>0, <1>1, <2>3, <2>4
    <3>3. \A i, j \in 1..Len(longer) :
            longer[i].address = longer[j].address => i = j
      <4> SUFFICES ASSUME NEW i \in 1..Len(longer), NEW j \in 1..Len(longer),
                          longer[i].address = longer[j].address
                   PROVE  i = j
        OBVIOUS
      <4>1. CASE i \in 1..Len(changes) /\ j \in 1..Len(changes)
        BY <2>3, <4>1 DEF Orderly
      <4>2. CASE i = Len(changes) + 1 /\ j \in 1..Len(changes)
        BY <2>3, <2>4, <3>1, <4>2 DEF Addresses
      <4>3. CASE j = Len(changes) + 1 /\ i \in 1..Len(changes)
        BY <2>3, <2>4, <3>1, <4>3 DEF Addresses
      <4> QED  BY <2>3, <4>1, <4>2, <4>3
    <3>4. Len(longer) <= a + 1
      BY <2>3 DEF Orderly, Addresses
    <3> QED  BY <3>2, <3>3, <3>4 DEF Orderly
  <2>6. Len(longer) <= BatchCapacity
    BY <1>1, <2>3
  <2>7. longer = Append(changes, [type |-> type, address |-> a])
    BY DEF longer, change
  <2> QED  BY <1>3, <2>2, <2>3, <2>5, <2>6, <2>7
<1> QED  BY <1>2, <1>3

\* Adding a change about one light tells the reader of that light alone.
LEMMA AddTells ==
    ASSUME NEW changes \in Seq(Changes), NEW a \in Addresses,
           Orderly(changes, a), NEW type \in ChangeType \cup {"none"},
           NEW v \in [Addresses -> View]
    PROVE  /\ ViewAfter(v, Added(changes, type, a), a) = AfterChange(v[a], type)
           /\ ViewAfter(v, changes, a) = v[a]
           /\ \A b \in Addresses \ {a} :
                ViewAfter(v, Added(changes, type, a), b) = ViewAfter(v, changes, b)
<1> DEFINE after == Added(changes, type, a)
<1>1. /\ after \in Seq(Changes)
      /\ Orderly(after, a + 1)
      /\ type = "none" => after = changes
      /\ type # "none" => after = Append(changes, [type |-> type, address |-> a])
  BY AddKeepsOrder
<1> HIDE DEF after
<1>2. ~ \E i \in 1..Len(changes) : changes[i].address = a
  BY DEF Orderly, Addresses
<1>3. ViewAfter(v, changes, a) = v[a]
  BY <1>2 DEF ViewAfter
<1>4. CASE type = "none"
  <2>1. AfterChange(v[a], type) = v[a]
    BY <1>4 DEF AfterChange
  <2> QED  BY <1>1, <1>3, <1>4, <2>1 DEF after
<1>5. CASE type # "none"
  <2>1. /\ Len(after) = Len(changes) + 1
        /\ \A i \in 1..Len(changes) : after[i] = changes[i]
        /\ after[Len(changes) + 1].address = a
        /\ after[Len(changes) + 1].type = type
    BY <1>1, <1>5
  <2>2. ViewAfter(v, after, a) = AfterChange(v[a], type)
    <3>1. Len(changes) + 1 \in 1..Len(after)
      BY <2>1
    <3> QED  BY <1>1, <2>1, <3>1, ViewOfOne
  <2>3. ASSUME NEW b \in Addresses \ {a}
        PROVE  ViewAfter(v, after, b) = ViewAfter(v, changes, b)
    <3>1. CASE \E i \in 1..Len(changes) : changes[i].address = b
      <4>1. PICK i \in 1..Len(changes) : changes[i].address = b
        BY <3>1
      <4>2. i \in 1..Len(after) /\ after[i] = changes[i]
        BY <2>1
      <4>3. ViewAfter(v, changes, b) = AfterChange(v[b], changes[i].type)
        BY <4>1, ViewOfOne
      <4>4. ViewAfter(v, after, b) = AfterChange(v[b], after[i].type)
        BY <1>1, <4>1, <4>2, ViewOfOne
      <4> QED  BY <4>2, <4>3, <4>4
    <3>2. CASE ~ \E i \in 1..Len(changes) : changes[i].address = b
      <4>1. ~ \E i \in 1..Len(after) : after[i].address = b
        BY <2>1, <2>3, <3>2
      <4> QED  BY <3>2, <4>1 DEF ViewAfter
    <3> QED  BY <3>1, <3>2
  <2> QED  BY <1>3, <2>2, <2>3 DEF after
<1> QED  BY <1>4, <1>5

-----------------------------------------------------------------------------
(* The invariant.                                                          *)

\* The call in progress asks about an address and a feature there are.
OpOK ==
    /\ op.kind = "detect" => op.address \in Addresses /\ op.probe >= 1
    /\ op.kind = "scan" => op.probe = 0

BatchOK ==
    /\ Orderly(batch, op.address)
    /\ op.kind # "scan" => batch = << >>

RecordsOK == \A a \in Addresses : WellFormed(records[a])

\* What the reader knows after the batch of the scan in progress.
Known(a) == ViewAfter(view, batch, a)

ToldOK == \A a \in Addresses : ToldOf(records[a], Known(a))

EpisodeOK ==
    \A a \in Addresses :
        /\ episode[a].suspicions = IF episode[a].collided THEN 1 ELSE 0
        /\ duplicateReported[a] = episode[a].collided

AbsenceOK ==
    \A a \in Addresses : Counted(records[a], episode[a].collided, absences[a])

\* The part of SteadyLightIsSafe that concerns presence, and what keeps it.
SteadyPresent(a) ==
    /\ gear[a] = 1
    /\ records[a] \in {NoRecord, Seen}
    /\ view[a] # "missing"
    /\ Known(a) # "missing"

\* The part that concerns features: their probes were never counted as silent.
SteadyCapable(a) ==
    \A i \in DOMAIN CoreFeatures :
        CoreFeatures[i] \in GearFeatures =>
            /\ capabilities[a][i].state # "Unsupported"
            /\ capabilities[a][i].noResponses = 0

SteadyOK == \A a \in steady : SteadyPresent(a) /\ SteadyCapable(a)

IInv ==
    /\ TypeOK
    /\ OpOK
    /\ BatchOK
    /\ RecordsOK
    /\ ToldOK
    /\ EpisodeOK
    /\ AbsenceOK
    /\ SteadyOK

\* TypeOK in the words of this module.
LEMMA Typed ==
    TypeOK <=>
        /\ records \in [Addresses -> Record]
        /\ capabilities \in [Addresses -> [DOMAIN CoreFeatures -> CapabilityEntry]]
        /\ duplicateReported \in [Addresses -> BOOLEAN]
        /\ op \in Op
        /\ batch \in Seq(Changes) /\ Len(batch) <= BatchCapacity
        /\ view \in [Addresses -> View]
        /\ gear \in [Addresses -> 0..2]
        /\ power \in BOOLEAN
        /\ disruptions \in 0..MaxDisruptions
        /\ steady \subseteq Addresses
        /\ episode \in [Addresses -> [collided : BOOLEAN, suspicions : Nat]]
        /\ absences \in [Addresses -> Absence]
        /\ silences \in [Addresses -> [DOMAIN CoreFeatures -> Nat]]
BY DEF TypeOK, Record, CapabilityEntry, Op, View, Absence

\* The features of the core are numbered from one.
LEMMA FeatureNumbers ==
    /\ Len(CoreFeatures) \in Nat
    /\ DOMAIN CoreFeatures = 1..Len(CoreFeatures)
BY DeviceManagerAssumption

\* A probe asks about a feature there is, and the next one follows it.
LEMMA ProbeInRange ==
    ASSUME op \in Op, OpOK, Probing
    PROVE  /\ op.address \in Addresses /\ op.probe \in DOMAIN CoreFeatures
           /\ op' = [op EXCEPT !.probe = @ + 1] =>
                /\ op' \in Op /\ OpOK'
                /\ op'.kind = "detect" /\ op'.address = op.address
<1>1. PICK n \in Nat : n = op.probe
  BY FeatureNumbers DEF Op
<1>2. /\ op.kind = "detect" /\ op.address \in Addresses
      /\ n \in DOMAIN CoreFeatures /\ n + 1 \in 0..(Len(CoreFeatures) + 1)
      /\ n + 1 >= 1
  BY <1>1, FeatureNumbers DEF Probing, OpOK
<1>3. ASSUME op' = [op EXCEPT !.probe = @ + 1]
      PROVE  /\ op' \in Op /\ OpOK'
             /\ op'.kind = "detect" /\ op'.address = op.address
  <2>1. op' = [op EXCEPT !.probe = n + 1]
    BY <1>1, <1>3
  <2>2. /\ op'.kind = "detect" /\ op'.address = op.address
        /\ op'.probe = n + 1 /\ op' \in Op
    BY <1>2, <2>1 DEF Op
  <2> QED  BY <1>2, <2>2 DEF OpOK
<1> QED  BY <1>1, <1>2, <1>3

\* The invariant holds before the first call.
LEMMA InitInvariant == Init => IInv
<1> SUFFICES ASSUME Init PROVE IInv
  OBVIOUS
<1>1. TypeOK
  BY FeatureNumbers, DeviceManagerAssumption
     DEF Init, TypeOK, Addresses, NoRecord, NoEntry, NoEpisode, NoAbsence, Idle,
         DeviceLifecycle, CapabilityState, Changes
<1>2. OpOK
  BY DEF Init, OpOK, Idle
<1>3. BatchOK
  BY DEF Init, BatchOK, Orderly, Idle
<1>4. RecordsOK
  BY DEF Init, RecordsOK, WellFormed, NoRecord
<1>5. \A a \in Addresses : Known(a) = "unseen"
  BY DEF Init, Known, ViewAfter
<1>6. ToldOK
  BY <1>5 DEF Init, ToldOK, ToldOf, NoRecord
<1>7. EpisodeOK /\ AbsenceOK
  BY DEF Init, EpisodeOK, AbsenceOK, Counted, NoEpisode
<1>8. SteadyOK
  BY <1>5 DEF Init, SteadyOK, SteadyPresent, SteadyCapable, NoEntry
<1> QED  BY <1>1, <1>2, <1>3, <1>4, <1>6, <1>7, <1>8 DEF IInv

-----------------------------------------------------------------------------
(* The bus and the ends of the calls.                                      *)

\* A step of the bus takes nothing from the manager.
LEMMA BusStep == IInv /\ Bus => IInv'
<1> SUFFICES ASSUME IInv, Bus PROVE IInv'
  OBVIOUS
<1> USE DEF IInv
<1>1. /\ UNCHANGED <<managerVars, historyVars>>
      /\ gear' \in [Addresses -> 0..2] /\ power' \in BOOLEAN
      /\ disruptions' \in 0..MaxDisruptions
      /\ steady' \subseteq steady
      /\ \A a \in steady' : gear'[a] = gear[a]
  <2>1. CASE \E a \in Addresses, n \in 0..2 : ChangeGear(a, n)
    <3>1. PICK a \in Addresses, n \in 0..2 : ChangeGear(a, n)
      BY <2>1
    <3>2. gear' \in [Addresses -> 0..2] /\ \A b \in steady' : gear'[b] = gear[b]
      BY <3>1 DEF ChangeGear, TypeOK
    <3>3. disruptions' \in 0..MaxDisruptions
      BY <3>1, DeviceManagerAssumption DEF ChangeGear, TypeOK
    <3> QED  BY <3>1, <3>2, <3>3 DEF ChangeGear, TypeOK
  <2>2. CASE SwitchPower
    <3>1. disruptions' \in 0..MaxDisruptions
      BY <2>2, DeviceManagerAssumption DEF SwitchPower, TypeOK
    <3> QED  BY <2>2, <3>1 DEF SwitchPower, TypeOK
  <2> QED  BY <2>1, <2>2 DEF Bus
<1>0. /\ records' = records /\ capabilities' = capabilities
      /\ duplicateReported' = duplicateReported /\ op' = op
      /\ batch' = batch /\ view' = view
      /\ episode' = episode /\ absences' = absences
      /\ silences' = silences
  BY <1>1 DEF managerVars, historyVars
<1> USE <1>0
<1>2. TypeOK'
  BY <1>1 DEF TypeOK
<1>3. OpOK' /\ BatchOK'
  BY DEF OpOK, BatchOK
<1>9. RecordsOK' /\ EpisodeOK' /\ AbsenceOK'
  BY DEF RecordsOK, EpisodeOK, AbsenceOK
<1>4. \A a : Known(a)' = Known(a)
  BY DEF Known
<1>5. ToldOK'
  BY <1>4 DEF ToldOK
<1>6. SteadyOK'
  BY <1>1, <1>4 DEF SteadyOK, SteadyPresent, SteadyCapable
<1> QED  BY <1>2, <1>3, <1>5, <1>6, <1>9

\* A call that begins, and a capability probe that ends or is skipped, leaves
\* the records and the batch as they are.
LEMMA CallStep ==
    IInv /\ (BeginScan \/ (\E a \in Addresses : BeginDetect(a)) \/ SkipProbe
             \/ EndDetect) => IInv'
<1> SUFFICES ASSUME IInv,
                    BeginScan \/ (\E a \in Addresses : BeginDetect(a))
                    \/ SkipProbe \/ EndDetect
             PROVE  IInv'
  OBVIOUS
<1> USE DEF IInv
<1>1. /\ UNCHANGED <<records, capabilities, duplicateReported, view, busVars,
                     historyVars>>
      /\ op.kind # "scan" /\ batch' = << >>
  BY DEF BeginScan, BeginDetect, SkipProbe, EndDetect, Probing, Idle, BatchOK
<1>2. op' \in Op /\ OpOK'
  <2>1. CASE BeginScan
    BY <2>1, FeatureNumbers, DeviceManagerAssumption DEF BeginScan, Op, OpOK
  <2>2. CASE \E a \in Addresses : BeginDetect(a)
    BY <2>2, FeatureNumbers, DeviceManagerAssumption
       DEF BeginDetect, Op, OpOK, Addresses
  <2>3. CASE SkipProbe
    BY <2>3, ProbeInRange, Typed DEF SkipProbe
  <2>4. CASE EndDetect
    BY <2>4, FeatureNumbers, DeviceManagerAssumption DEF EndDetect, Idle, Op, OpOK
  <2> QED  BY <2>1, <2>2, <2>3, <2>4
<1>3. batch = << >>
  BY <1>1 DEF BatchOK
<1>4. TypeOK'
  <2>1. /\ gear' = gear /\ power' = power /\ disruptions' = disruptions
        /\ steady' = steady /\ episode' = episode /\ absences' = absences
        /\ silences' = silences
    BY <1>1 DEF busVars, historyVars
  <2>2. batch' \in Seq(Changes) /\ Len(batch') <= BatchCapacity
    BY <1>1, DeviceManagerAssumption
  <2> QED  BY <1>1, <1>2, <2>1, <2>2 DEF TypeOK, Op
<1>5. BatchOK'
  BY <1>1, <1>2, DeviceManagerAssumption DEF BatchOK, Orderly, Op
<1>6. RecordsOK' /\ EpisodeOK' /\ AbsenceOK'
  BY <1>1 DEF RecordsOK, EpisodeOK, AbsenceOK, historyVars
<1>7. \A a : Known(a)' = Known(a)
  BY <1>1, <1>3 DEF Known
<1>8. ToldOK'
  BY <1>1, <1>7 DEF ToldOK
<1>9. SteadyOK'
  BY <1>1, <1>7 DEF SteadyOK, SteadyPresent, SteadyCapable, busVars
<1> QED  BY <1>2, <1>4, <1>5, <1>6, <1>8, <1>9

\* A scan that returns hands its batch to the reader.
LEMMA EndScanStep == IInv /\ EndScan => IInv'
<1> SUFFICES ASSUME IInv, EndScan PROVE IInv'
  OBVIOUS
<1> USE DEF IInv
<1>1. /\ records' = records /\ capabilities' = capabilities
      /\ duplicateReported' = duplicateReported /\ op' = Idle /\ batch' = << >>
      /\ view' = [a \in Addresses |-> Told(a)]
      /\ gear' = gear /\ power' = power /\ disruptions' = disruptions
      /\ steady' = steady /\ episode' = episode /\ absences' = absences
      /\ silences' = silences
  BY DEF EndScan, busVars, historyVars
<1>2. ASSUME NEW a \in Addresses
      PROVE  /\ view'[a] = Known(a) /\ Known(a)' = Known(a)
             /\ Known(a) \in View
  <2>1. view'[a] = Known(a)
    BY <1>1 DEF Told, Known, ViewAfter
  <2>2. Known(a)' = view'[a]
    BY <1>1 DEF Known, ViewAfter
  <2>3. Known(a) \in View
    BY Typed DEF Known, ViewAfter, AfterChange, View
  <2> QED  BY <2>1, <2>2, <2>3
<1>3. view' \in [Addresses -> View]
  BY <1>1, <1>2
<1>4. TypeOK'
  <2>1. op' \in Op
    BY <1>1, FeatureNumbers, DeviceManagerAssumption DEF Idle, Op
  <2>2. batch' \in Seq(Changes) /\ Len(batch') <= BatchCapacity
    BY <1>1, DeviceManagerAssumption
  <2> QED  BY <1>1, <1>3, <2>1, <2>2 DEF TypeOK, Op, View
<1>5. OpOK' /\ BatchOK'
  BY <1>1 DEF OpOK, BatchOK, Orderly, Idle
<1>6. RecordsOK' /\ EpisodeOK' /\ AbsenceOK'
  BY <1>1 DEF RecordsOK, EpisodeOK, AbsenceOK
<1>7. ToldOK'
  BY <1>1, <1>2 DEF ToldOK
<1>8. SteadyOK'
  BY <1>1, <1>2 DEF SteadyOK, SteadyPresent, SteadyCapable, TypeOK
<1> QED  BY <1>4, <1>5, <1>6, <1>7, <1>8

-----------------------------------------------------------------------------
(* A query.                                                                *)

\* A query leaves the gear alone, and finds a light that stays steady there,
\* or no power (Answer).
LEMMA QueryOfSteady ==
    ASSUME TypeOK, NEW a \in Addresses, NEW known \in BOOLEAN,
           NEW outcome \in Outcomes, Queried(a, known, outcome)
    PROVE  /\ gear' = gear /\ power' = power
           /\ disruptions' \in 0..MaxDisruptions
           /\ steady' \subseteq steady
           /\ a \in steady' /\ gear[a] = 1 /\ known =>
                outcome \in {"Ok", "BusFailure"}
<1>1. CASE outcome = Answer(a, known) /\ UNCHANGED busVars
  <2>1. /\ gear' = gear /\ power' = power /\ disruptions' = disruptions
        /\ steady' = steady
    BY <1>1 DEF busVars
  <2>2. gear[a] = 1 /\ known => Answer(a, known) \in {"Ok", "BusFailure"}
    BY DEF Answer, TypeOK
  <2> QED  BY <1>1, <2>1, <2>2 DEF TypeOK
<1>2. CASE /\ disruptions < MaxDisruptions
           /\ disruptions' = disruptions + 1
           /\ steady' = steady \ {a}
           /\ UNCHANGED <<gear, power>>
  BY <1>2, DeviceManagerAssumption DEF TypeOK
<1> QED  BY <1>1, <1>2 DEF Queried

\* A probe keeps an entry in its type, and one that is answered or meets a bus
\* without power counts no silence (AfterProbe).
LEMMA EntryKept ==
    ASSUME NEW entry \in CapabilityEntry, NEW outcome \in Outcomes
    PROVE  /\ AfterProbe(entry, outcome) \in CapabilityEntry
           /\ /\ outcome \in {"Ok", "BusFailure"}
              /\ entry.state # "Unsupported" /\ entry.noResponses = 0
              => /\ AfterProbe(entry, outcome).state # "Unsupported"
                 /\ AfterProbe(entry, outcome).noResponses = 0
<1>1. CASE outcome = "Ok"
  BY <1>1 DEF AfterProbe, IsValidResponse, IsBusFailure, CapabilityEntry,
              CapabilityState
<1>2. CASE outcome # "Ok" /\ (IsBusFailure(outcome) \/ outcome = "Collision")
  BY <1>2 DEF AfterProbe, IsValidResponse
<1>3. CASE outcome # "Ok" /\ ~ (IsBusFailure(outcome) \/ outcome = "Collision")
  BY <1>3 DEF AfterProbe, IsValidResponse, IsBusFailure, CapabilityEntry,
              CapabilityState
<1> QED  BY <1>1, <1>2, <1>3

LEMMA ProbeStep ==
    ASSUME NEW outcome \in Outcomes, IInv, Probe(outcome)
    PROVE  IInv'
<1> USE DEF IInv
<1>1. op.address \in Addresses /\ op.probe \in DOMAIN CoreFeatures
  BY ProbeInRange, Typed DEF Probe
<1>2. PICK a \in Addresses, p \in DOMAIN CoreFeatures :
         a = op.address /\ p = op.probe
  BY <1>1
<1>3. /\ records' = records /\ duplicateReported' = duplicateReported
      /\ batch' = batch /\ view' = view /\ episode' = episode
      /\ absences' = absences
      /\ op.kind = "detect"
  BY DEF Probe, Probing
<1>4. op' \in Op /\ OpOK' /\ op'.kind = "detect" /\ op'.address = a
  BY <1>2, ProbeInRange, Typed DEF Probe
<1>5. batch = << >>
  BY <1>3 DEF BatchOK
<1>6. /\ Queried(a, CoreFeatures[p] \in GearFeatures, outcome)
      /\ capabilities[a][p].state # "Unsupported"
      /\ capabilities' = [capabilities EXCEPT ![a][p] = AfterProbe(@, outcome)]
      /\ silences' = [silences EXCEPT
                         ![a][p] = CASE IsValidResponse(outcome) -> 0
                                     [] outcome = "NoResponse"   -> @ + 1
                                     [] OTHER                    -> @]
  BY <1>2 DEF Probe, Entry
<1>7. /\ gear' = gear /\ power' = power /\ disruptions' \in 0..MaxDisruptions
      /\ steady' \subseteq steady
      /\ a \in steady' /\ gear[a] = 1 /\ CoreFeatures[p] \in GearFeatures =>
           outcome \in {"Ok", "BusFailure"}
  <2>1. CASE CoreFeatures[p] \in GearFeatures
    <3>1. Queried(a, TRUE, outcome)
      BY <1>6, <2>1 DEF Queried, Answer
    <3> QED  BY <3>1, QueryOfSteady
  <2>2. CASE CoreFeatures[p] \notin GearFeatures
    <3>1. Queried(a, FALSE, outcome)
      BY <1>6, <2>2 DEF Queried, Answer
    <3> QED  BY <2>2, <3>1, QueryOfSteady
  <2> QED  BY <2>1, <2>2
<1>8. capabilities[a][p] \in CapabilityEntry
  BY Typed
<1>9. TypeOK'
  <2>1. capabilities' \in [Addresses -> [DOMAIN CoreFeatures -> CapabilityEntry]]
    BY <1>6, <1>8, EntryKept, Typed
  <2>2. silences' \in [Addresses -> [DOMAIN CoreFeatures -> Nat]]
    <3>1. PICK n \in Nat : n = silences[a][p]
      BY Typed
    <3>2. \E m \in Nat : silences' = [silences EXCEPT ![a][p] = m]
      <4>1. CASE IsValidResponse(outcome)
        BY <1>6, <4>1 DEF IsValidResponse
      <4>2. CASE ~ IsValidResponse(outcome) /\ outcome = "NoResponse"
        <5>1. silences' = [silences EXCEPT ![a][p] = n + 1]
          BY <1>6, <3>1, <4>2
        <5>2. n + 1 \in Nat
          OBVIOUS
        <5> QED  BY <5>1, <5>2
      <4>3. CASE ~ IsValidResponse(outcome) /\ outcome # "NoResponse"
        <5>1. silences' = [silences EXCEPT ![a][p] = n]
          BY <1>6, <3>1, <4>3
        <5> QED  BY <5>1
      <4> QED  BY <4>1, <4>2, <4>3
    <3> QED  BY <3>2, Typed
  <2> QED  BY <1>3, <1>4, <1>7, <2>1, <2>2 DEF TypeOK, CapabilityEntry, Op
<1>10. BatchOK'
  BY <1>3, <1>4, <1>5 DEF BatchOK, Orderly, Addresses
<1>11. RecordsOK' /\ EpisodeOK' /\ AbsenceOK'
  BY <1>3 DEF RecordsOK, EpisodeOK, AbsenceOK
<1>12. \A b : Known(b)' = Known(b)
  BY <1>3 DEF Known
<1>13. ToldOK'
  BY <1>3, <1>12 DEF ToldOK
<1>14. ASSUME NEW b \in steady'
       PROVE  SteadyPresent(b)' /\ SteadyCapable(b)'
  <2>1. b \in steady /\ SteadyPresent(b) /\ SteadyCapable(b) /\ b \in Addresses
    BY <1>7, <1>14, Typed DEF SteadyOK
  <2>2. SteadyPresent(b)'
    BY <1>3, <1>7, <1>12, <2>1 DEF SteadyPresent
  <2>3. SteadyCapable(b)'
    <3> SUFFICES ASSUME NEW i \in DOMAIN CoreFeatures,
                        CoreFeatures[i] \in GearFeatures
                 PROVE  /\ capabilities'[b][i].state # "Unsupported"
                        /\ capabilities'[b][i].noResponses = 0
      BY DEF SteadyCapable
    <3>1. /\ capabilities[b][i].state # "Unsupported"
          /\ capabilities[b][i].noResponses = 0
      BY <2>1 DEF SteadyCapable
    <3>2. CASE b = a /\ i = p
      <4>1. outcome \in {"Ok", "BusFailure"}
        BY <1>7, <2>1, <3>2 DEF SteadyPresent
      <4>2. capabilities'[b][i] = AfterProbe(capabilities[a][p], outcome)
        BY <1>6, <3>2, Typed
      <4> QED  BY <1>8, <3>1, <3>2, <4>1, <4>2, EntryKept
    <3>3. CASE ~ (b = a /\ i = p)
      <4>1. capabilities'[b][i] = capabilities[b][i]
        BY <1>6, <2>1, <3>3, Typed
      <4> QED  BY <3>1, <4>1
    <3> QED  BY <3>2, <3>3
  <2> QED  BY <2>2, <2>3
<1>15. SteadyOK'
  BY <1>14 DEF SteadyOK
<1> QED  BY <1>4, <1>9, <1>10, <1>11, <1>13, <1>15

\* Within a scan, one round of the loop keeps the invariant.
LEMMA ScanStep ==
    ASSUME NEW outcome \in Outcomes, IInv, ScanAddress(outcome)
    PROVE  IInv'
<1> USE DEF IInv
<1>1. PICK a \in Addresses : a = op.address
  BY Typed, DeviceManagerAssumption DEF ScanAddress, Addresses, Op
<1>2. PICK type \in ChangeType \cup {"none"} :
         type = ChangeOf(records[a], duplicateReported[a], outcome)
  BY ChangeTyped
<1>3. /\ op.kind = "scan"
      /\ Queried(a, TRUE, outcome)
      /\ records' = [records EXCEPT ![a] = AfterPresence(@, outcome)]
      /\ duplicateReported' =
            [duplicateReported EXCEPT ![a] = AfterReport(@, outcome)]
      /\ batch' = Added(batch, type, a)
      /\ op' = [op EXCEPT !.address = a + 1]
      /\ capabilities' = capabilities /\ view' = view /\ silences' = silences
  BY <1>1, <1>2 DEF ScanAddress
<1>4. episode' = [episode EXCEPT
                    ![a] = IF IsValidResponse(outcome) THEN NoEpisode
                           ELSE [collided |-> @.collided \/ outcome = "Collision",
                                 suspicions |-> @.suspicions +
                                    IF /\ outcome = "Collision"
                                       /\ Len(batch') > Len(batch)
                                    THEN 1 ELSE 0]]
  BY <1>1 DEF ScanAddress
<1>5. /\ gear' = gear /\ power' = power /\ disruptions' \in 0..MaxDisruptions
      /\ steady' \subseteq steady
      /\ a \in steady' /\ gear[a] = 1 => outcome \in {"Ok", "BusFailure"}
  BY <1>3, QueryOfSteady
<1>6. /\ batch \in Seq(Changes) /\ Orderly(batch, a)
      /\ batch' \in Seq(Changes) /\ Orderly(batch', a + 1)
      /\ Len(batch') <= BatchCapacity
      /\ type = "none" => Len(batch') = Len(batch)
      /\ type # "none" => Len(batch') = Len(batch) + 1
  <2>1. batch \in Seq(Changes) /\ Orderly(batch, a)
    BY <1>1, Typed DEF BatchOK
  <2>2. /\ batch' \in Seq(Changes) /\ Orderly(batch', a + 1)
        /\ Len(batch') <= BatchCapacity
        /\ type = "none" => batch' = batch
        /\ type # "none" => batch' = Append(batch, [type |-> type, address |-> a])
    BY <1>3, <2>1, AddKeepsOrder
  <2>3. type # "none" => [type |-> type, address |-> a] \in Changes
    BY DEF Changes
  <2>4. type # "none" => Len(batch') = Len(batch) + 1
    BY <2>1, <2>2, <2>3
  <2> QED  BY <2>1, <2>2, <2>4
<1>7. op' \in Op /\ op'.kind = "scan" /\ op'.address = a + 1 /\ op'.probe = 0
  <2>1. a + 1 \in 0..AddressCount
    BY DeviceManagerAssumption DEF Addresses
  <2> QED  BY <1>3, <2>1, Typed DEF Op, OpOK
<1>8. records[a] \in Record /\ WellFormed(records[a])
  BY Typed DEF RecordsOK
<1>9. /\ records'[a] = AfterPresence(records[a], outcome)
      /\ \A b \in Addresses \ {a} : records'[b] = records[b]
      /\ records' \in [Addresses -> Record]
      /\ WellFormed(records'[a])
  BY <1>3, <1>8, RecordKept, Typed
<1>10. /\ Known(a)' = AfterChange(Known(a), type)
       /\ Known(a) = view[a]
       /\ \A b \in Addresses \ {a} : Known(b)' = Known(b)
  <2>1. \A b : Known(b)' = ViewAfter(view, Added(batch, type, a), b)
    BY <1>3 DEF Known
  <2>2. /\ ViewAfter(view, Added(batch, type, a), a) = AfterChange(view[a], type)
        /\ ViewAfter(view, batch, a) = view[a]
        /\ \A b \in Addresses \ {a} :
             ViewAfter(view, Added(batch, type, a), b) = ViewAfter(view, batch, b)
    <3>1. view \in [Addresses -> View]
      BY Typed
    <3>2. batch \in Seq(Changes) /\ Orderly(batch, a)
      BY <1>6
    <3> HIDE DEF IInv
    <3> QED  BY <3>1, <3>2, AddTells, Zenon
  <2> QED  BY <2>1, <2>2 DEF Known
<1>11. EpisodeOK' /\ episode' \in [Addresses -> [collided : BOOLEAN, suspicions : Nat]]
       /\ duplicateReported' \in [Addresses -> BOOLEAN]
  <2>1. PICK e \in [collided : BOOLEAN, suspicions : Nat] : e = episode[a]
    BY Typed
  <2>2. /\ e.suspicions = IF e.collided THEN 1 ELSE 0
        /\ duplicateReported[a] = e.collided
    BY <2>1 DEF EpisodeOK
  <2>3. \E f \in [collided : BOOLEAN, suspicions : Nat] :
            /\ episode' = [episode EXCEPT ![a] = f]
            /\ f.suspicions = IF f.collided THEN 1 ELSE 0
            /\ f.collided = AfterReport(duplicateReported[a], outcome)
    <3>1. CASE IsValidResponse(outcome)
      <4>1. episode' = [episode EXCEPT ![a] = NoEpisode]
        BY <1>4, <3>1
      <4>2. AfterReport(duplicateReported[a], outcome) = FALSE
        BY <3>1 DEF AfterReport, IsValidResponse
      <4>3. /\ NoEpisode \in [collided : BOOLEAN, suspicions : Nat]
            /\ NoEpisode.suspicions = 0 /\ NoEpisode.collided = FALSE
        BY DEF NoEpisode
      <4> QED  BY <4>1, <4>2, <4>3
    <3>2. CASE ~ IsValidResponse(outcome) /\ outcome = "Collision"
      <4> DEFINE f == [collided |-> TRUE, suspicions |-> 1]
      <4>1. AfterReport(duplicateReported[a], outcome) = TRUE
        BY <3>2 DEF AfterReport
      <4>2. type = IF e.collided THEN "none" ELSE "DuplicateAddressSuspected"
        BY <1>2, <2>2, <3>2 DEF ChangeOf
      <4>3. Len(batch') > Len(batch) <=> ~ e.collided
        BY <1>6, <4>2
      <4>4. e.suspicions + (IF Len(batch') > Len(batch) THEN 1 ELSE 0) = 1
        BY <2>2, <4>3
      <4>5. episode' =
              [episode EXCEPT
                 ![a] = [collided |-> TRUE,
                         suspicions |-> e.suspicions +
                            (IF Len(batch') > Len(batch) THEN 1 ELSE 0)]]
        BY <1>4, <2>1, <3>2
      <4>6. episode' = [episode EXCEPT ![a] = f]
        BY <4>4, <4>5
      <4>7. /\ f \in [collided : BOOLEAN, suspicions : Nat]
            /\ f.suspicions = 1 /\ f.collided = TRUE
        OBVIOUS
      <4> HIDE DEF f
      <4> QED  BY <4>1, <4>6, <4>7
    <3>3. CASE ~ IsValidResponse(outcome) /\ outcome # "Collision"
      <4>1. AfterReport(duplicateReported[a], outcome) = e.collided
        BY <2>2, <3>3 DEF AfterReport
      <4>2. episode' = [episode EXCEPT
                          ![a] = [collided |-> e.collided, suspicions |-> e.suspicions + 0]]
        BY <1>4, <2>1, <3>3
      <4>3. [collided |-> e.collided, suspicions |-> e.suspicions + 0] = e
        OBVIOUS
      <4> QED  BY <2>2, <4>1, <4>2, <4>3
    <3> QED  BY <3>1, <3>2, <3>3
  <2>4. PICK f \in [collided : BOOLEAN, suspicions : Nat] :
            /\ episode' = [episode EXCEPT ![a] = f]
            /\ f.suspicions = IF f.collided THEN 1 ELSE 0
            /\ f.collided = AfterReport(duplicateReported[a], outcome)
    BY <2>3
  <2>5. /\ duplicateReported' = [duplicateReported EXCEPT ![a] = f.collided]
        /\ f.collided \in BOOLEAN
    BY <1>3, <2>4
  <2> QED  BY <2>4, <2>5, Typed DEF EpisodeOK
<1>18. AbsenceOK' /\ absences' \in [Addresses -> Absence]
  <2>1. PICK collided \in BOOLEAN : collided = episode[a].collided
    BY Typed
  <2>2. PICK absence \in Absence : absence = absences[a]
    BY Typed
  <2>3. Counted(records[a], collided, absence)
    BY <2>1, <2>2 DEF AbsenceOK
  <2>4. /\ AbsenceAfter(records[a], absence, outcome) \in Absence
        /\ Counted(AfterPresence(records[a], outcome),
                   CollidedAfter(collided, outcome),
                   AbsenceAfter(records[a], absence, outcome))
    <3>1. PICK r \in Record : r = records[a]
      BY <1>8
    <3>2. WellFormed(r) /\ Counted(r, collided, absence)
      BY <1>8, <2>3, <3>1
    <3> HIDE DEF IInv
    <3> QED  BY <3>1, <3>2, CountKept
  <2> DEFINE s == AbsenceAfter(records[a], absence, outcome)
  <2>5. absences' = [absences EXCEPT ![a] = s]
    BY <1>1, <1>9, <2>2 DEF ScanAddress, AbsenceAfter
  <2>6. episode'[a].collided = CollidedAfter(collided, outcome)
    BY <1>4, <2>1, Typed DEF NoEpisode, CollidedAfter
  <2>7. \A b \in Addresses \ {a} : episode'[b] = episode[b]
    BY <1>4, Typed
  <2> HIDE DEF s
  <2>8. absences'[a] = s /\ \A b \in Addresses \ {a} : absences'[b] = absences[b]
    BY <2>5, Typed
  <2>9. Counted(records'[a], episode'[a].collided, absences'[a])
    BY <1>9, <2>4, <2>6, <2>8 DEF s
  <2>10. ASSUME NEW b \in Addresses \ {a}
         PROVE  Counted(records'[b], episode'[b].collided, absences'[b])
    BY <1>9, <2>7, <2>8 DEF AbsenceOK
  <2>11. absences' \in [Addresses -> Absence]
    BY <2>4, <2>5, Typed DEF s
  <2> QED  BY <2>9, <2>10, <2>11 DEF AbsenceOK
<1>12. TypeOK'
  BY <1>3, <1>5, <1>6, <1>7, <1>9, <1>11, <1>18 DEF TypeOK, Record, Op, Absence
<1>13. OpOK' /\ BatchOK'
  BY <1>6, <1>7 DEF OpOK, BatchOK
<1>14. RecordsOK'
  BY <1>9 DEF RecordsOK
<1>15. ToldOK'
  <2>1. ToldOf(records[a], Known(a)) /\ Known(a) \in View
    BY <1>10, Typed DEF ToldOK
  <2>2. ToldOf(records'[a], Known(a)')
    BY <1>2, <1>8, <1>9, <1>10, <2>1, ChangeTold, Typed
  <2> QED  BY <1>9, <1>10, <2>2 DEF ToldOK
<1>16. ASSUME NEW b \in steady'
       PROVE  SteadyPresent(b)' /\ SteadyCapable(b)'
  <2>1. b \in steady /\ SteadyPresent(b) /\ SteadyCapable(b) /\ b \in Addresses
    BY <1>5, <1>16, Typed DEF SteadyOK
  <2>2. SteadyCapable(b)'
    BY <1>3, <2>1 DEF SteadyCapable
  <2>3. CASE b # a
    BY <1>3, <1>5, <1>9, <1>10, <2>1, <2>2, <2>3 DEF SteadyPresent
  <2>4. CASE b = a
    <3>1. outcome \in {"Ok", "BusFailure"}
      BY <1>5, <2>1, <2>4 DEF SteadyPresent
    <3>2. records'[a] \in {NoRecord, Seen} /\ type # "DeviceMissing"
      <4>1. CASE outcome = "Ok"
        BY <1>2, <1>9, <4>1 DEF AfterPresence, ChangeOf, IsValidResponse
      <4>2. CASE outcome = "BusFailure"
        <5>1. AfterPresence(records[a], outcome) = records[a]
          BY <4>2 DEF AfterPresence, IsValidResponse, IsBusFailure
        <5>2. records[a].lifecycle # "Missing"
          BY <2>1, <2>4 DEF SteadyPresent, NoRecord, Seen
        <5>3. type = "none"
          BY <1>2, <4>2, <5>1, <5>2 DEF ChangeOf, IsValidResponse
        <5> QED  BY <1>9, <2>1, <2>4, <5>1, <5>3 DEF SteadyPresent
      <4> QED  BY <3>1, <4>1, <4>2
    <3>3. Known(a)' # "missing"
      BY <1>10, <2>1, <2>4, <3>2 DEF AfterChange, SteadyPresent
    <3> QED  BY <1>3, <1>5, <2>1, <2>2, <2>4, <3>2, <3>3 DEF SteadyPresent
  <2> QED  BY <2>3, <2>4
<1>17. SteadyOK'
  BY <1>16 DEF SteadyOK
<1> QED  BY <1>11, <1>12, <1>13, <1>14, <1>15, <1>17, <1>18

-----------------------------------------------------------------------------
(* The theorems.                                                           *)

LEMMA Inductive == Spec => []IInv
<1>1. IInv /\ [Next]_vars => IInv'
  <2> SUFFICES ASSUME IInv, [Next]_vars PROVE IInv'
    OBVIOUS
  <2>1. CASE BeginScan \/ (\E a \in Addresses : BeginDetect(a))
    BY <2>1, CallStep
  <2>2. CASE Proceed
    <3>1. ASSUME NEW outcome \in Outcomes, ScanAddress(outcome) PROVE IInv'
      BY <3>1, ScanStep
    <3>2. ASSUME NEW outcome \in Outcomes, Probe(outcome) PROVE IInv'
      BY <3>2, ProbeStep
    <3> QED  BY <2>2, <3>1, <3>2, EndScanStep, CallStep DEF Proceed
  <2>3. CASE Bus
    BY <2>3, BusStep
  <2>4. CASE UNCHANGED vars
    <3>1. /\ records' = records /\ capabilities' = capabilities
          /\ duplicateReported' = duplicateReported /\ op' = op
          /\ batch' = batch /\ view' = view
          /\ gear' = gear /\ power' = power /\ disruptions' = disruptions
          /\ steady' = steady /\ episode' = episode /\ absences' = absences
          /\ silences' = silences
      BY <2>4 DEF vars, managerVars, busVars, historyVars
    <3>2. TypeOK' /\ OpOK' /\ BatchOK'
      BY <3>1 DEF IInv, TypeOK, OpOK, BatchOK
    <3>3. RecordsOK' /\ EpisodeOK' /\ AbsenceOK' /\ ToldOK' /\ SteadyOK'
      BY <3>1 DEF IInv, RecordsOK, EpisodeOK, ToldOK, SteadyOK, Known, AbsenceOK,
                  SteadyPresent, SteadyCapable
    <3> QED  BY <3>2, <3>3 DEF IInv
  <2> QED  BY <2>1, <2>2, <2>3, <2>4 DEF Next
<1> QED  BY <1>1, InitInvariant, PTL DEF Spec

\* The registry, the call in progress and the batch keep their types, and the
\* batch its capacity (DiscoveryBatch::add), for any number of addresses.
THEOREM ManagerTyped == Spec => []TypeOK
<1>1. IInv => TypeOK
  BY DEF IInv
<1> QED  BY <1>1, Inductive, PTL

\* A known light is declared missing exactly when it has missed three scans
\* since its last valid response, however misses, lost power and collisions
\* alternate (scanPresence).
THEOREM PresenceCorrect == Spec => []MissingIsEarned
<1>1. ASSUME IInv, NEW a \in Addresses, records[a] # NoRecord
      PROVE  /\ records[a].present <=> absences[a].missed < 3
             /\ records[a].lifecycle = "Missing" => absences[a].missed = 3
             /\ records[a].lifecycle = "Present" => absences[a].missed < 3
             /\ ~ episode[a].collided =>
                  (records[a].lifecycle = "Missing" <=> absences[a].inARow = 3)
  <2>1. PICK r \in Record : r = records[a]
    BY <1>1, Typed DEF IInv
  <2>2. PICK absence \in Absence : absence = absences[a]
    BY <1>1, Typed DEF IInv
  <2>3. WellFormed(r) /\ Counted(r, episode[a].collided, absence) /\ r # NoRecord
    BY <1>1, <2>1, <2>2 DEF IInv, RecordsOK, AbsenceOK
  <2>4. absence.missed = r.missed
    BY <2>3 DEF Counted
  <2>5. /\ r.present <=> r.missed < 3
        /\ r.lifecycle = "Missing" => r.missed = 3
        /\ r.lifecycle = "Present" => r.missed < 3
        /\ r.missed = 3 => r.lifecycle \in {"Missing", "DuplicateAddress"}
    BY <2>3 DEF WellFormed, Record, DeviceLifecycle
  <2>6. ~ episode[a].collided => /\ absence.inARow = r.missed
                                 /\ r.lifecycle # "DuplicateAddress"
    BY <2>3, <2>4 DEF Counted
  <2> QED  BY <2>1, <2>2, <2>4, <2>5, <2>6
<1>2. IInv => MissingIsEarned
  BY <1>1 DEF MissingIsEarned
<1> QED  BY <1>2, Inductive, PTL

\* Every light scanPresence finds or loses is in a batch it returned.
THEOREM ChangesReported == Spec => []NothingUnreported
<1>1. ASSUME IInv, op.kind # "scan", NEW a \in Addresses
      PROVE  ToldOf(records[a], view[a])
  <2>1. batch = << >>
    BY <1>1 DEF IInv, BatchOK
  <2>2. Known(a) = view[a]
    BY <2>1 DEF Known, ViewAfter
  <2> QED  BY <1>1, <2>2 DEF IInv, ToldOK
<1>2. IInv => NothingUnreported
  BY <1>1 DEF NothingUnreported, ToldOf
<1> QED  BY <1>2, Inductive, PTL

\* One episode of collisions at an address is reported once (scanPresence).
THEOREM DuplicatesReported == Spec => []DuplicateReportedOnce
<1>1. IInv => DuplicateReportedOnce
  BY DEF IInv, EpisodeOK, DuplicateReportedOnce
<1> QED  BY <1>1, Inductive, PTL

\* An undisturbed light keeps its record, its readers and its features,
\* whatever happens to the power and to other lights (scanPresence,
\* detectCoreCapabilities).
THEOREM SteadySafe == Spec => []SteadyLightIsSafe
<1>1. IInv => SteadyLightIsSafe
  BY DEF IInv, SteadyOK, SteadyPresent, SteadyCapable, SteadyLightIsSafe
<1> QED  BY <1>1, Inductive, PTL
=============================================================================
