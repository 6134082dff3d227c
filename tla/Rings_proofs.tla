------------------------------ MODULE Rings_proofs ------------------------------
(***************************************************************************)
(* Theorems about the parts that keep a ring: the simulated PHY with the   *)
(* caller over it and the frames it sends, and the local storage.  They    *)
(* hold for every capacity, and for any responses, events, keys and        *)
(* values.                                                                 *)
(***************************************************************************)
EXTENDS SimulatedBus, LocalStorage, SequenceTheorems, TLAPS

-----------------------------------------------------------------------------
(* The index arithmetic of the array of a ring is that of a sequence.      *)

\* Up to a full round away, a slot is where it would be without the end of the
\* array, or as far from its beginning.
LEMMA SlotAtWraps ==
    ASSUME NEW h \in Indices, NEW i \in 0 .. Capacity
    PROVE  /\ SlotAt(h, i) = IF h + i < Capacity THEN h + i ELSE h + i - Capacity
           /\ SlotAt(h, i) \in Indices
<1>1. PICK c \in Nat \ {0} : c = Capacity
  BY RingAssumption
<1>2. h \in 0 .. c - 1 /\ i \in 0 .. c
  BY <1>1 DEF Indices
<1>3. CASE h + i < c
  BY <1>1, <1>2, <1>3 DEF SlotAt, Indices
<1>4. CASE ~ (h + i < c)
  <2>1. PICK k : k = h + i - c
    OBVIOUS
  <2>2. k \in 0 .. c - 1 /\ h + i = k + c
    BY <1>1, <1>2, <1>4, <2>1
  <2>3. (k + c) % c = k
    BY <1>1, <2>2
  <2> QED  BY <1>1, <1>4, <2>1, <2>2, <2>3 DEF SlotAt, Indices
<1> QED  BY <1>1, <1>3, <1>4

\* Within one round no slot is met twice.
LEMMA SlotsApart ==
    ASSUME NEW h \in Indices, NEW i \in 0 .. Capacity - 1, NEW j \in 0 .. Capacity - 1,
           i # j
    PROVE  SlotAt(h, i) # SlotAt(h, j)
<1>1. i \in 0 .. Capacity /\ j \in 0 .. Capacity
  BY RingAssumption
<1>2. /\ SlotAt(h, i) = IF h + i < Capacity THEN h + i ELSE h + i - Capacity
      /\ SlotAt(h, j) = IF h + j < Capacity THEN h + j ELSE h + j - Capacity
  BY <1>1, SlotAtWraps
<1> QED  BY <1>2, RingAssumption DEF Indices

\* With the head one further, every slot is one nearer.
LEMMA SlotAtNext ==
    ASSUME NEW h \in Indices, NEW i \in 0 .. Capacity - 1
    PROVE  SlotAt(SlotAt(h, 1), i) = SlotAt(h, i + 1)
<1>1. 1 \in 0 .. Capacity /\ i \in 0 .. Capacity /\ (i + 1) \in 0 .. Capacity
  BY RingAssumption
<1>2. PICK n \in Indices : n = SlotAt(h, 1)
  BY <1>1, SlotAtWraps
<1>3. n = IF h + 1 < Capacity THEN h + 1 ELSE h + 1 - Capacity
  BY <1>1, <1>2, SlotAtWraps
<1>4. SlotAt(n, i) = IF n + i < Capacity THEN n + i ELSE n + i - Capacity
  BY <1>1, SlotAtWraps
<1>5. SlotAt(h, i + 1) = IF h + (i + 1) < Capacity THEN h + (i + 1)
                         ELSE h + (i + 1) - Capacity
  BY <1>1, SlotAtWraps
<1> QED  BY <1>2, <1>3, <1>4, <1>5, RingAssumption DEF Indices

\* The contents are a sequence of what the slots hold.
LEMMA ContentsSeq ==
    ASSUME NEW S, NEW ring \in [Indices -> S], NEW h \in Indices, NEW n \in 0 .. Capacity
    PROVE  /\ Contents(ring, h, n) \in Seq(S)
           /\ Len(Contents(ring, h, n)) = n
           /\ \A i \in 1 .. n : Contents(ring, h, n)[i] = ring[SlotAt(h, i - 1)]
<1>1. n \in Nat /\ \A i \in 1 .. n : (i - 1) \in 0 .. Capacity
  BY RingAssumption
<1>2. \A i \in 1 .. n : SlotAt(h, i - 1) \in Indices
  BY <1>1, SlotAtWraps
<1>3. Contents(ring, h, n) \in [1 .. n -> S]
  BY <1>2 DEF Contents
<1> QED  BY <1>1, <1>3 DEF Contents

\* What is written behind the newest entry comes last.
LEMMA ContentsAppended ==
    ASSUME NEW S, NEW ring \in [Indices -> S], NEW h \in Indices,
           NEW n \in 0 .. Capacity - 1, NEW e \in S
    PROVE  Contents([ring EXCEPT ![SlotAt(h, n)] = e], h, n + 1) =
             Append(Contents(ring, h, n), e)
<1> DEFINE ring2 == [ring EXCEPT ![SlotAt(h, n)] = e]
<1>1. n \in 0 .. Capacity /\ (n + 1) \in 0 .. Capacity /\ n \in Nat
  BY RingAssumption
<1>2. \A i \in 0 .. n : i \in 0 .. Capacity /\ SlotAt(h, i) \in Indices
  BY <1>1, SlotAtWraps, RingAssumption
<1>3. ring2 \in [Indices -> S] /\ ring2[SlotAt(h, n)] = e
  BY <1>1, <1>2
<1>4. \A i \in 0 .. n - 1 : ring2[SlotAt(h, i)] = ring[SlotAt(h, i)]
  <2> TAKE i \in 0 .. n - 1
  <2>1. i \in 0 .. Capacity - 1 /\ i # n
    BY <1>1, RingAssumption
  <2>2. SlotAt(h, i) # SlotAt(h, n)
    BY <2>1, SlotsApart
  <2>3. SlotAt(h, i) \in Indices
    BY <1>1, <1>2
  <2> QED  BY <2>2, <2>3
<1> HIDE DEF ring2
<1>5. /\ Contents(ring2, h, n + 1) \in Seq(S)
      /\ Len(Contents(ring2, h, n + 1)) = n + 1
      /\ \A i \in 1 .. n + 1 : Contents(ring2, h, n + 1)[i] = ring2[SlotAt(h, i - 1)]
  BY <1>1, <1>3, ContentsSeq
<1>6. /\ Contents(ring, h, n) \in Seq(S)
      /\ Len(Contents(ring, h, n)) = n
      /\ \A i \in 1 .. n : Contents(ring, h, n)[i] = ring[SlotAt(h, i - 1)]
  BY <1>1, ContentsSeq
<1>7. PICK s : s = Append(Contents(ring, h, n), e)
  OBVIOUS
<1>8. /\ s \in Seq(S) /\ Len(s) = n + 1
      /\ \A i \in 1 .. n : s[i] = Contents(ring, h, n)[i]
      /\ s[n + 1] = e
  BY <1>6, <1>7, AppendProperties
<1>9. \A i \in 1 .. n + 1 : Contents(ring2, h, n + 1)[i] = s[i]
  <2> TAKE i \in 1 .. n + 1
  <2>1. CASE i = n + 1
    BY <2>1, <1>1, <1>3, <1>5, <1>8
  <2>2. CASE i # n + 1
    <3>1. i \in 1 .. n /\ (i - 1) \in 0 .. n - 1
      BY <2>2, <1>1
    <3> QED  BY <3>1, <1>4, <1>5, <1>6, <1>8
  <2> QED  BY <2>1, <2>2
<1>10. Contents(ring2, h, n + 1) = s
  BY <1>5, <1>8, <1>9, SeqEqual
<1> QED  BY <1>7, <1>10 DEF ring2

\* The entry at the head is the first, and with the head one further the others
\* are what is left.
LEMMA ContentsAdvanced ==
    ASSUME NEW S, NEW ring \in [Indices -> S], NEW h \in Indices,
           NEW n \in 1 .. Capacity
    PROVE  /\ Contents(ring, h, n) # << >>
           /\ Head(Contents(ring, h, n)) = ring[h]
           /\ Contents(ring, SlotAt(h, 1), n - 1) = Tail(Contents(ring, h, n))
<1>1. /\ n \in 0 .. Capacity /\ (n - 1) \in 0 .. Capacity /\ 1 \in 0 .. Capacity
      /\ 0 \in 0 .. Capacity /\ n \in Nat
  BY RingAssumption
<1>2. PICK k \in Indices : k = SlotAt(h, 1)
  BY <1>1, SlotAtWraps
<1>3. \A i \in 0 .. n - 1 : SlotAt(h, i) \in Indices /\ SlotAt(k, i) = SlotAt(h, i + 1)
  <2> TAKE i \in 0 .. n - 1
  <2>1. i \in 0 .. Capacity /\ i \in 0 .. Capacity - 1
    BY <1>1, RingAssumption
  <2> QED  BY <2>1, <1>2, SlotAtNext, SlotAtWraps
<1>4. PICK s : s = Contents(ring, h, n)
  OBVIOUS
<1>5. /\ s \in Seq(S) /\ Len(s) = n
      /\ \A i \in 1 .. n : s[i] = ring[SlotAt(h, i - 1)]
  BY <1>1, <1>4, ContentsSeq
<1>6. PICK t : t = Contents(ring, k, n - 1)
  OBVIOUS
<1>7. /\ t \in Seq(S) /\ Len(t) = n - 1
      /\ \A i \in 1 .. n - 1 : t[i] = ring[SlotAt(k, i - 1)]
  <2>1. PICK m \in 0 .. Capacity : m = n - 1
    BY <1>1
  <2>2. /\ Contents(ring, k, m) \in Seq(S)
        /\ Len(Contents(ring, k, m)) = m
        /\ \A i \in 1 .. m : Contents(ring, k, m)[i] = ring[SlotAt(k, i - 1)]
    BY ContentsSeq
  <2> QED  BY <1>6, <2>1, <2>2
<1>8. s # << >>
  BY <1>1, <1>5, EmptySeq
<1>9. /\ Tail(s) \in Seq(S) /\ Len(Tail(s)) = n - 1
      /\ \A i \in 1 .. n - 1 : Tail(s)[i] = s[i + 1]
  BY <1>5, <1>8, HeadTailProperties
<1>10. \A i \in 1 .. n - 1 : t[i] = Tail(s)[i]
  <2> TAKE i \in 1 .. n - 1
  <2>1. PICK j \in 0 .. n - 1 : j = i - 1
    BY <1>1
  <2>2. (i + 1) \in 1 .. n /\ (i + 1) - 1 = j + 1
    BY <1>1, <2>1
  <2>3. t[i] = ring[SlotAt(h, j + 1)]
    BY <1>3, <1>7, <2>1
  <2>4. s[i + 1] = ring[SlotAt(h, j + 1)]
    BY <1>5, <2>2
  <2> QED  BY <2>3, <2>4, <1>9
<1>11. t = Tail(s)
  BY <1>7, <1>9, <1>10, SeqEqual
<1>12. Head(s) = ring[h]
  <2>1. SlotAt(h, 0) = h
    BY <1>1, SlotAtWraps, RingAssumption DEF Indices
  <2>2. 1 \in 1 .. n /\ 1 - 1 = 0
    BY <1>1
  <2> QED  BY <1>5, <1>8, <2>1, <2>2
<1> QED  BY <1>2, <1>4, <1>6, <1>8, <1>11, <1>12

\* What is written into a full ring takes the place of the oldest.
LEMMA ContentsRolled ==
    ASSUME NEW S, NEW ring \in [Indices -> S], NEW h \in Indices, NEW e \in S
    PROVE  Contents([ring EXCEPT ![SlotAt(h, Capacity)] = e], SlotAt(h, 1), Capacity) =
             Append(Tail(Contents(ring, h, Capacity)), e)
<1>1. PICK n \in 0 .. Capacity - 1 : n = Capacity - 1
  BY RingAssumption
<1>2. n + 1 = Capacity /\ 1 \in 0 .. Capacity /\ Capacity \in 1 .. Capacity
  BY <1>1, RingAssumption
<1>3. PICK k \in Indices : k = SlotAt(h, 1)
  BY <1>2, SlotAtWraps
<1>4. SlotAt(k, n) = SlotAt(h, Capacity)
  BY <1>2, <1>3, SlotAtNext
<1>5. Contents([ring EXCEPT ![SlotAt(k, n)] = e], k, n + 1) =
        Append(Contents(ring, k, n), e)
  BY ContentsAppended
<1>6. Contents(ring, k, n) = Tail(Contents(ring, h, Capacity))
  BY <1>1, <1>2, <1>3, ContentsAdvanced
<1> QED  BY <1>2, <1>3, <1>4, <1>5, <1>6

\* The function f with e at x.
Replaced(f, x, e) == [f EXCEPT ![x] = e]

\* What is written over the newest entry changes the last and no other.
LEMMA ContentsLastChanged ==
    ASSUME NEW S, NEW ring \in [Indices -> S], NEW h \in Indices,
           NEW n \in 1 .. Capacity, NEW e \in S
    PROVE  Contents(Replaced(ring, SlotAt(h, n - 1), e), h, n) =
             Replaced(Contents(ring, h, n), n, e)
<1>1. n \in 0 .. Capacity /\ (n - 1) \in 0 .. Capacity - 1 /\ n \in Nat
  BY RingAssumption
<1>2. \A i \in 1 .. n : /\ SlotAt(h, i - 1) \in Indices
                        /\ (SlotAt(h, i - 1) = SlotAt(h, n - 1)) => i = n
  <2> TAKE i \in 1 .. n
  <2>1. (i - 1) \in 0 .. Capacity /\ (i - 1) \in 0 .. Capacity - 1
    BY <1>1, RingAssumption
  <2>2. i # n => i - 1 # n - 1
    BY <1>1
  <2> QED  BY <2>1, <2>2, <1>1, SlotAtWraps, SlotsApart
<1>3. \A i \in 1 .. n : [ring EXCEPT ![SlotAt(h, n - 1)] = e][SlotAt(h, i - 1)] =
                          IF i = n THEN e ELSE ring[SlotAt(h, i - 1)]
  BY <1>2
<1> QED  BY <1>3 DEF Contents, Replaced

-----------------------------------------------------------------------------
(* The forward frames.                                                     *)

\* The kinds of call, with the ranges of their targets.
LEMMA CallsBounded ==
    ASSUME NEW call \in Calls
    PROVE  /\ call.data \in 0 .. 255
           /\ \/ /\ call.kind \in {"shortCommand", "shortArc"}
                 /\ call.target \in 0 .. 63
              \/ /\ call.kind \in {"groupCommand", "groupArc"}
                 /\ call.target \in 0 .. 15
              \/ /\ call.kind \in {"broadcastCommand", "broadcastArc"}
                 /\ call.target = 0
              \/ /\ call.kind = "special"
                 /\ call.target \in DaliSpecialCommand
<1>1. \A f \in DOMAIN OpcodeFamilies : OpcodeFamilies[f] \in {16, 64, 80, 96, 112, 176}
  BY DEF OpcodeFamilies
<1>2. DaliCommand \subseteq 0 .. 255
  BY <1>1 DEF DaliCommand, OpcodeOf
<1> QED  BY <1>2 DEF Calls, Call, ShortAddresses, GroupAddresses, Byte

\* The frame f is made of the bytes a and d.
HasBytes(f, a, d) == f < 65536 /\ f \div 256 = a /\ f % 256 = d

\* Gear reads this call from the frame f.
Reads(f, kind, target, d) == Understood(f) = [kind |-> kind, target |-> target, data |-> d]

\* The two bytes of a frame are told apart again.
LEMMA BytesOfFrame ==
    ASSUME NEW a \in 0 .. 255, NEW d \in 0 .. 255
    PROVE  HasBytes(256 * a + d, a, d)
<1>1. PICK f \in Int : f = 256 * a + d
  OBVIOUS
<1>3. f < 65536
  BY <1>1
<1>4. f \div 256 = a
  BY <1>1
<1>5. f % 256 = d
  BY <1>1
<1>7. HasBytes(f, a, d)
  BY <1>3, <1>4, <1>5 DEF HasBytes
<1> QED  BY <1>1, <1>7

\* The first byte says how a frame is read.
LEMMA UnderstoodByBytes ==
    ASSUME NEW f, NEW a \in 0 .. 255, NEW d, HasBytes(f, a, d)
    PROVE  /\ a < 128 /\ a % 2 = 1 => Reads(f, "shortCommand", a \div 2, d)
           /\ a < 128 /\ a % 2 # 1 => Reads(f, "shortArc", a \div 2, d)
           /\ ~ (a < 128) /\ a < 160 /\ a % 2 = 1 =>
                Reads(f, "groupCommand", (a - 128) \div 2, d)
           /\ ~ (a < 128) /\ a < 160 /\ a % 2 # 1 =>
                Reads(f, "groupArc", (a - 128) \div 2, d)
           /\ ~ (a < 160) /\ a >= 254 /\ a % 2 = 1 => Reads(f, "broadcastCommand", 0, d)
           /\ ~ (a < 160) /\ a >= 254 /\ a % 2 # 1 => Reads(f, "broadcastArc", 0, d)
           /\ ~ (a < 160) /\ ~ (a >= 254) => Reads(f, "special", a, d)
BY DEF HasBytes, Understood, Reads

\* Gear reads from a frame the call it was made of.
LEMMA FrameUnderstood ==
    ASSUME NEW call \in Calls
    PROVE  FrameOf(call) < 65536 /\ Understood(FrameOf(call)) = call
<1>1. PICK k, t, d : /\ k = call.kind /\ t = call.target /\ d = call.data
                     /\ call = [kind |-> k, target |-> t, data |-> d]
  BY DEF Calls, Call
<1>2. /\ d \in 0 .. 255
      /\ \/ k \in {"shortCommand", "shortArc"} /\ t \in 0 .. 63
         \/ k \in {"groupCommand", "groupArc"} /\ t \in 0 .. 15
         \/ k \in {"broadcastCommand", "broadcastArc"} /\ t = 0
         \/ k = "special" /\ t \in DaliSpecialCommand
  BY <1>1, CallsBounded
<1> DEFINE Good == (\E a : HasBytes(FrameOf(call), a, d)) /\ Reads(FrameOf(call), k, t, d)
<1>3. ASSUME k = "shortCommand"  PROVE Good
  <2>1. t \in 0 .. 63 /\ AddressByte(k, t) = 2 * t + 1
    BY <1>2, <1>3 DEF AddressByte
  <2>2. PICK a : a = 2 * t + 1
    OBVIOUS
  <2>3. a \in 0 .. 255 /\ a < 128 /\ a \div 2 = t /\ a % 2 = 1
    BY <2>1, <2>2
  <2>4. FrameOf(call) = 256 * a + d
    BY <1>1, <2>1, <2>2 DEF FrameOf
  <2>5. HasBytes(FrameOf(call), a, d)
    BY <1>2, <2>3, <2>4, BytesOfFrame
  <2>6. Reads(FrameOf(call), k, t, d)
    BY <1>2, <2>1, <2>3, <2>5, <1>3, UnderstoodByBytes
  <2> QED  BY <2>5, <2>6
<1>4. ASSUME k = "shortArc"  PROVE Good
  <2>1. t \in 0 .. 63 /\ AddressByte(k, t) = 2 * t
    BY <1>2, <1>4 DEF AddressByte
  <2>2. PICK a : a = 2 * t
    OBVIOUS
  <2>3. a \in 0 .. 255 /\ a < 128 /\ a \div 2 = t /\ a % 2 # 1
    BY <2>1, <2>2
  <2>4. FrameOf(call) = 256 * a + d
    BY <1>1, <2>1, <2>2 DEF FrameOf
  <2>5. HasBytes(FrameOf(call), a, d)
    BY <1>2, <2>3, <2>4, BytesOfFrame
  <2>6. Reads(FrameOf(call), k, t, d)
    BY <1>2, <2>1, <2>3, <2>5, <1>4, UnderstoodByBytes
  <2> QED  BY <2>5, <2>6
<1>5. ASSUME k = "groupCommand"  PROVE Good
  <2>1. t \in 0 .. 15 /\ AddressByte(k, t) = 129 + 2 * t
    BY <1>2, <1>5 DEF AddressByte
  <2>2. PICK a : a = 129 + 2 * t
    OBVIOUS
  <2>3. a \in 0 .. 255 /\ ~ (a < 128) /\ a < 160 /\ (a - 128) \div 2 = t /\ a % 2 = 1
    BY <2>1, <2>2
  <2>4. FrameOf(call) = 256 * a + d
    BY <1>1, <2>1, <2>2 DEF FrameOf
  <2>5. HasBytes(FrameOf(call), a, d)
    BY <1>2, <2>3, <2>4, BytesOfFrame
  <2>6. Reads(FrameOf(call), k, t, d)
    BY <1>2, <2>1, <2>3, <2>5, <1>5, UnderstoodByBytes
  <2> QED  BY <2>5, <2>6
<1>6. ASSUME k = "groupArc"  PROVE Good
  <2>1. t \in 0 .. 15 /\ AddressByte(k, t) = 128 + 2 * t
    BY <1>2, <1>6 DEF AddressByte
  <2>2. PICK a : a = 128 + 2 * t
    OBVIOUS
  <2>3. a \in 0 .. 255 /\ ~ (a < 128) /\ a < 160 /\ (a - 128) \div 2 = t /\ a % 2 # 1
    BY <2>1, <2>2
  <2>4. FrameOf(call) = 256 * a + d
    BY <1>1, <2>1, <2>2 DEF FrameOf
  <2>5. HasBytes(FrameOf(call), a, d)
    BY <1>2, <2>3, <2>4, BytesOfFrame
  <2>6. Reads(FrameOf(call), k, t, d)
    BY <1>2, <2>1, <2>3, <2>5, <1>6, UnderstoodByBytes
  <2> QED  BY <2>5, <2>6
<1>7. ASSUME k = "broadcastCommand"  PROVE Good
  <2>1. t = 0 /\ AddressByte(k, t) = 255
    BY <1>2, <1>7 DEF AddressByte
  <2>2. PICK a : a = 255
    OBVIOUS
  <2>3. a \in 0 .. 255 /\ ~ (a < 160) /\ a >= 254 /\ a % 2 = 1
    BY <2>1, <2>2
  <2>4. FrameOf(call) = 256 * a + d
    BY <1>1, <2>1, <2>2 DEF FrameOf
  <2>5. HasBytes(FrameOf(call), a, d)
    BY <1>2, <2>3, <2>4, BytesOfFrame
  <2>6. Reads(FrameOf(call), "broadcastCommand", 0, d)
    BY <2>3, <2>5, UnderstoodByBytes
  <2>7. k = "broadcastCommand" /\ t = 0
    BY <1>7, <2>1, <2>2
  <2> QED  BY <2>5, <2>6, <2>7
<1>8. ASSUME k = "broadcastArc"  PROVE Good
  <2>1. t = 0 /\ AddressByte(k, t) = 254
    BY <1>2, <1>8 DEF AddressByte
  <2>2. PICK a : a = 254
    OBVIOUS
  <2>3. a \in 0 .. 255 /\ ~ (a < 160) /\ a >= 254 /\ a % 2 # 1
    BY <2>1, <2>2
  <2>4. FrameOf(call) = 256 * a + d
    BY <1>1, <2>1, <2>2 DEF FrameOf
  <2>5. HasBytes(FrameOf(call), a, d)
    BY <1>2, <2>3, <2>4, BytesOfFrame
  <2>6. Reads(FrameOf(call), "broadcastArc", 0, d)
    BY <2>3, <2>5, UnderstoodByBytes
  <2>7. k = "broadcastArc" /\ t = 0
    BY <1>8, <2>1, <2>2
  <2> QED  BY <2>5, <2>6, <2>7
<1>9. ASSUME k = "special"  PROVE Good
  <2>1. t \in DaliSpecialCommand /\ AddressByte(k, t) = t
    BY <1>2, <1>9 DEF AddressByte
  <2>2. PICK a : a = t
    OBVIOUS
  <2>3. a \in 0 .. 255 /\ ~ (a < 160) /\ ~ (a >= 254)
    BY <2>1, <2>2 DEF DaliSpecialCommand
  <2>4. FrameOf(call) = 256 * a + d
    BY <1>1, <2>1, <2>2 DEF FrameOf
  <2>5. HasBytes(FrameOf(call), a, d)
    BY <1>2, <2>3, <2>4, BytesOfFrame
  <2>6. Reads(FrameOf(call), "special", a, d)
    BY <2>3, <2>5, UnderstoodByBytes
  <2>7. k = "special" /\ t = a
    BY <1>9, <2>1, <2>2
  <2> QED  BY <2>5, <2>6, <2>7
<1>10. Good
  BY <1>2, <1>3, <1>4, <1>5, <1>6, <1>7, <1>8, <1>9
<1>11. FrameOf(call) < 65536
  BY <1>10 DEF HasBytes
<1>12. Understood(FrameOf(call)) = [kind |-> k, target |-> t, data |-> d]
  BY <1>10 DEF Reads
<1> QED  BY <1>1, <1>11, <1>12

\* No two calls share a frame, and each is read as what it asks: for every
\* address, level and opcode of dali_frame.h and dali_commands.h.
THEOREM FramesAreUnambiguous == FramesUnambiguous
<1>1. ASSUME NEW call \in Calls
      PROVE  FrameOf(call) < 65536 /\ Understood(FrameOf(call)) = call
  BY FrameUnderstood
<1> QED  BY <1>1 DEF FramesUnambiguous

-----------------------------------------------------------------------------
(* The ring of scripted responses.                                         *)

\* The oldest response of a script that is not empty was scripted.
LEMMA OldestScripted ==
    ASSUME TypeOK, responseCount > 0
    PROVE  Oldest \in Responses
<1>1. responseHead \in Indices /\ responseCount \in 0 .. Capacity
  BY DEF TypeOK
<1>2. 0 \in 0 .. Capacity /\ 1 \in 1 .. responseCount /\ 1 - 1 = 0
  BY <1>1, RingAssumption
<1>3. SlotAt(responseHead, 0) = responseHead
  BY <1>1, <1>2, SlotAtWraps, RingAssumption DEF Indices
<1>4. Script[1] = responses[responseHead]
  BY <1>2, <1>3 DEF Script, Contents
<1> QED  BY <1>2, <1>4 DEF TypeOK, Oldest

\* A response is scripted.
Scripts(r) ==
    /\ responseCount < Capacity
    /\ responses' = [responses EXCEPT ![SlotAt(responseHead, responseCount)] = r]
    /\ responseCount' = responseCount + 1
    /\ UNCHANGED responseHead
    /\ consumed' = NoResponse

\* The oldest is handed out.
HandsOut ==
    /\ responseCount > 0
    /\ responseHead' = SlotAt(responseHead, 1)
    /\ responseCount' = responseCount - 1
    /\ UNCHANGED responses
    /\ consumed' = Oldest

\* The ring stays as it is.
LeavesRing ==
    /\ responses' = responses /\ responseHead' = responseHead
    /\ responseCount' = responseCount
    /\ consumed' \in {NoResponse, consumed}

\* What a receive does to the ring.
LEMMA ReceivedRing ==
    ASSUME NEW t, TypeOK, Received(t)
    PROVE  HandsOut \/ LeavesRing
BY DEF Received, Arrives, HandsOut, HeadAfter, LeavesRing, ringVars

\* Every step does one of the three to the ring.
LEMMA RingSteps ==
    ASSUME TypeOK, [Next]_vars
    PROVE  (\E r \in Responses : Scripts(r)) \/ HandsOut \/ LeavesRing
<1>1. ASSUME NEW r, Submit(r)  PROVE LeavesRing
  BY <1>1 DEF Submit, Refuse, NothingReceived, LeavesRing, ringVars
<1>2. CASE Attempt
  <2>1. CASE Listens
    BY <1>2, <2>1, ReceivedRing DEF Attempt
  <2>2. CASE ~Listens
    BY <1>2, <2>2 DEF Attempt, NothingReceived, LeavesRing, ringVars
  <2> QED  BY <2>1, <2>2
<1>3. CASE PhyInitialise \/ PhyReset
  BY <1>3 DEF PhyInitialise, PhyReset, LeavesRing, ringVars
<1>4. ASSUME NEW r \in Responses, EnqueueResponse(r)  PROVE Scripts(r) \/ LeavesRing
  BY <1>4, RingAssumption DEF EnqueueResponse, RingFull, Scripts, LeavesRing, TypeOK, ringVars
<1>5. ASSUME NEW f, NEW v, SetHealth(f, v)  PROVE LeavesRing
  BY <1>5 DEF SetHealth, LeavesRing, ringVars
<1>6. ASSUME NEW b, NEW c, SetLine(b, c)  PROVE LeavesRing
  BY <1>6 DEF SetLine, LeavesRing, ringVars
<1>7. CASE UNCHANGED vars
  BY <1>7 DEF vars, phyVars, LeavesRing, ringVars
<1>8. CASE Environment
  BY <1>3, <1>4, <1>5, <1>6, <1>8 DEF Environment
<1> QED  BY <1>1, <1>2, <1>7, <1>8 DEF Next

\* The effect on the script, as a sequence.
LEMMA ScriptSteps ==
    ASSUME TypeOK
    PROVE  /\ \A r \in Responses : Scripts(r) => Script' = Append(Script, r)
           /\ HandsOut =>
                 Script # << >> /\ Head(Script) = Oldest /\ Script' = Tail(Script)
           /\ LeavesRing => Script' = Script
           /\ Script \in Seq(Responses) /\ Len(Script) = responseCount
<1> DEFINE S == Responses \cup {EmptySlot}
<1>1. /\ responses \in [Indices -> S] /\ responseHead \in Indices
      /\ responseCount \in 0 .. Capacity
  BY DEF TypeOK
<1>2. Len(Script) = responseCount /\ Script \in Seq(S)
  BY <1>1, ContentsSeq DEF Script
<1>3. Script \in Seq(Responses)
  <2>1. Script \in [1 .. responseCount -> Responses]
    BY DEF TypeOK, Script, Contents
  <2>2. responseCount \in Nat
    BY <1>1, RingAssumption
  <2> QED  BY <2>1, <2>2
<1>4. ASSUME NEW r \in Responses, Scripts(r)
      PROVE  Script' = Append(Script, r)
  <2>1. PICK n \in 0 .. Capacity - 1 : n = responseCount
    BY <1>1, <1>4, RingAssumption DEF Scripts
  <2>2. Contents([responses EXCEPT ![SlotAt(responseHead, n)] = r], responseHead, n + 1) =
          Append(Contents(responses, responseHead, n), r)
    <3>1. r \in S
      OBVIOUS
    <3> HIDE DEF S
    <3> QED  BY <1>1, <3>1, ContentsAppended
  <2>3. /\ responses' = [responses EXCEPT ![SlotAt(responseHead, n)] = r]
        /\ responseHead' = responseHead /\ responseCount' = n + 1
    BY <1>4, <2>1 DEF Scripts
  <2>4. Script' = Contents(responses', responseHead', responseCount')
    BY DEF Script
  <2> QED  BY <2>1, <2>2, <2>3, <2>4 DEF Script
<1>5. ASSUME HandsOut
      PROVE  Script # << >> /\ Head(Script) = Oldest /\ Script' = Tail(Script)
  <2>1. PICK n \in 1 .. Capacity : n = responseCount
    BY <1>1, <1>5, RingAssumption DEF HandsOut
  <2>2. /\ Contents(responses, responseHead, n) # << >>
        /\ Head(Contents(responses, responseHead, n)) = responses[responseHead]
        /\ Contents(responses, SlotAt(responseHead, 1), n - 1) =
             Tail(Contents(responses, responseHead, n))
    BY <1>1, ContentsAdvanced
  <2> QED  BY <1>5, <2>1, <2>2 DEF HandsOut, Script, Oldest
<1>6. LeavesRing => Script' = Script
  BY DEF LeavesRing, Script
<1> QED  BY <1>2, <1>3, <1>4, <1>5, <1>6

-----------------------------------------------------------------------------
(* The types, and the script the ring implements.                          *)

\* The types of the ring are kept.
LEMMA TypeOKInductive ==
    ASSUME TypeOK, [Next]_vars
    PROVE  TypeOK'
<1>0. /\ responses \in [Indices -> Responses \cup {EmptySlot}] /\ responseHead \in Indices
      /\ responseCount \in 0 .. Capacity /\ consumed \in Responses \cup {NoResponse}
  BY DEF TypeOK
<1>1. /\ responses' \in [Indices -> Responses \cup {EmptySlot}]
      /\ responseHead' \in Indices /\ responseCount' \in 0 .. Capacity
      /\ consumed' \in Responses \cup {NoResponse}
  <2>1. CASE \E r \in Responses : Scripts(r)
    <3>1. PICK r \in Responses : Scripts(r)
      BY <2>1
    <3>2. r \in Responses \cup {EmptySlot}
      OBVIOUS
    <3>3. responses' \in [Indices -> Responses \cup {EmptySlot}]
      BY <1>0, <3>1, <3>2 DEF Scripts
    <3>4. responseHead' \in Indices /\ responseCount' \in 0 .. Capacity
      BY <1>0, <3>1, RingAssumption DEF Scripts
    <3> QED  BY <3>1, <3>3, <3>4 DEF Scripts
  <2>2. CASE HandsOut
    <3>1. 1 \in 0 .. Capacity
      BY RingAssumption
    <3>2. SlotAt(responseHead, 1) \in Indices
      BY <1>0, <3>1, SlotAtWraps
    <3> QED  BY <1>0, <2>2, <3>2, OldestScripted, RingAssumption DEF HandsOut
  <2>3. CASE LeavesRing
    BY <1>0, <2>3 DEF LeavesRing
  <2> QED  BY <2>1, <2>2, <2>3, RingSteps
<1>2. Script' \in Seq(Responses)
  <2>1. Script \in Seq(Responses)
    BY ScriptSteps
  <2>2. ASSUME NEW r \in Responses, Scripts(r)  PROVE Script' \in Seq(Responses)
    BY <2>1, <2>2, ScriptSteps, AppendProperties
  <2>3. HandsOut => Script' \in Seq(Responses)
    BY <2>1, ScriptSteps, HeadTailProperties
  <2>4. LeavesRing => Script' \in Seq(Responses)
    BY <2>1, ScriptSteps
  <2> QED  BY <2>2, <2>3, <2>4, RingSteps
<1>3. Len(Script') = responseCount'
  BY <1>1, ContentsSeq DEF Script
<1>4. \A i \in 1 .. responseCount' : Script'[i] \in Responses
  BY <1>2, <1>3, ElementOfSeq
<1> QED  BY <1>1, <1>4 DEF TypeOK

\* The ring never holds more than it has room for, and what waits in it was
\* scripted: enqueueResponse, receive and every call between them keep it so.
THEOREM TypeCorrect == Spec => []TypeOK
<1>1. Init => TypeOK
  BY RingAssumption DEF Init, PhyInit, TypeOK, Indices
<1> QED  BY <1>1, TypeOKInductive, PTL DEF Spec

\* The ring of the simulated PHY is the script of its test: what a receive hands
\* out is the oldest response, once, and no other call takes one or adds one.
THEOREM ImplementsScript == Spec => ImplementsResponseScript
<1>1. Init => Scripted!Init
  <2>1. ASSUME Init  PROVE Script = << >>
    BY <2>1 DEF Init, PhyInit, Script, Contents
  <2> QED  BY <2>1 DEF Init, PhyInit, Scripted!Init
<1>2. ASSUME TypeOK, [Next]_vars  PROVE [Scripted!Next]_Scripted!scriptVars
  <2>1. ASSUME NEW r \in Responses, Scripts(r)  PROVE Scripted!Enqueue(r)
    BY <1>2, <2>1, ScriptSteps DEF Scripts, Scripted!Enqueue
  <2>2. CASE HandsOut
    BY <1>2, <2>2, ScriptSteps DEF HandsOut, Scripted!HandOut, Scripted!Next
  <2>3. CASE LeavesRing
    BY <1>2, <2>3, ScriptSteps DEF LeavesRing, Scripted!Other, Scripted!Next,
                                   Scripted!scriptVars
  <2> QED  BY <1>2, <2>1, <2>2, <2>3, RingSteps DEF Scripted!Next
<1> QED  BY <1>1, <1>2, TypeCorrect, PTL DEF Spec, ImplementsResponseScript, Scripted!Spec

-----------------------------------------------------------------------------
(* What a caller is told.                                                  *)

\* A request that is being executed asks for a frame that can be made, listens if
\* it is a query, and has retries left.
RequestSound ==
    /\ request # Idle =>
         /\ request.call \in Calls
         /\ request.call \in QueryCalls => request.expectsResponse = TRUE
    /\ request.maxRetries \in Nat /\ request.maxRetries <= AbsoluteMaxRetries
    /\ attempt \in Nat /\ attempt <= request.maxRetries

\* A call that reports success has put its frame on the line.
OkIsUnderstood ==
    request = Idle /\ answer.status = "Ok" =>
        /\ Understood(lastForwardFrame) = answer.call
        /\ answer.call \in QueryCalls =>
             answer.response # NoResponse /\ answer.response.result = "Ok"

\* Only a result that is Ok is reported so.
LEMMA OnlyOkEndsOk ==
    ASSUME NEW result, EndStatus(result) = "Ok"
    PROVE  result = "Ok"
BY DEF EndStatus, MapTerminalStatus, IsRetryable

\* An attempt that succeeds has transmitted the frame and, if it listens, taken a
\* response that came in time.
LEMMA SucceedingAttempt ==
    ASSUME TypeOK, Attempt, AttemptResult = "Ok"
    PROVE  /\ lastForwardFrame' = FrameOf(request.call)
           /\ request.expectsResponse = TRUE =>
                consumed' # NoResponse /\ consumed'.result = "Ok"
<1>1. TransmitResult = "Ok"
  BY DEF AttemptResult, Listens
<1>2. lastForwardFrame' = FrameOf(request.call)
  BY <1>1 DEF Attempt, Sent
<1>3. ASSUME request.expectsResponse = TRUE
      PROVE  consumed' # NoResponse /\ consumed'.result = "Ok"
  <2>1. Listens
    BY <1>1, <1>3 DEF Listens
  <2>2. ReceiveResult(request.timeoutMs) = "Ok" /\ Received(request.timeoutMs)
    BY <2>1 DEF Attempt, AttemptResult
  <2>3. Arrives(request.timeoutMs) /\ Oldest.result = "Ok"
    BY <2>2 DEF ReceiveResult
  <2>4. consumed' = Oldest /\ responseCount > 0
    BY <2>2, <2>3 DEF Received, Arrives
  <2> QED  BY <2>3, <2>4, OldestScripted, SimulatedDaliPhyAssumption
<1> QED  BY <1>2, <1>3

\* A step keeps what the requests and the answers are.
LEMMA ClientInductive ==
    ASSUME TypeOK, RequestSound, OkIsUnderstood, [Next]_vars
    PROVE  RequestSound' /\ OkIsUnderstood'
<1>1. ASSUME NEW t \in Timeouts, NEW n \in RetryLimits, NEW e \in BOOLEAN,
             NEW call \in ControlCalls \cup QueryCalls, call \in QueryCalls => e = TRUE,
             Submit(Request(call, e, t, n))
      PROVE  RequestSound' /\ OkIsUnderstood'
  <2> DEFINE r == Request(call, e, t, n)
  <2>0. /\ r.call = call /\ r.expectsResponse = e /\ r.maxRetries = n /\ n \in Nat
    BY SimulatedBusAssumption DEF Request
  <2>1. CASE ~IsSendable(r.call) \/ ~IsExecutable(r)
    <3>1. /\ request' = request /\ attempt' = attempt
          /\ answer'.status \in {"InvalidArgument", "InvalidRequest"}
      BY <1>1, <2>1 DEF Submit, Refuse, Answered
    <3> QED  BY <3>1 DEF RequestSound, OkIsUnderstood
  <2>2. CASE IsSendable(r.call) /\ IsExecutable(r)
    <3>1. request' = r /\ attempt' = 0 /\ answer' = NoAnswer
      BY <1>1, <2>2 DEF Submit
    <3>2. call \in Calls /\ n <= AbsoluteMaxRetries
      BY <2>0, <2>2, SimulatedBusAssumption DEF IsExecutable
    <3>3. RequestSound'
      <4> HIDE DEF r
      <4> QED  BY <1>1, <2>0, <3>1, <3>2 DEF RequestSound
    <3>4. OkIsUnderstood'
      BY <3>1 DEF OkIsUnderstood, NoAnswer, Answered
    <3> QED  BY <3>3, <3>4
  <2> QED  BY <2>1, <2>2
<1>2. CASE Attempt
  <2>1. CASE Retries(AttemptResult)
    <3>1. /\ request' = request /\ request # Idle /\ attempt' = attempt + 1
          /\ attempt < request.maxRetries
      BY <1>2, <2>1 DEF Attempt, Retries
    <3> QED  BY <3>1 DEF RequestSound, OkIsUnderstood
  <2>2. CASE ~Retries(AttemptResult)
    <3>1. /\ request' = Idle /\ attempt' = 0 /\ request # Idle
          /\ answer' = Answered(request.call, EndStatus(AttemptResult),
                                IF AttemptResult = "Ok" THEN consumed' ELSE NoResponse)
      BY <1>2, <2>2 DEF Attempt
    <3>2. RequestSound'
      BY <3>1, TransactionAssumption DEF RequestSound, Idle
    <3>3. ASSUME answer'.status = "Ok"
          PROVE  /\ Understood(lastForwardFrame') = answer'.call
                 /\ answer'.call \in QueryCalls =>
                      answer'.response # NoResponse /\ answer'.response.result = "Ok"
      <4>1. AttemptResult = "Ok"
        BY <3>1, <3>3, OnlyOkEndsOk DEF Answered
      <4>2. answer'.call = request.call /\ answer'.response = consumed'
        BY <3>1, <4>1 DEF Answered
      <4>3. request.call \in Calls
        BY <3>1 DEF RequestSound
      <4>4. Understood(lastForwardFrame') = request.call
        BY <1>2, <4>1, <4>3, SucceedingAttempt, FrameUnderstood
      <4>5. request.call \in QueryCalls => consumed' # NoResponse /\ consumed'.result = "Ok"
        BY <1>2, <3>1, <4>1, SucceedingAttempt DEF RequestSound
      <4> QED  BY <4>2, <4>4, <4>5
    <3> QED  BY <3>2, <3>3 DEF OkIsUnderstood
  <2> QED  BY <2>1, <2>2
<1>3. CASE Environment \/ UNCHANGED vars
  <2>1. /\ request' = request /\ attempt' = attempt /\ answer' = answer
        /\ lastForwardFrame' = lastForwardFrame
    BY <1>3 DEF Environment, PhyInitialise, PhyReset, EnqueueResponse, SetHealth, SetLine,
                clientVars, vars, phyVars
  <2> QED  BY <2>1 DEF RequestSound, OkIsUnderstood
<1>4. ASSUME NEW t \in Timeouts, NEW n \in RetryLimits, NEW call \in ControlCalls,
             Submit(Request(call, FALSE, t, n))
      PROVE  RequestSound' /\ OkIsUnderstood'
  <2>1. call \notin QueryCalls
    BY SimulatedBusAssumption
  <2> QED  BY <1>1, <1>4, <2>1
<1>5. ASSUME NEW t \in Timeouts, NEW n \in RetryLimits, NEW call \in QueryCalls,
             Submit(Request(call, TRUE, t, n))
      PROVE  RequestSound' /\ OkIsUnderstood'
  BY <1>1, <1>5
<1> QED  BY <1>2, <1>3, <1>4, <1>5 DEF Next

\* Success is only reported of a frame that went out, and of a query only with the
\* response of that attempt, whatever the PHY answered to the attempts before.
THEOREM SuccessIsReal == Spec => []OkMeansSent
<1>1. Init => RequestSound /\ OkIsUnderstood
  BY TransactionAssumption
     DEF Init, ClientInit, RequestSound, OkIsUnderstood, Idle, NoAnswer, Answered
<1>2. RequestSound /\ OkIsUnderstood => OkMeansSent
  BY DEF RequestSound, OkIsUnderstood, OkMeansSent
<1> QED  BY <1>1, <1>2, TypeCorrect, ClientInductive, PTL DEF Spec
-----------------------------------------------------------------------------
(* The history: its ring is the log of the latest events.                  *)

\* The ring is an array with a head and a size.
HistoryOK ==
    /\ stored = [i \in Indices |-> stored[i]]
    /\ head \in Indices
    /\ size \in 0 .. Capacity

\* What the slots hold, and e.
Held(e) == {stored[i] : i \in Indices} \cup {e}

\* The history stays as it is, or is lost.
LeavesHistory == stored' = stored /\ head' = head /\ size' = size

LEMMA HistorySteps ==
    ASSUME [StorageNext]_storageVars
    PROVE  (\E e \in Events : AppendRecord(e)) \/ CorruptNewest \/ HistoryLost \/ LeavesHistory
BY DEF StorageNext, Restart, storageVars, historyVars, LeavesHistory

\* append, damage and loss keep the shape of the ring.
LEMMA HistoryOKInductive ==
    ASSUME HistoryOK, [StorageNext]_storageVars
    PROVE  HistoryOK'
<1>1. 1 \in 0 .. Capacity /\ SlotAt(head, 1) \in Indices
  BY RingAssumption, SlotAtWraps DEF HistoryOK
<1>2. ASSUME NEW e \in Events, AppendRecord(e)  PROVE HistoryOK'
  <2>1. stored' = [i \in Indices |-> stored'[i]]
    BY <1>2 DEF AppendRecord, HistoryOK
  <2>2. head' \in Indices /\ size' \in 0 .. Capacity
    BY <1>1, <1>2, RingAssumption DEF AppendRecord, HeadAfterAppend, HistoryOK
  <2> QED  BY <2>1, <2>2 DEF HistoryOK
<1>3. CASE CorruptNewest
  <2>1. stored' = [i \in Indices |-> stored'[i]]
    BY <1>3 DEF CorruptNewest, HistoryOK
  <2> QED  BY <1>3, <2>1 DEF CorruptNewest, HistoryOK
<1>4. CASE HistoryLost
  BY <1>4, RingAssumption DEF HistoryLost, HistoryOK, Indices
<1>5. CASE LeavesHistory
  BY <1>5 DEF LeavesHistory, HistoryOK
<1> QED  BY <1>2, <1>3, <1>4, <1>5, HistorySteps

\* An event with its checksum, as it is stored.
Entry(e) == [event |-> e, damaged |-> FALSE]

\* append puts the event last, over the oldest when the ring is full.
LEMMA KeptAppended ==
    ASSUME HistoryOK, NEW e \in Events, AppendRecord(e)
    PROVE  /\ Len(Kept) = size
           /\ Kept' = Append(IF size = Capacity THEN Tail(Kept) ELSE Kept, Entry(e))
<1>1. PICK S : S = Held(Entry(e))
  OBVIOUS
<1>2. stored \in [Indices -> S] /\ Entry(e) \in S
  BY <1>1 DEF HistoryOK, Held
<1>3. head \in Indices /\ size \in 0 .. Capacity
  BY DEF HistoryOK
<1>4. Len(Kept) = size
  BY <1>2, <1>3, ContentsSeq DEF Kept
<1>5. stored' = [stored EXCEPT ![SlotAt(head, size)] = Entry(e)]
  BY DEF AppendRecord, Entry
<1>6. CASE size < Capacity
  <2>1. PICK n \in 0 .. Capacity - 1 : n = size
    BY <1>3, <1>6, RingAssumption
  <2>2. head' = head /\ size' = n + 1
    BY <1>6, <2>1 DEF AppendRecord, HeadAfterAppend
  <2>3. Contents([stored EXCEPT ![SlotAt(head, n)] = Entry(e)], head, n + 1) =
          Append(Contents(stored, head, n), Entry(e))
    BY <1>2, <1>3, ContentsAppended
  <2>4. Kept' = Append(Kept, Entry(e))
    BY <1>5, <2>1, <2>2, <2>3 DEF Kept
  <2> QED  BY <1>4, <1>6, <2>4, RingAssumption
<1>7. CASE ~ (size < Capacity)
  <2>1. size = Capacity
    BY <1>3, <1>7, RingAssumption
  <2>2. head' = SlotAt(head, 1) /\ size' = Capacity
    BY <1>7, <2>1 DEF AppendRecord, HeadAfterAppend
  <2>3. Contents([stored EXCEPT ![SlotAt(head, Capacity)] = Entry(e)],
                 SlotAt(head, 1), Capacity) =
          Append(Tail(Contents(stored, head, Capacity)), Entry(e))
    BY <1>2, <1>3, ContentsRolled
  <2>4. Kept' = Append(Tail(Kept), Entry(e))
    BY <1>5, <2>1, <2>2, <2>3 DEF Kept
  <2> QED  BY <1>4, <2>1, <2>4
<1> QED  BY <1>6, <1>7

\* The damage is to the latest entry.
LEMMA KeptDamaged ==
    ASSUME HistoryOK, CorruptNewest
    PROVE  /\ Kept # << >>
           /\ Kept' = [Kept EXCEPT ![Len(Kept)] = Flipped(@)]
<1>1. PICK n \in 1 .. Capacity : n = size
  BY RingAssumption DEF HistoryOK, CorruptNewest
<1>2. PICK e : e = Flipped(stored[SlotAt(head, n - 1)])
  OBVIOUS
<1>3. PICK S : S = Held(e)
  OBVIOUS
<1>4. stored \in [Indices -> S] /\ e \in S /\ head \in Indices
  BY <1>3 DEF HistoryOK, Held
<1>5. n \in 0 .. Capacity /\ n \in 1 .. n
  BY RingAssumption
<1>6. /\ Kept = Contents(stored, head, n) /\ Kept \in Seq(S) /\ Len(Kept) = n
      /\ Kept[n] = stored[SlotAt(head, n - 1)]
  BY <1>1, <1>4, <1>5, ContentsSeq DEF Kept
<1>7. /\ stored' = [stored EXCEPT ![SlotAt(head, n - 1)] = e]
      /\ head' = head /\ size' = n
  BY <1>1, <1>2 DEF CorruptNewest
<1>8. Kept' = [Kept EXCEPT ![n] = e]
  <2>1. Contents(Replaced(stored, SlotAt(head, n - 1), e), head, n) =
          Replaced(Contents(stored, head, n), n, e)
    BY <1>4, ContentsLastChanged
  <2>2. Kept' = Contents(stored', head', size')
    BY DEF Kept
  <2> QED  BY <1>6, <1>7, <2>1, <2>2 DEF Replaced
<1>9. Kept # << >>
  BY <1>5, <1>6, EmptySeq
<1> QED  BY <1>2, <1>6, <1>8, <1>9

\* recover is what a reader of the log is shown.
LEMMA RecoveredIsShown == Recovered' = SelectSeq(Kept', Fits)
BY DEF Recovered

\* The history is the log of the latest events, through any wrap of the ring, any
\* damage to a record and any restart.
THEOREM ImplementsLog == StorageSpec => ImplementsEventLog
<1>1. StorageInit => HistoryOK /\ Log!Init
  <2>1. ASSUME StorageInit  PROVE HistoryOK /\ Kept = << >>
    BY <2>1, RingAssumption DEF StorageInit, HistoryInit, HistoryOK, Indices, Kept, Contents
  <2> QED  BY <2>1 DEF Recovered, Log!Init
<1>2. ASSUME HistoryOK, [StorageNext]_storageVars  PROVE [Log!Next]_Log!logVars
  <2>1. ASSUME NEW e \in Events, AppendRecord(e)  PROVE Log!AppendEvent(e)
    BY <1>2, <2>1, KeptAppended, RecoveredIsShown DEF Log!AppendEvent, Log!Shown, Entry
  <2>2. CASE CorruptNewest
    <3>1. \A entry : Log!Flipped(entry) = Flipped(entry)
      BY DEF Log!Flipped, Flipped
    <3> QED  BY <1>2, <2>2, <3>1, KeptDamaged, RecoveredIsShown
                DEF Log!DamageLatest, Log!Shown, Log!Next
  <2>3. CASE HistoryLost
    <3>1. Kept' = << >>
      BY <2>3 DEF HistoryLost, Kept, Contents
    <3> QED  BY <3>1, RecoveredIsShown DEF Log!LoseAll, Log!Shown, Log!Next
  <2>4. CASE LeavesHistory
    BY <2>4 DEF LeavesHistory, Kept, Recovered, Log!logVars
  <2> QED  BY <1>2, <2>1, <2>2, <2>3, <2>4, HistorySteps DEF Log!Next
<1> QED  BY <1>1, <1>2, HistoryOKInductive, PTL DEF StorageSpec, ImplementsEventLog, Log!Spec

-----------------------------------------------------------------------------
(* The metadata: a save that was confirmed is not lost.                    *)

\* What may be in the flash under the key k.
Possible(k) == {confirmed[k]} \cup tried[k]

\* The histories and the flash hold values, and the call that runs has a key and,
\* while it saves, a value.
StoreTypes ==
    /\ flash \in [Keys -> Values \cup {Absent}]
    /\ committed \in [Keys -> Values \cup {Absent}]
    /\ confirmed \in [Keys -> Values \cup {Absent}]
    /\ tried \in [Keys -> SUBSET Values]
    /\ storeCall.step \in {"none", "erase", "mountAgain", "set", "commit", "close"}
    /\ storeCall.step \in {"set", "commit", "close"} =>
         storeCall.key \in Keys /\ storeCall.value \in Values

\* Whatever a get would return now or after a restart was confirmed or tried, the
\* value being saved among the latter; from the commit on it is what survives.
FlashHonest ==
    /\ \A k \in Keys : flash[k] \in Possible(k) /\ committed[k] \in Possible(k)
    /\ storeCall.step \in {"set", "commit", "close"} => storeCall.value \in tried[storeCall.key]
    /\ At("commit") => flash[storeCall.key] = storeCall.value
    /\ At("close") => /\ flash[storeCall.key] = storeCall.value
                      /\ committed[storeCall.key] = storeCall.value

\* Only an unusable partition is erased, and what was loaded is from before or
\* after a save, never from the midst of one.
CallsHonest ==
    /\ At("erase") => partition \in Unusable
    /\ loaded.result \in {"Ok", "NotFound"} => At("none") /\ loaded.key \in Keys

StoreInv == StoreTypes /\ FlashHonest /\ CallsHonest /\ LoadsWhatWasSaved

\* The call that runs is a step with a key and a value.
CallTyped == storeCall = [step |-> storeCall.step, key |-> storeCall.key, value |-> storeCall.value]

LEMMA CallTypedInductive ==
    ASSUME CallTyped, [StorageNext]_storageVars
    PROVE  CallTyped'
<1>1. CASE storeCall' = storeCall
  BY <1>1 DEF CallTyped
<1>2. ASSUME NEW step, storeCall' = [storeCall EXCEPT !.step = step]  PROVE CallTyped'
  BY <1>2 DEF CallTyped
<1>3. ASSUME NEW step, NEW k, NEW v, storeCall' = [step |-> step, key |-> k, value |-> v]
      PROVE  CallTyped'
  BY <1>3 DEF CallTyped
<1>4. CASE StoreRuns
  BY <1>1, <1>2, <1>3, <1>4
     DEF StoreRuns, Initialise, Erase, EraseFails, Open, Set, Commit, SaveFails, SaveReturns,
         Load, Goto, Return, NoStoreCall
<1>5. CASE Restart
  BY <1>3, <1>5 DEF Restart, NvsRestarted, Return, NoStoreCall
<1> QED  BY <1>1, <1>4, <1>5 DEF StorageNext, storageVars, nvsVars

\* What the callers know stays as it is.
LEMMA WitnessedNothing ==
    ASSUME Witnessed, ~At("close"), ~(At("none") /\ At("set")'), ~At("mountAgain")'
    PROVE  confirmed' = confirmed /\ tried' = tried
BY DEF Witnessed, callerVars

\* init mounts the partition, or finds that it must be erased.
LEMMA InitialiseKeeps ==
    ASSUME StoreInv, Initialise, Witnessed
    PROVE  StoreInv'
<1>1. /\ flash' = flash /\ committed' = committed /\ partition' = partition
      /\ loaded' = NothingLoaded
      /\ \/ At("none") /\ partition \in Unusable /\ storeCall'.step = "erase"
         \/ storeCall'.step = "none"
      /\ At("none") \/ At("mountAgain")
  BY DEF Initialise, NeedsErase, NoStoreCall, Return
<1>2. confirmed' = confirmed /\ tried' = tried
  BY <1>1, WitnessedNothing DEF At
<1>3. StoreTypes' /\ FlashHonest'
  BY <1>1, <1>2 DEF StoreInv, StoreTypes, FlashHonest, Possible, At
<1>4. CallsHonest' /\ LoadsWhatWasSaved'
  BY <1>1 DEF StoreInv, CallsHonest, LoadsWhatWasSaved, NothingLoaded, At
<1> QED  BY <1>3, <1>4 DEF StoreInv

\* Erasing ends every promise, and an erase that fails changes nothing.
LEMMA EraseKeeps ==
    ASSUME StoreInv, Erase \/ EraseFails, Witnessed
    PROVE  StoreInv'
<1>1. CASE Erase
  <2>1. /\ flash' = Nothing /\ committed' = Nothing /\ storeCall'.step = "mountAgain"
        /\ loaded' = loaded /\ At("erase") /\ partition \in Unusable
    BY <1>1 DEF Erase, Nothing, Goto, StoreInv, CallsHonest, At, StoreTypes
  <2>2. confirmed' = Nothing /\ tried' = [k \in Keys |-> {}]
    BY <2>1 DEF Witnessed, At
  <2>3. StoreTypes' /\ FlashHonest'
    BY <2>1, <2>2 DEF StoreTypes, FlashHonest, Possible, Nothing, At
  <2>4. CallsHonest' /\ LoadsWhatWasSaved'
    BY <2>1 DEF StoreInv, CallsHonest, LoadsWhatWasSaved, At
  <2> QED  BY <2>3, <2>4 DEF StoreInv
<1>2. CASE EraseFails
  <2>1. /\ flash' = flash /\ committed' = committed /\ partition' = partition
        /\ loaded' = loaded /\ storeCall'.step = "none" /\ At("erase")
    BY <1>2 DEF EraseFails, Return, NoStoreCall
  <2>2. confirmed' = confirmed /\ tried' = tried
    BY <2>1, WitnessedNothing DEF At
  <2>3. StoreTypes' /\ FlashHonest'
    BY <2>1, <2>2 DEF StoreInv, StoreTypes, FlashHonest, Possible, At
  <2>4. CallsHonest' /\ LoadsWhatWasSaved'
    BY <2>1 DEF StoreInv, CallsHonest, LoadsWhatWasSaved, At
  <2> QED  BY <2>3, <2>4 DEF StoreInv
<1> QED  BY <1>1, <1>2

\* A save begins: its value is one more the flash may hold.
LEMMA OpenKeeps ==
    ASSUME StoreInv, NEW k \in Keys, NEW v \in Values, Open(k, v), Witnessed
    PROVE  StoreInv'
<1>1. /\ flash' = flash /\ committed' = committed /\ partition' = partition
      /\ loaded' = NothingLoaded /\ At("none")
      /\ storeCall'.step = "set" /\ storeCall'.key = k /\ storeCall'.value = v
  BY DEF Open
<1>2. confirmed' = confirmed /\ tried' = [tried EXCEPT ![k] = @ \cup {v}]
  BY <1>1 DEF Witnessed, At
<1>3. StoreTypes'
  BY <1>1, <1>2 DEF StoreInv, StoreTypes
<1>4. \A j \in Keys : Possible(j) \subseteq Possible(j)'
  BY <1>2 DEF Possible, StoreInv, StoreTypes
<1>5. v \in tried'[k]
  BY <1>2 DEF StoreInv, StoreTypes
<1>6. FlashHonest'
  BY <1>1, <1>4, <1>5 DEF StoreInv, FlashHonest, At
<1>7. CallsHonest' /\ LoadsWhatWasSaved'
  BY <1>1 DEF CallsHonest, LoadsWhatWasSaved, NothingLoaded, At
<1> QED  BY <1>3, <1>6, <1>7 DEF StoreInv

\* The value is set and committed, or one of the two fails.
LEMMA SetCommitKeeps ==
    ASSUME StoreInv, CallTyped, Set \/ Commit \/ SaveFails, Witnessed
    PROVE  StoreInv'
<1>1. storeCall.step \in {"set", "commit"} /\ loaded' = loaded /\ partition' = partition
  BY DEF Set, Commit, SaveFails, At
<1>2. storeCall'.step \in {"none", "commit", "close"}
  BY DEF Set, Commit, SaveFails, Goto, Return, NoStoreCall, AfterSet, CallTyped, At
<1>3. confirmed' = confirmed /\ tried' = tried
  BY <1>1, <1>2, WitnessedNothing DEF At
<1>4. /\ storeCall.key \in Keys /\ storeCall.value \in Values
      /\ storeCall.value \in Possible(storeCall.key)
      /\ storeCall.value \in tried[storeCall.key]
  BY <1>1 DEF StoreInv, StoreTypes, FlashHonest, Possible
<1>5. loaded.result \notin {"Ok", "NotFound"}
  BY <1>1 DEF StoreInv, CallsHonest, At
<1>6. CallsHonest' /\ LoadsWhatWasSaved'
  BY <1>1, <1>2, <1>5 DEF CallsHonest, LoadsWhatWasSaved, At
<1>7. CASE Set
  <2>1. /\ flash' = [flash EXCEPT ![storeCall.key] = storeCall.value] /\ committed' = committed
        /\ storeCall' = [storeCall EXCEPT !.step = "commit"]
    BY <1>7 DEF Set, Goto, AfterSet
  <2>2. storeCall'.step = "commit"
    BY <2>1 DEF CallTyped
  <2>3. storeCall'.key = storeCall.key /\ storeCall'.value = storeCall.value
    BY <2>1
  <2>4. StoreTypes' /\ FlashHonest'
    BY <1>3, <1>4, <2>1, <2>2, <2>3 DEF StoreInv, StoreTypes, FlashHonest, Possible, At
  <2> QED  BY <1>6, <2>4 DEF StoreInv
<1>8. CASE Commit
  <2>1. /\ flash' = flash /\ committed' = flash /\ At("commit")
        /\ storeCall' = [storeCall EXCEPT !.step = "close"]
    BY <1>8 DEF Commit, Goto
  <2>2. storeCall'.step = "close"
    BY <2>1 DEF CallTyped
  <2>3. storeCall'.key = storeCall.key /\ storeCall'.value = storeCall.value
    BY <2>1
  <2>4. StoreTypes' /\ FlashHonest'
    BY <1>3, <1>4, <2>1, <2>2, <2>3 DEF StoreInv, StoreTypes, FlashHonest, Possible, At
  <2> QED  BY <1>6, <2>4 DEF StoreInv
<1>9. CASE SaveFails
  <2>1. flash' = flash /\ committed' = committed /\ storeCall'.step = "none"
    BY <1>9 DEF SaveFails, Return, NoStoreCall
  <2>2. StoreTypes' /\ FlashHonest'
    BY <1>3, <2>1 DEF StoreInv, StoreTypes, FlashHonest, Possible, At
  <2> QED  BY <1>6, <2>2 DEF StoreInv
<1> QED  BY <1>7, <1>8, <1>9

\* A save returns with success: its value is what the flash surely holds.
LEMMA SaveReturnsKeeps ==
    ASSUME StoreInv, SaveReturns, Witnessed
    PROVE  StoreInv'
<1>1. /\ flash' = flash /\ committed' = committed /\ partition' = partition
      /\ loaded' = loaded /\ storeCall'.step = "none" /\ At("close")
  BY DEF SaveReturns, Return, NoStoreCall
<1>2. /\ confirmed' = [confirmed EXCEPT ![storeCall.key] = storeCall.value]
      /\ tried' = [tried EXCEPT ![storeCall.key] = {}]
  BY <1>1 DEF Witnessed, At
<1>3. storeCall.key \in Keys /\ storeCall.value \in Values
  BY <1>1 DEF StoreInv, StoreTypes, At
<1>4. StoreTypes'
  BY <1>1, <1>2, <1>3 DEF StoreInv, StoreTypes
<1>5. \A k \in Keys : flash[k] \in Possible(k)' /\ committed[k] \in Possible(k)'
  <2> TAKE k \in Keys
  <2>1. CASE k = storeCall.key
    BY <1>1, <1>2, <1>3, <2>1 DEF StoreInv, StoreTypes, FlashHonest, Possible
  <2>2. CASE k # storeCall.key
    BY <1>2, <1>3, <2>2 DEF StoreInv, StoreTypes, FlashHonest, Possible
  <2> QED  BY <2>1, <2>2
<1>6. FlashHonest'
  BY <1>1, <1>5 DEF FlashHonest, At
<1>7. CallsHonest' /\ LoadsWhatWasSaved'
  BY <1>1 DEF StoreInv, CallsHonest, LoadsWhatWasSaved, At
<1> QED  BY <1>4, <1>6, <1>7 DEF StoreInv

\* A load reads what is in the flash.
LEMMA LoadKeeps ==
    ASSUME StoreInv, NEW k \in Keys, Load(k), Witnessed
    PROVE  StoreInv'
<1>1. /\ flash' = flash /\ committed' = committed /\ partition' = partition
      /\ storeCall' = storeCall /\ At("none")
      /\ loaded'.result = (IF flash[k] = Absent THEN "NotFound" ELSE "Ok")
      /\ loaded'.key = k /\ loaded'.value = flash[k]
  BY DEF Load
<1>2. confirmed' = confirmed /\ tried' = tried
  BY <1>1, WitnessedNothing DEF At
<1>3. StoreTypes' /\ FlashHonest'
  BY <1>1, <1>2 DEF StoreInv, StoreTypes, FlashHonest, Possible, At
<1>4. CallsHonest'
  BY <1>1 DEF CallsHonest, At
<1>5. flash[k] \in Possible(k) /\ tried[k] \subseteq Values
  BY DEF StoreInv, StoreTypes, FlashHonest
<1>6. LoadsWhatWasSaved'
  BY <1>1, <1>2, <1>5, NvsAssumption DEF LoadsWhatWasSaved, Possible
<1> QED  BY <1>3, <1>4, <1>6 DEF StoreInv

\* After a restart the flash holds one of the two it may hold.
LEMMA RestartKeeps ==
    ASSUME StoreInv, Restart
    PROVE  StoreInv'
<1>1. /\ flash' \in [Keys -> Values \cup {Absent}] /\ committed' = flash'
      /\ \A k \in Keys : flash'[k] \in {flash[k], committed[k]}
      /\ storeCall'.step = "none" /\ loaded' = NothingLoaded
      /\ confirmed' = confirmed /\ tried' = tried
  BY DEF Restart, NvsRestarted, Return, NoStoreCall, callerVars
<1>2. StoreTypes' /\ FlashHonest'
  BY <1>1 DEF StoreInv, StoreTypes, FlashHonest, Possible, At
<1>3. CallsHonest' /\ LoadsWhatWasSaved'
  BY <1>1 DEF CallsHonest, LoadsWhatWasSaved, NothingLoaded, At
<1> QED  BY <1>2, <1>3 DEF StoreInv

LEMMA StoreInvInductive ==
    ASSUME StoreInv, CallTyped, [StorageNext]_storageVars
    PROVE  StoreInv'
<1>1. CASE StoreRuns /\ Witnessed
  BY <1>1, InitialiseKeeps, EraseKeeps, OpenKeeps, SetCommitKeeps, SaveReturnsKeeps, LoadKeeps
     DEF StoreRuns
<1>2. CASE UNCHANGED <<nvsVars, callerVars>>
  BY <1>2 DEF nvsVars, callerVars, StoreInv, StoreTypes, FlashHonest, CallsHonest,
              LoadsWhatWasSaved, Possible, At
<1> QED  BY <1>1, <1>2, RestartKeeps DEF StorageNext, storageVars

\* A value whose save returned success is what load returns, or a value a later
\* save was asked for: whichever library calls fail and whenever the power does.
\* Only erasing a partition that cannot be used ends that.
THEOREM SavedIsNotLost == StorageSpec => []LoadsWhatWasSaved
<1>1. StorageInit => StoreInv /\ CallTyped
  BY DEF CallTyped, StorageInit, NvsInit, Nothing, NoStoreCall, NothingLoaded, StoreInv,
         StoreTypes, FlashHonest,
         CallsHonest, LoadsWhatWasSaved, Possible, At
<1>2. StoreInv => LoadsWhatWasSaved
  BY DEF StoreInv
<1> QED  BY <1>1, <1>2, StoreInvInductive, CallTypedInductive, PTL DEF StorageSpec
================================================================================
