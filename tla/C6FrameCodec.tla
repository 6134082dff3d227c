----------------------------- MODULE C6FrameCodec -----------------------------
(***************************************************************************)
(* FrameCodec of components/c6_interface: a frame between markers, its     *)
(* length and 16-bit numbers with the low byte first, and a CRC16 over all *)
(* but the markers.  A word is the set of its one bits, so that exclusive  *)
(* or is symmetric difference and a shift moves every member.              *)
(***************************************************************************)
EXTENDS Integers, Sequences

CONSTANT
    MaximumPayload      \* Frame::kMaximumPayload, 240

ASSUME C6FrameCodecAssumption == MaximumPayload \in 0 .. 65535

Seqs == INSTANCE SequencesExt

Refused == [refused |-> TRUE]
Start == 126
End == 127
MaximumEncodedSize == MaximumPayload + 10

Low(word) == word % 256
High(word) == word \div 256

Bits(byte) == {b \in 0 .. 7 : (byte \div 2^b) % 2 = 1}
Xor(s, t) == (s \ t) \cup (t \ s)
ValueOf(bits) == Seqs!FoldSet(LAMBDA b, sum : sum + 2^b, 0, bits)

\* One of the eight rounds for a byte: shift right, and the polynomial 16#A001 if a
\* one falls out.
CrcRound(crc) ==
    LET shifted == {b - 1 : b \in crc \ {0}}
    IN  IF 0 \in crc THEN Xor(shifted, {0, 13, 15}) ELSE shifted

CrcByte(crc, byte) ==
    LET round[n \in 0 .. 8] ==
            IF n = 0 THEN Xor(crc, Bits(byte)) ELSE CrcRound(round[n - 1])
    IN  round[8]

\* crc16, which begins with all ones.
Crc16(bytes) == ValueOf(Seqs!FoldLeft(CrcByte, 0 .. 15, bytes))

\* Mutant of Covered: the version is left out of the checksum.
CoveredLess(bytes) == SubSeq(bytes, 3, Len(bytes))

\* What the checksum covers of the bytes before it: all after the start marker.
Covered(bytes) == SubSeq(bytes, 2, Len(bytes))

-----------------------------------------------------------------------------

\* encode, or Refused.
Encode(frame) ==
    LET length == Len(frame.payload)
        body == <<Start, frame.version, frame.type, Low(frame.sequence), High(frame.sequence),
                  Low(length), High(length)>> \o frame.payload
        crc == Crc16(Covered(body))
    IN  IF length > MaximumPayload \/ length + 10 > MaximumEncodedSize THEN Refused
        ELSE body \o <<Low(crc), High(crc), End>>

\* The number of two bytes, low byte first, counted from one.
Word(bytes, i) == bytes[i] + 256 * bytes[i + 1]

\* decode, or Refused: the checks in their order.
Decode(bytes) ==
    LET size == Len(bytes)
        length == Word(bytes, 6)
    IN  IF size < 10 \/ bytes[1] # Start \/ bytes[size] # End THEN Refused
        ELSE IF length > MaximumPayload \/ size # length + 10 THEN Refused
        ELSE IF Word(bytes, 8 + length) # Crc16(Covered(SubSeq(bytes, 1, 7 + length)))
        THEN Refused
        ELSE [version |-> bytes[2], type |-> bytes[3], sequence |-> Word(bytes, 4),
              payload |-> SubSeq(bytes, 8, 7 + length)]
===============================================================================
