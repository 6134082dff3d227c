------------------------------- MODULE DaliFrame -------------------------------
(***************************************************************************)
(* The forward frames of components/dali_protocol (dali_frame.h), the      *)
(* opcodes they carry (dali_commands.h) and what the parser makes of the   *)
(* backward frame (dali_response_parser.cpp).  Shifts and ors over fields  *)
(* that do not overlap are written as sums of products.                    *)
(***************************************************************************)
EXTENDS Integers

Byte == 0 .. 255
ShortAddresses == 0 .. 63
GroupAddresses == 0 .. 15

\* The families of sixteen opcodes each, by their first one.
OpcodeFamilies == [GoToScene |-> 16, StoreDtrAsScene |-> 64, RemoveFromScene |-> 80,
             AddToGroup |-> 96, RemoveFromGroup |-> 112, QuerySceneLevel |-> 176]

OpcodeOf(family, n) == OpcodeFamilies[family] + n

\* DaliCommand::QueryStatus.
QueryStatus == 144

\* Every opcode of DaliCommand.
DaliCommand ==
    0 .. 10 \cup {32, 33} \cup 36 .. 46 \cup {128, 129} \cup 144 .. 168 \cup {170}
    \cup 192 .. 197
    \cup {OpcodeOf(f, n) : f \in DOMAIN OpcodeFamilies, n \in 0 .. 15}

\* DaliSpecialCommand: these stand where the address of another frame is.
DaliSpecialCommand ==
    {161, 163, 165, 167, 169, 171, 177, 179, 181, 183, 185, 187, 193}

\* ArcLevel::fromRaw: 255 is the mask value, not a level.
IsArcLevel(level) == level <= 254

\* Mutant of AddressByte: a group command without its selector bit.
AddressByteUnselected(kind, target) ==
    CASE kind = "shortCommand"     -> 2 * target + 1
      [] kind = "shortArc"         -> 2 * target
      [] kind = "groupCommand"     -> 128 + 2 * target
      [] kind = "groupArc"         -> 128 + 2 * target
      [] kind = "broadcastCommand" -> 255
      [] kind = "broadcastArc"     -> 254
      [] kind = "special"          -> target

\* The first byte of the frame each make function builds.
AddressByte(kind, target) ==
    CASE kind = "shortCommand"     -> 2 * target + 1
      [] kind = "shortArc"         -> 2 * target
      [] kind = "groupCommand"     -> 129 + 2 * target
      [] kind = "groupArc"         -> 128 + 2 * target
      [] kind = "broadcastCommand" -> 255
      [] kind = "broadcastArc"     -> 254
      [] kind = "special"          -> target

\* makeFrame of the two bytes.
FrameOf(call) == 256 * AddressByte(call.kind, call.target) + call.data

\* Everything the make functions can be asked for.
Call(kinds, targets, data) == [kind : kinds, target : targets, data : data]
Calls ==
         Call({"shortCommand"}, ShortAddresses, DaliCommand)
    \cup Call({"shortArc"}, ShortAddresses, {l \in Byte : IsArcLevel(l)})
    \cup Call({"groupCommand"}, GroupAddresses, DaliCommand)
    \cup Call({"groupArc"}, GroupAddresses, {l \in Byte : IsArcLevel(l)})
    \cup Call({"broadcastCommand"}, {0}, DaliCommand)
    \cup Call({"broadcastArc"}, {0}, {l \in Byte : IsArcLevel(l)})
    \cup Call({"special"}, DaliSpecialCommand, Byte)

\* How gear reads a forward frame, by the leading bits of its first byte: the
\* layout the host tests quote, and the reference the frames are held against.
Understood(raw) ==
    LET address == raw \div 256
        selected == address % 2 = 1
        call(kind, target) == [kind |-> kind, target |-> target, data |-> raw % 256]
    IN  IF address < 128
        THEN call(IF selected THEN "shortCommand" ELSE "shortArc", address \div 2)
        ELSE IF address < 160
        THEN call(IF selected THEN "groupCommand" ELSE "groupArc", (address - 128) \div 2)
        ELSE IF address >= 254
        THEN call(IF selected THEN "broadcastCommand" ELSE "broadcastArc", 0)
        ELSE call("special", address)

-----------------------------------------------------------------------------

\* qualityFromPhyResult.
QualityFromPhyResult(result) ==
    CASE result = "Ok"                              -> "Valid"
      [] result \in {"Timeout", "Busy", "Collision"} -> "TemporarilyUnavailable"
      [] OTHER                                       -> "Invalid"

\* The bits of a status byte, by weight.
StatusBits ==
    [controlGearFailure |-> 1, lampFailure |-> 2, lampPowerOn |-> 4, limitError |-> 8,
     fadeRunning |-> 16, resetState |-> 32, missingShortAddress |-> 64,
     powerFailure |-> 128]

\* Mutant of ParseBasicStatus: every flag is read one bit too high.
ParseBasicStatusShifted(value, quality) ==
    {f \in DOMAIN StatusBits : (value \div (2 * StatusBits[f])) % 2 = 1}

\* parseBasicStatus: the flags that are set; nothing is read from a response that
\* is not valid.
ParseBasicStatus(value, quality) ==
    IF quality = "Valid"
    THEN {f \in DOMAIN StatusBits : (value \div StatusBits[f]) % 2 = 1}
    ELSE {}

\* parseYesNo.
ParseYesNo(value, quality) == quality = "Valid" /\ value # 0

-----------------------------------------------------------------------------

\* Any two calls make different frames, and gear reads from each exactly what
\* was asked for: no address byte of a short, group or broadcast call is a special
\* command or belongs to another kind, whatever address and opcode are combined.
FramesUnambiguous ==
    \A call \in Calls : FrameOf(call) < 65536 /\ Understood(FrameOf(call)) = call
===============================================================================
