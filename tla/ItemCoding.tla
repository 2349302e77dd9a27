----------------------------- MODULE ItemCoding -----------------------------
(***************************************************************************)
(* An item of a record, written by ItemEncodingUtils and read back by      *)
(* ParsingUtils.  An item is a sequence of subitems: one of them in a      *)
(* plain item, several behind a primary subfield in a compound item,       *)
(* behind one byte of presence bits in the reserved expansion field (RE),  *)
(* behind nothing but the length in the special purpose field (SP).  A     *)
(* subitem is a sequence of elements of some bits each, which need not lie *)
(* at the begin of a byte: the encoder shifts each element behind the bits *)
(* left over from the one before, the parser cuts it out of its bytes and  *)
(* shifts it back.                                                         *)
(*                                                                         *)
(* A byte is a sequence of eight bits, the first one the most significant; *)
(* the value of an element is its raw integer.  Conversions from and to    *)
(* numbers with a unit are left out.                                       *)
(***************************************************************************)
EXTENDS Integers, Sequences, FiniteSetsExt, SequencesExt

CONSTANTS
  Inputs,   (* [item, given]: a description and decoded elements for it      *)
  Garbage,  (* bits an uninitialized byte may be filled with                 *)
  Trailer   (* the bits that follow the item in the datablock                *)

VARIABLES
  item,           (* itemToEncode: its type and its subitems                 *)
  given,          (* the decoded elements handed to the encoder              *)
  pc,             (* "begin" of a subitem, "encode", "absent", "parse", ...  *)
  sub,            (* the subitem at hand                                     *)
  i,              (* the element at hand, over all repetitions               *)
  decoded,        (* decodedElementNames and decodedElementValues            *)
  found,          (* numberOfElementsFound                                   *)
  notFound,       (* numberOfElementsNOTFound                                *)
  toEncode,       (* itemBitsStillToEncode of an extended subitem            *)
  part,           (* encodedItemBytestream of the subitem, as bits           *)
  remainingByte,  (* the last byte while it is not full                      *)
  remaining,      (* remainingBitCounter: its bits in use                    *)
  taken,          (* elements consumed by the subitem                        *)
  indicator,      (* itemsIndicator of a compound item, FSPEC of the RE      *)
  body,           (* the bits of the subitems present                        *)
  written,        (* the elements in them                                    *)
  reported,       (* subitems skipped with a failure                         *)
  stream,         (* the encoded item                                        *)
  toParse,        (* subitems the parser has yet to read                     *)
  pos,            (* index + bytesRead of the parser                         *)
  end,            (* the position behind the subitem at hand                 *)
  parsed          (* the elements put into the parsed record                 *)

inputVars == <<item, given>>
bitVars == <<part, remainingByte, remaining>>
elementVars == <<i, decoded, found, notFound, toEncode, taken>>
itemVars == <<indicator, body, written, reported, stream>>
encoderVars == <<elementVars, bitVars, itemVars>>
parserVars == <<toParse, pos, end, parsed>>
vars == <<inputVars, pc, sub, encoderVars, parserVars>>

-----------------------------------------------------------------------------
(* Bits and bytes.                                                         *)
Zeros(n) == [k \in 1 .. n |-> 0]
Bytes(bits) == (bits + 7) \div 8
BytesOf(n) == [k \in 1 .. 8 |-> (n \div 2 ^ (8 - k)) % 2]
Number(bits) == FoldLeft(LAMBDA n, b : 2 * n + b, 0, bits)

ShiftRight(bits, n) == Zeros(n) \o SubSeq(bits, 1, Len(bits) - n)
ShiftLeft(byte, n) == SubSeq(byte \o Zeros(n), n + 1, n + 8)
ShiftIn(byte, bit) == Append(Tail(byte), bit)
OrFirst(bits, byte) ==
  [k \in 1 .. Len(bits) |-> IF k <= 8 /\ byte[k] = 1 THEN 1 ELSE bits[k]]

(* The low bits of the value at the left of its bytes, and a byte to spare.*)
RawElement(value, length) ==
  [k \in 1 .. length |-> (value \div 2 ^ (length - k)) % 2] \o Zeros(8 * Bytes(length) + 8 - length)

-----------------------------------------------------------------------------
(* Descriptions.                                                           *)
Spare == <<"Spare", 0>>
FX == <<"FX", 0>>

Subitem == item.subitems[sub]
ModuleSize(s) == Len(s.elements)
Element(s, n) == s.elements[((n - 1) % ModuleSize(s)) + 1]
Repetition(s, n) == (n - 1) \div ModuleSize(s)

(* The name of the n-th element; from the second repetition on a suffix    *)
(* makes it differ, that of a spare element too.                           *)
Name(s, n) == <<Element(s, n).name, Repetition(s, n)>>

BitsBefore(s, n) ==
  LET sum[k \in 1 .. n] == IF k = 1 THEN 0 ELSE sum[k - 1] + Element(s, k - 1).length
  IN sum[n]

Carries(s, n) == Name(s, n) \notin {Spare, FX}
Position(name) == {k \in DOMAIN decoded : decoded[k].name = name}

(* The extents of an extended item, as the positions of their FX.          *)
FxOf(s) == {n \in 1 .. ModuleSize(s) : Name(s, n) = FX}
Extent(s, fx) ==
  {n \in 1 .. fx : Carries(s, n) /\ \A f \in FxOf(s) : f < fx => f < n}

(* Mutant: an extent counts when one of its elements is there.             *)
MutantMissing(s, fx) ==
  IF \E n \in Extent(s, fx) : Position(Name(s, n)) # {} THEN {} ELSE Extent(s, fx)

Missing(s, fx) == {n \in Extent(s, fx) : Position(Name(s, n)) = {}}

(* The first extent in which something is missing.                         *)
FirstGap(s) == {fx \in FxOf(s) : /\ Missing(s, fx) # {}
                                 /\ \A f \in FxOf(s) : f < fx => Missing(s, f) = {}}

Partial(s) == \E fx \in FirstGap(s) : Missing(s, fx) # Extent(s, fx)

CalculateExtendedItemLength(s) ==
  LET whole == {fx \in FxOf(s) : \A g \in FirstGap(s) : fx < g}
  IN IF Partial(s) \/ whole = {} THEN 0 ELSE BitsBefore(s, Max(whole) + 1) \div 8

-----------------------------------------------------------------------------
(* The encoder.                                                            *)
Starting == pc = "begin" /\ sub <= Len(item.subitems)
Explicit == item.type \in {"RE", "SP"}
NotEncoded(s) == s.type = "Spare" \/ (Explicit /\ ~s.toBeEncoded)

(* The index of the byte in which the bit of the n-th subitem is.          *)
IndicatorByte(n) == (n - 1) \div 7 + 1

(* The bit of the subitem at hand, and FX when it was the seventh.         *)
Marked(bit) ==
  LET withItem(b) == [indicator EXCEPT ![b] = ShiftIn(@, bit)]
      b == IndicatorByte(sub)
  IN CASE item.type = "Compound" /\ sub % 7 = 0 -> [withItem(b) EXCEPT ![b] = ShiftIn(@, 1)]
       [] item.type = "Compound" /\ sub % 7 # 0 -> withItem(b)
       [] item.type = "RE"                      -> withItem(1)
       [] OTHER                                 -> indicator

MarkSubitem(bit) == indicator' = Marked(bit) /\ sub' = sub + 1 /\ pc' = "begin"

BeginSubitem ==
  /\ Starting /\ ~NotEncoded(Subitem)
  /\ Subitem.type = "Extended" => CalculateExtendedItemLength(Subitem) > 0
  /\ pc' = "encode"
  /\ i' = 1 /\ found' = 0 /\ notFound' = 0 /\ taken' = <<>>
  /\ toEncode' = IF Subitem.type = "Extended" THEN 8 * CalculateExtendedItemLength(Subitem) ELSE 0
  /\ part' = <<>> /\ remaining' = 0 /\ remainingByte' = Zeros(8)
  /\ UNCHANGED <<inputVars, sub, decoded, itemVars, parserVars>>

(* The bits of an element are shifted behind the remainder; full bytes go  *)
(* to the stream, the last one stays behind while it is not full.          *)
PutBits(bits, length) ==
  LET shifted == IF remaining > 0 THEN OrFirst(ShiftRight(bits, remaining), remainingByte) ELSE bits
      total == length + remaining
      spareBytes == Len(bits) \div 8 - 1
      withInformation == IF 8 * spareBytes - length >= remaining THEN spareBytes ELSE spareBytes + 1
  IN /\ part' = part \o SubSeq(shifted, 1, 8 * (total \div 8))
     /\ remaining' = IF total % 8 > 0 THEN 8 - (8 * withInformation - total) ELSE 0
     /\ remainingByte' = IF total % 8 > 0
                         THEN SubSeq(shifted, 8 * withInformation - 7, 8 * withInformation)
                         ELSE remainingByte

(* A fixed subitem ends with its module, an extended one also when its     *)
(* bits are encoded, a repetitive one looks for another repetition.        *)
InModule ==
  CASE Subitem.type = "Fixed"      -> i <= ModuleSize(Subitem)
    [] Subitem.type = "Extended"   -> i <= ModuleSize(Subitem) /\ toEncode > 0
    [] Subitem.type = "Repetitive" -> (i - 1) % ModuleSize(Subitem) # 0 \/ found + notFound = 0

Encoding == pc = "encode" /\ InModule
Length == Element(Subitem, i).length
NextElement == i' = i + 1 /\ toEncode' = IF Subitem.type = "Extended" THEN toEncode - Length ELSE 0

SpareBits == Zeros(8 * Bytes(Length) + 8)

EncodeSpare ==
  /\ Encoding /\ Name(Subitem, i) = Spare
  /\ PutBits(SpareBits, Length)
  /\ NextElement
  /\ UNCHANGED <<inputVars, pc, sub, decoded, found, notFound, taken, itemVars, parserVars>>

FxBit == IF i = ModuleSize(Subitem) \/ toEncode = Length THEN 0 ELSE 1

(* Of the two bytes allocated for FX only the first one is written.        *)
EncodeFX ==
  /\ Encoding /\ Name(Subitem, i) = FX
  /\ \E g \in Garbage : PutBits(<<FxBit>> \o Zeros(7) \o [k \in 1 .. 8 |-> g], Length)
  /\ NextElement
  /\ UNCHANGED <<inputVars, pc, sub, decoded, found, notFound, taken, itemVars, parserVars>>

(* The first element of that name is encoded and removed.                  *)
EncodeElement ==
  /\ Encoding /\ Carries(Subitem, i)
  /\ Position(Name(Subitem, i)) # {}
  /\ LET k == Min(Position(Name(Subitem, i))) IN
       /\ PutBits(RawElement(decoded[k].value, Length), Length)
       /\ taken' = Append(taken, [sub |-> sub, name |-> decoded[k].name, value |-> decoded[k].value])
       /\ decoded' = RemoveAt(decoded, k)
  /\ found' = found + 1
  /\ NextElement
  /\ UNCHANGED <<inputVars, pc, sub, notFound, itemVars, parserVars>>

MissElement ==
  /\ Encoding /\ Carries(Subitem, i)
  /\ Position(Name(Subitem, i)) = {}
  /\ Subitem.type = "Fixed" => found = 0
  /\ notFound' = notFound + 1
  /\ NextElement
  /\ UNCHANGED <<inputVars, pc, sub, decoded, found, taken, bitVars, itemVars, parserVars>>

(* A module found in part is skipped with a failure: a fixed one at the    *)
(* first element missing, an extended one before it starts.                *)
RejectSubitem ==
  /\ \/ /\ Starting /\ ~NotEncoded(Subitem)
        /\ Subitem.type = "Extended" /\ Partial(Subitem)
     \/ /\ Encoding /\ Subitem.type = "Fixed" /\ found > 0
        /\ Carries(Subitem, i) /\ Position(Name(Subitem, i)) = {}
     \/ /\ pc = "encode" /\ ~InModule
        /\ Subitem.type # "Extended" /\ found > 0 /\ notFound > 0
  /\ reported' = reported \cup {sub}
  /\ MarkSubitem(0)
  /\ UNCHANGED <<inputVars, elementVars, bitVars, body, written, stream, parserVars>>

(* A spare subitem, or one that is not wanted, is passed over.             *)
PassOver ==
  /\ Starting /\ NotEncoded(Subitem)
  /\ MarkSubitem(0)
  /\ UNCHANGED <<inputVars, elementVars, bitVars, body, written, reported, stream, parserVars>>

(* A subitem of which nothing is found is left out without a failure.      *)
LeaveOutSubitem ==
  /\ \/ /\ Starting /\ Subitem.type = "Extended"
        /\ ~Partial(Subitem) /\ CalculateExtendedItemLength(Subitem) = 0
     \/ /\ pc = "encode" /\ ~InModule
        /\ Subitem.type # "Extended" /\ found = 0 /\ i <= ModuleSize(Subitem) + 1
  /\ MarkSubitem(0)
  /\ UNCHANGED <<inputVars, elementVars, bitVars, body, written, reported, stream, parserVars>>

NextRepetition ==
  /\ pc = "encode" /\ ~InModule
  /\ Subitem.type = "Repetitive" /\ found > 0 /\ notFound = 0
  /\ found' = 0
  /\ UNCHANGED <<inputVars, pc, sub, i, decoded, notFound, toEncode, taken, bitVars, itemVars, parserVars>>

(* The repetition just looked for was not there.                           *)
Repetitions == Repetition(Subitem, i - 1)

KeepSubitem ==
  /\ pc = "encode" /\ ~InModule
  /\ CASE Subitem.type = "Fixed"      -> found > 0 /\ notFound = 0
       [] Subitem.type = "Extended"   -> TRUE
       [] Subitem.type = "Repetitive" -> found = 0 /\ i > ModuleSize(Subitem) + 1
  /\ body' = body \o (IF Subitem.type = "Repetitive" THEN BytesOf(Repetitions % 256) ELSE <<>>) \o part
  /\ written' = written \o taken
  /\ MarkSubitem(1)
  /\ UNCHANGED <<inputVars, elementVars, bitVars, reported, stream, parserVars>>

(* The last byte of the indicator is completed with zeros.                 *)
Filled ==
  LET n == Len(item.subitems) IN [indicator EXCEPT ![IndicatorByte(n + 1)] = ShiftLeft(@, 8 - (n % 7))]

LeftAligned ==
  LET n == Len(item.subitems) IN IF n < 8 THEN ShiftLeft(indicator[1], 8 - n) ELSE indicator[1]

(* What is inserted in front of the subitems.                              *)
Header ==
  CASE item.type = "Plain"    -> <<>>
    [] item.type = "Compound" -> FlattenSeq(Filled)
    [] item.type = "RE"       -> BytesOf((Len(body) \div 8 + 2) % 256) \o LeftAligned
    [] item.type = "SP"       -> BytesOf((Len(body) \div 8 + 1) % 256)

FinishEncoding ==
  /\ pc = "begin" /\ sub > Len(item.subitems)
  /\ IF body = <<>> THEN pc' = "absent" /\ UNCHANGED stream
                    ELSE pc' = "parse" /\ stream' = Header \o body
  /\ UNCHANGED <<inputVars, sub, elementVars, bitVars, indicator, body, written, reported, parserVars>>

(* The functions for the kinds of a subitem.  In an extended one every     *)
(* element is there, see ExtendedElementsAreThere.                         *)
AtSubitem(type) ==
  /\ pc \in {"begin", "encode"} /\ sub <= Len(item.subitems)
  /\ ~NotEncoded(Subitem) /\ Subitem.type = type

Beginning == BeginSubitem \/ EncodeSpare \/ EncodeElement
Ending == RejectSubitem \/ LeaveOutSubitem \/ KeepSubitem

encodeFixedLengthItem == AtSubitem("Fixed") /\ (Beginning \/ MissElement \/ Ending)
encodeExtendedLengthItem == AtSubitem("Extended") /\ (Beginning \/ EncodeFX \/ Ending)
encodeRepetitiveLengthItem ==
  AtSubitem("Repetitive") /\ (Beginning \/ MissElement \/ NextRepetition \/ Ending)

EncodeSubitem == encodeFixedLengthItem \/ encodeExtendedLengthItem \/ encodeRepetitiveLengthItem

(* The functions for the kinds of an item.                                 *)
encodeSingleItem == item.type = "Plain" /\ (EncodeSubitem \/ FinishEncoding)
encodeCompoundLengthItem == item.type = "Compound" /\ (PassOver \/ EncodeSubitem \/ FinishEncoding)
encodeREFItem == item.type = "RE" /\ (PassOver \/ EncodeSubitem \/ FinishEncoding)
encodeSPFItem == item.type = "SP" /\ (PassOver \/ EncodeSubitem \/ FinishEncoding)
Encode == encodeSingleItem \/ encodeCompoundLengthItem \/ encodeREFItem \/ encodeSPFItem

-----------------------------------------------------------------------------
(* The parser.                                                             *)
Octets(first, n) == SubSeq(stream \o Trailer, 8 * first + 1, 8 * (first + n))

(* The positions of the ones among the bits, seven or eight of each byte.  *)
Ones(bits) == SelectSeq([k \in 1 .. Len(bits) |-> k], LAMBDA k : bits[k] = 1)
Presence(n) == FlattenSeq([b \in 1 .. n |-> SubSeq(Octets(b - 1, 1), 1, 7)])

(* Bytes of the primary subfield: the last one has no FX.                  *)
PrimarySize == CHOOSE n \in 1 .. Len(stream) :
  /\ Octets(n - 1, 1)[8] = 0
  /\ \A m \in 1 .. n - 1 : Octets(m - 1, 1)[8] = 1

ReadHeader ==
  /\ pc = "parse"
  /\ CASE item.type = "Plain"    -> toParse' = <<1>> /\ pos' = 0
       [] item.type = "Compound" -> toParse' = Ones(Presence(PrimarySize)) /\ pos' = PrimarySize
       [] item.type = "RE"       -> toParse' = (IF item.toBeDecoded THEN Ones(Octets(1, 1)) ELSE <<>>) /\ pos' = 2
       [] item.type = "SP"       ->
            toParse' = (IF item.toBeDecoded THEN [k \in 1 .. Len(item.subitems) |-> k] ELSE <<>>) /\ pos' = 1
  /\ pc' = "next"
  /\ UNCHANGED <<inputVars, sub, encoderVars, end, parsed>>

(* The primary part of an extended item and a byte more for each FX.       *)
ExtendedLength(s) == CHOOSE n \in s.lengthInByte .. Len(stream \o Trailer) \div 8 :
  /\ Octets(pos + n - 1, 1)[8] = 0
  /\ \A m \in s.lengthInByte .. n - 1 : Octets(pos + m - 1, 1)[8] = 1

(* A repetitive subitem starts with the number of its repetitions.         *)
StartSubitem ==
  /\ pc = "next" /\ toParse # <<>>
  /\ sub' = Head(toParse) /\ toParse' = Tail(toParse)
  /\ LET s == item.subitems[Head(toParse)] IN
     CASE s.type = "Fixed"      -> pos' = pos /\ end' = pos + s.lengthInByte
       [] s.type = "Extended"   -> pos' = pos /\ end' = pos + ExtendedLength(s)
       [] s.type = "Repetitive" -> pos' = pos + 1 /\ end' = pos + 1 + Number(Octets(pos, 1)) * s.lengthInByte
  /\ i' = 1
  /\ pc' = "read"
  /\ UNCHANGED <<inputVars, decoded, found, notFound, toEncode, taken, bitVars, itemVars, parsed>>

Decoded(s) == IF Explicit THEN s.toBeDecoded ELSE item.toBeDecoded

Reading ==
  /\ pc = "read" /\ Decoded(Subitem)
  /\ CASE Subitem.type = "Fixed"      -> i <= ModuleSize(Subitem)
       [] Subitem.type = "Extended"   -> /\ i <= ModuleSize(Subitem)
                                         /\ i > 1 => BitsBefore(Subitem, i) \div 8 # end - pos
       [] Subitem.type = "Repetitive" -> Repetition(Subitem, i) < (end - pos) \div Subitem.lengthInByte

(* Mutant: the bits in front of the element are kept.                      *)
MutantDropBits(bits, n) == bits

DropBits(bits, n) == [k \in DOMAIN bits |-> IF k <= n THEN 0 ELSE bits[k]]

(* parseElement: the octets are shifted to the right end, one byte too     *)
(* many is overwritten by the next, the bits in front are masked.          *)
ElementValue(length, bitsParsed) ==
  LET offset == bitsParsed % 8
      octetsSize == Bytes(length) + (IF (length % 8) + offset > 8 THEN 1 ELSE 0)
      octets == Octets(pos + bitsParsed \div 8, octetsSize)
      shifted == ShiftRight(octets, Max({0, 8 * octetsSize - (length + offset)}))
      moved == IF octetsSize > Bytes(length)
               THEN SubSeq(shifted, 9, 16) \o SubSeq(shifted, 9, 8 * octetsSize)
               ELSE shifted
  IN Number(DropBits(SubSeq(moved, 1, 8 * Bytes(length)), 8 * Bytes(length) - length))

ReadElement ==
  /\ Reading
  /\ parsed' = IF Carries(Subitem, i)
               THEN Append(parsed, [sub |-> sub, name |-> Name(Subitem, i),
                                    value |-> ElementValue(Length, BitsBefore(Subitem, i))])
               ELSE parsed
  /\ i' = i + 1
  /\ UNCHANGED <<inputVars, pc, sub, decoded, found, notFound, toEncode, taken, bitVars, itemVars,
                 toParse, pos, end>>

EndSubitem ==
  /\ pc = "read" /\ ~Reading
  /\ pos' = end
  /\ pc' = "next"
  /\ UNCHANGED <<inputVars, sub, encoderVars, toParse, end, parsed>>

(* The RE and SP fields are as long as their first byte says.              *)
FinishParsing ==
  /\ pc = "next" /\ toParse = <<>>
  /\ pos' = IF Explicit THEN Number(Octets(0, 1)) ELSE pos
  /\ pc' = "done"
  /\ UNCHANGED <<inputVars, sub, encoderVars, toParse, end, parsed>>

ParsingA(type) ==
  \/ pc = "next" /\ toParse # <<>> /\ item.subitems[Head(toParse)].type = type
  \/ pc = "read" /\ Subitem.type = type

ParseElements == StartSubitem \/ ReadElement \/ EndSubitem

parseFixedLengthItem == ParsingA("Fixed") /\ ParseElements
parseExtendedLengthItem == ParsingA("Extended") /\ ParseElements
parseRepetitiveLengthItem == ParsingA("Repetitive") /\ ParseElements

ParseItem ==
  ReadHeader \/ parseFixedLengthItem \/ parseExtendedLengthItem \/ parseRepetitiveLengthItem \/ FinishParsing

parseSingleItem == item.type = "Plain" /\ ParseItem
parseCompoundLengthItem == item.type = "Compound" /\ ParseItem
parseExplicitLengthItem == Explicit /\ ParseItem
Parse == parseSingleItem \/ parseCompoundLengthItem \/ parseExplicitLengthItem

-----------------------------------------------------------------------------
Init ==
  /\ \E input \in Inputs : item = input.item /\ given = input.given
  /\ pc = "begin" /\ sub = 1
  /\ i = 1 /\ decoded = given /\ found = 0 /\ notFound = 0 /\ toEncode = 0 /\ taken = <<>>
  /\ part = <<>> /\ remainingByte = Zeros(8) /\ remaining = 0
  /\ \E g \in Garbage :
       indicator = IF item.type = "RE" THEN <<Zeros(8)>>
                   ELSE [b \in 1 .. IndicatorByte(Len(item.subitems) + 1) |-> [k \in 1 .. 8 |-> g]]
  /\ body = <<>> /\ written = <<>> /\ reported = {} /\ stream = <<>>
  /\ toParse = <<>> /\ pos = 0 /\ end = 0 /\ parsed = <<>>

Next == Encode \/ Parse

Spec == Init /\ [][Next]_vars

-----------------------------------------------------------------------------
(* calculateExtendedItemLength counts only extents of which everything is  *)
(* there: the "this point should be not reachable" of the encoder is not.  *)
ExtendedElementsAreThere ==
  (Encoding /\ Subitem.type = "Extended" /\ Carries(Subitem, i)) => Position(Name(Subitem, i)) # {}

(* The parser recovers the elements written, their names, values and order,*)
(* wherever in a byte they begin, but for those it is told not to decode.  *)
RoundTrip ==
  pc = "done" =>
    parsed = SelectSeq(written, LAMBDA w : item.toBeDecoded /\ Decoded(item.subitems[w.sub]))
=============================================================================
