---------------------------- MODULE ElementCoding ---------------------------
(***************************************************************************)
(* The elements of a record: described by the category, decoded into       *)
(* values by decodeAllElementsOfRecord and encoded back by the item        *)
(* encoders.  The loader chooses the integer type of a value and the range *)
(* it may have; the decoder multiplies the bits by an LSB that it looks up *)
(* with the element before, converts the product to the type and reports   *)
(* what is out of range; the encoder looks the LSB up in its own way,      *)
(* divides and rounds.                                                     *)
(*                                                                         *)
(* Widths are parameters.  A double is an exact multiple of 1/Denominator; *)
(* the rounding of float and double is left out.                           *)
(***************************************************************************)
EXTENDS DecodedValue

CONSTANTS
  IcaoAlphabet,   (* the characters of a target identification, in sequence  *)
  Records         (* sequences of elements: external description and bits    *)

Integers == {"toDecimal", "toHexadecimal", "toOctal"}
TwosComplement == {"CA2toDecimal", "CA2toHexadecimal"}

ASSUME ElementAssumption ==
  /\ ByteBits \in Nat \ {0} /\ ByteBits % 2 = 0
  /\ IntBytes = 4 /\ LongBytes \in Nat /\ LongBytes > IntBytes
  /\ DecimalRadix \in 2 .. HexRadix /\ OctalRadix \in 2 .. DecimalRadix
  /\ Denominator \in Nat \ {0}

VARIABLES
  record,    (* the elements with their external descriptions and bits       *)
  described, (* what the loader made of the descriptions                     *)
  pc,        (* "load", "decode", "encode", "done" or how it broke off       *)
  k,         (* the element of the decoder's or of the encoder's loop        *)
  current,   (* elementValue, which lives across the turns of the loop       *)
  decoded,   (* decodedElementValues                                         *)
  given,     (* the values of the record handed to the encoder               *)
  built,     (* whether the client built that record from texts              *)
  decoderLsb, encoderLsb,  (* the LSB value used for each element            *)
  lsbIndex,  (* indexInLsbValues of the item encoder                         *)
  encoded,   (* the bits the encoder made of each element                    *)
  failures   (* the report: pairs of an element and a code                   *)

decoderVars == <<current, decoded, decoderLsb>>
clientVars == <<given, built>>
encoderVars == <<encoderLsb, lsbIndex, encoded>>
vars == <<record, described, pc, k, decoderVars, clientVars, encoderVars, failures>>

-----------------------------------------------------------------------------
(* Arithmetic of the machine.                                              *)
(* round of p / q, halves away from zero.                                  *)
Rounded(p, q) ==
  IF p >= 0 THEN (2 * p + q) \div (2 * q) ELSE -((q - 2 * p) \div (2 * q))

BytesFor(bits) == (bits + ByteBits - 1) \div ByteBits

ByteAt(raw, bits, j) == (raw \div 2 ^ (ByteBits * (BytesFor(bits) - j))) % 2 ^ ByteBits

-----------------------------------------------------------------------------
(* The loader.  A bound of a range is a number, gt(n), lt(n) or some text. *)
LsbValues(e) == [n \in DOMAIN e.lsb |-> IF e.lsb[n] = <<>> THEN Denominator ELSE e.lsb[n][1]]

(* An element has bits, a number in them, and an LSB, if only that of 1.   *)
(* Its item is an extended one or of another kind; an FX or a Spare, which *)
(* no decoded record holds, may stand just before it in the item.          *)
ASSUME RecordsAssumption ==
  \A r \in Records :
    /\ r \in Seq(ToSet(r))
    /\ \A e \in ToSet(r) :
         /\ e.bits \in Nat \ {0} /\ e.raw \in 0 .. 2 ^ e.bits - 1
         /\ LsbValues(e) \in Seq(Nat) /\ LsbValues(e) # <<>>
         /\ e.extended \in BOOLEAN /\ e.behindFiller \in BOOLEAN

(* Mutant: the type is chosen for the first LSB value only.                *)
MutantValueFits(e, bytes) ==
  2 ^ e.bits * LsbValues(e)[1] <= Denominator * 2 ^ (ByteBits * bytes)

(* 2^bits * maxLsb, whose logarithm is rounded up to bytes.                *)
ValueFits(e, bytes) ==
  2 ^ e.bits * Max(ToSet(LsbValues(e))) <= Denominator * 2 ^ (ByteBits * bytes)

(* "IntegerValue" becomes the smallest type that holds every value; any    *)
(* size but 1 to 4 bytes, 0 included, becomes the largest.                 *)
RepresentationMode(e) ==
  LET signed == e.function = "CA2toDecimal" IN
  CASE e.representation = "FloatValue" -> FloatValue
    [] e.representation = "DoubleValue" -> DoubleValue
    [] e.representation = "StringValue" -> StringValue
    [] e.representation = "HexadecimalValue" -> Class("HexadecimalValue", 0)
    [] OTHER ->
         CASE ValueFits(e, 1) /\ ~ValueFits(e, 0) ->
                IF signed THEN SignedInteger8bitValue ELSE UnsignedInteger8bitValue
           [] ValueFits(e, 2) /\ ~ValueFits(e, 1) ->
                IF signed THEN SignedInteger16bitValue ELSE UnsignedInteger16bitValue
           [] ValueFits(e, 4) /\ ~ValueFits(e, 2) ->
                IF signed THEN SignedInteger32bitValue ELSE UnsignedInteger32bitValue
           [] OTHER -> IF signed THEN SignedInteger64bitValue ELSE UnsignedInteger64bitValue

NoRange == [isEmpty |-> TRUE, min |-> 0, max |-> 0, isMinIncluded |-> TRUE, isMaxIncluded |-> TRUE]

WrongRange(range) ==
  \/ Len(range) > 2
  \/ \E n \in DOMAIN range : range[n].bound = "text"
  \/ Len(range) = 2 /\ (range[1].bound = "lt" \/ range[2].bound = "gt")

(* A single value leaves the range empty, which no value violates.         *)
RangeValues(range) ==
  IF Len(range) < 2 THEN NoRange
  ELSE [isEmpty |-> FALSE, min |-> range[1].value, max |-> range[2].value,
        isMinIncluded |-> range[1].bound # "gt", isMaxIncluded |-> range[2].bound # "lt"]

Load ==
  /\ pc = "load"
  /\ IF \E n \in DOMAIN record : WrongRange(record[n].range)
     THEN pc' = "loadError" /\ UNCHANGED described
     ELSE /\ described' = [n \in DOMAIN record |->
                             [lsb |-> LsbValues(record[n]),
                              mode |-> RepresentationMode(record[n]),
                              range |-> RangeValues(record[n].range)]]
          /\ pc' = "decode"
  /\ UNCHANGED <<record, k, decoderVars, clientVars, encoderVars, failures>>

-----------------------------------------------------------------------------
(* Decoding functions: the set of values one of them may return, nullptr   *)
(* when the type is not permitted.                                         *)
Null == [type |-> "nullptr", value |-> <<>>, representation |-> "nullptr"]

InRange(range, v) ==
  \/ range.isEmpty
  \/ /\ v > range.min \/ (range.isMinIncluded /\ v = range.min)
     /\ v < range.max \/ (range.isMaxIncluded /\ v = range.max)

TypeRange(mode) ==
  IF mode.type = "Signed" THEN -(2 ^ (mode.bits - 1)) .. 2 ^ (mode.bits - 1) - 1
  ELSE 0 .. 2 ^ mode.bits - 1

(* A double outside the integer type is undefined behaviour: the           *)
(* instructions of one build wrap around, those of another saturate.       *)
Converted(mode, v) ==
  LET t == Truncated(v)
      lowest == IF mode.type = "Signed" THEN -(2 ^ (mode.bits - 1)) ELSE 0
      highest == lowest + (2 ^ mode.bits - 1)
  IN IF t \in lowest .. highest THEN {t}
     ELSE {lowest + ((t - lowest) % 2 ^ mode.bits), IF t < lowest THEN lowest ELSE highest}

Stored(mode, v, representation) ==
  CASE mode.type \in IntegerTypes -> {setDecodedValue(mode, <<i>>, representation) : i \in Converted(mode, v)}
    [] mode.type \in {"DoubleValue", "FloatValue", "StringValue"} -> {setDecodedValue(mode, <<v>>, representation)}
    [] OTHER -> {Null}

Outcome(value, inRange) ==
  [value |-> value,
   codes |-> (IF inRange THEN {} ELSE {"OUT_OF_RANGE_DECODED_ELEMENT"})
             \cup (IF value = Null THEN {"UNKNOWN_REPRESENTATION_MODE"} ELSE {})]

(* The integers a function may read, times the LSB: the product is checked *)
(* against the range, then stored.                                         *)
Numbers(d, integers, lsb, representation) ==
  UNION {{Outcome(x, InRange(d.range, i * lsb)) : x \in Stored(d.mode, i * lsb, representation)} : i \in integers}

(* The bytes are or-ed into an int and shifted through it.                 *)
FromBytes(raw) == Signed(raw, IntBits)

toDecimal(e, d, lsb) == Numbers(d, {FromBytes(e.raw)}, lsb, "IntegerValue")

(* It differs from toDecimal in how the value is printed; toOctal does not. *)
toHexadecimal(e, d, lsb) == Numbers(d, {FromBytes(e.raw)}, lsb, "HexadecimalValue")
toOctal(e, d, lsb) == toDecimal(e, d, lsb)

(* (1 << bits) - 1: undefined from the width of an int on, where one build *)
(* shifts by bits modulo that width and another takes all bits.            *)
Masks(bits) ==
  IF bits < IntBits THEN {2 ^ bits - 1} ELSE {2 ^ (bits % IntBits) - 1, 2 ^ IntBits - 1}

Flipped(raw, bits) ==
  {-((2 ^ IntBits - 1 - (raw % 2 ^ IntBits)) % (m + 1)) - 1 : m \in Masks(bits)}

HighestBitOfByte(raw, bits) == ByteAt(raw, bits, 1) >= 2 ^ (ByteBits - 1)

(* Mutant: the sign is looked for where CA2toHexadecimal does.             *)
MutantCA2toDecimal(e, d, lsb) ==
  Numbers(d, IF HighestBitOfByte(e.raw, e.bits) THEN Flipped(e.raw, e.bits) ELSE {FromBytes(e.raw)}, lsb, "IntegerValue")

CA2toDecimal(e, d, lsb) ==
  Numbers(d, IF e.raw >= 2 ^ (e.bits - 1) THEN Flipped(e.raw, e.bits) ELSE {FromBytes(e.raw)}, lsb, "IntegerValue")

(* The sign is the highest bit of the first byte, wherever the element     *)
(* begins in it.                                                           *)
CA2toHexadecimal(e, d, lsb) ==
  Numbers(d, IF HighestBitOfByte(e.raw, e.bits) THEN Flipped(e.raw, e.bits) ELSE {FromBytes(e.raw)}, lsb, "HexadecimalValue")

StringOutcome(d, s) ==
  {Outcome(IF d.mode = StringValue THEN setDecodedValue(StringValue, s, "StringValue") ELSE Null, TRUE)}

(* From every byte a C string is appended, not a character.                *)
toAscii(e, d) ==
  LET byte == [j \in 1 .. BytesFor(e.bits) |-> ByteAt(e.raw, e.bits, j)]
      CString(j) == LET ends == {n \in j .. Len(byte) : byte[n] = 0}
                    IN SubSeq(byte, j, IF ends = {} THEN Len(byte) ELSE Min(ends) - 1)
  IN StringOutcome(d, FlattenSeq([j \in DOMAIN byte |-> CString(j)]))

CharBits == Min({b \in 1 .. ByteBits : 2 ^ b >= Len(IcaoAlphabet)})

(* A target identification holds whole characters, and the alphabet all    *)
(* that the bits of one can number: in the code always eight of six bits,  *)
(* of 64.                                                                  *)
ASSUME AlphabetAssumption ==
  /\ CharBits \in 1 .. ByteBits /\ DOMAIN IcaoAlphabet = 1 .. 2 ^ CharBits
  /\ \A r \in Records : \A e \in ToSet(r) : e.function = "toTargetId" => e.bits % CharBits = 0

toTargetId(e, d) ==
  LET chars == e.bits \div CharBits
  IN StringOutcome(d, [i \in 1 .. chars |->
       IcaoAlphabet[((e.raw \div 2 ^ (CharBits * (chars - i))) % 2 ^ CharBits) + 1]])

toMBData(e, d) == StringOutcome(d, <<e.raw>>)

(* What the decoding function of an element may return and report.  An     *)
(* unknown one returns nothing: the variable keeps the value it had.       *)
Decodings(e, d, lsb) ==
  CASE e.function = "toDecimal" -> toDecimal(e, d, lsb)
    [] e.function = "toHexadecimal" -> toHexadecimal(e, d, lsb)
    [] e.function = "toOctal" -> toOctal(e, d, lsb)
    [] e.function = "CA2toDecimal" -> CA2toDecimal(e, d, lsb)
    [] e.function = "CA2toHexadecimal" -> CA2toHexadecimal(e, d, lsb)
    [] e.function = "toASCII" -> toAscii(e, d)
    [] e.function = "toTargetId" -> toTargetId(e, d)
    [] e.function = "toMBData" -> toMBData(e, d)
    [] OTHER -> {[value |-> current, codes |-> {"DECODING_ERROR"}]}

-----------------------------------------------------------------------------
(* The decoder's loop.  With several LSB values the one to use is given by *)
(* the element before, whatever item it is of: its bytes are printed in    *)
(* hexadecimal and read as a decimal number.  The first and the last byte  *)
(* of an element that does not fill its bytes lose a leading zero.         *)
HexDigits(e) ==
  LET base == 2 ^ (ByteBits \div 2)
      last == BytesFor(e.bits)
      Digits(j) == LET b == ByteAt(e.raw, e.bits, j)
                   IN IF e.bits % ByteBits # 0 /\ j \in {1, last} /\ b < base
                      THEN <<b>> ELSE <<b \div base, b % base>>
  IN FlattenSeq([j \in 1 .. last |-> Digits(j)])

(* stoi reads up to the first character that is no digit and throws when   *)
(* that is the first one.                                                  *)
Stoi(digits) ==
  LET letters == {n \in DOMAIN digits : digits[n] >= DecimalRadix}
      number == IF letters = {} THEN digits ELSE SubSeq(digits, 1, Min(letters) - 1)
  IN IF number = <<>> THEN <<>> ELSE <<NumberOf(number, DecimalRadix)>>

Selected(n) ==
  IF Len(described[n].lsb) > 1 /\ n # 1 THEN Stoi(HexDigits(record[n - 1])) ELSE <<0>>

(* stoi or at() throws out of the loop and out of the decoder's task.      *)
SelectionThrows(n) ==
  IF Selected(n) = <<>> THEN TRUE ELSE Selected(n)[1] + 1 \notin DOMAIN described[n].lsb

Decode ==
  /\ pc = "decode" /\ k <= Len(record) /\ ~SelectionThrows(k)
  /\ LET lsb == described[k].lsb[Selected(k)[1] + 1] IN
       /\ \E o \in Decodings(record[k], described[k], lsb) :
            /\ current' = o.value
            /\ decoded' = Append(decoded, o.value)
            /\ failures' = failures \cup ({k} \X o.codes)
       /\ decoderLsb' = [decoderLsb EXCEPT ![k] = lsb]
  /\ k' = k + 1
  /\ UNCHANGED <<record, described, pc, clientVars, encoderVars>>

DecoderThrows ==
  /\ pc = "decode" /\ k <= Len(record) /\ SelectionThrows(k)
  /\ pc' = "decoderThrew"
  /\ UNCHANGED <<record, described, k, decoderVars, clientVars, encoderVars, failures>>

-----------------------------------------------------------------------------
(* The client: it hands the decoded values to the encoder as they are, or  *)
(* builds a record from their texts.  Octal and hexadecimal elements are   *)
(* read in base 8 and 16 first, and the text made of the number is used    *)
(* when its memory is free again: it may still be there or be no number.   *)
NoNumber == [negative |-> FALSE, prefixed |-> FALSE, digits |-> <<>>]

TextsFor(e, text) ==
  LET base == CASE e.function = "toHexadecimal" -> HexRadix
                [] e.function = "toOctal" -> OctalRadix
                [] OTHER -> 0
  IN IF base = 0 THEN {text}
     ELSE LET i == stoi(text, base)
          IN IF i = <<>> THEN {} ELSE {Numeral(i[1], DecimalRadix), NoNumber}

(* A text that is no number, or none of an int, throws in the constructor. *)
Rebuilt(n) ==
  LET class == described[n].mode  x == decoded[n] IN
  IF class = StringValue /\ record[n].function \notin {"toHexadecimal", "toOctal"} THEN {<<x>>}
  ELSE LET texts == TextsFor(record[n], getDecodedDataInString(x)) IN
       (IF texts = {} THEN {<<>>} ELSE {}) \cup
       CASE class.type \in IntegerTypes -> {ValueOfText(class, t) : t \in texts}
         [] class.type \notin IntegerTypes /\ record[n].function \notin {"toHexadecimal", "toOctal"} -> {<<x>>}
         [] OTHER -> {LET v == ReadIn(t, DecimalRadix)
                      IN IF v = <<>> /\ class # StringValue THEN <<>>
                         ELSE <<setDecodedValue(class, IF v = <<>> THEN v ELSE <<v[1] * Denominator>>, "")>>
                      : t \in texts}

HandOver ==
  /\ pc = "decode" /\ k > Len(record)
  /\ pc' = "encode" /\ k' = 1
  /\ given' = decoded
  /\ UNCHANGED <<record, described, decoderVars, built, encoderVars, failures>>

HasText(n) == decoded[n] # Null /\ record[n].function # "unknown"

BuildRecord ==
  /\ pc = "decode" /\ k > Len(record)
  /\ \A n \in DOMAIN record : HasText(n)
  /\ \E values \in [DOMAIN record -> UNION {Rebuilt(n) : n \in DOMAIN record}] :
       /\ \A n \in DOMAIN record : values[n] \in Rebuilt(n)
       /\ IF \E n \in DOMAIN record : values[n] = <<>>
          THEN pc' = "recordThrew" /\ UNCHANGED <<k, given>>
          ELSE pc' = "encode" /\ k' = 1 /\ given' = [n \in DOMAIN record |-> values[n][1]]
  /\ built' = TRUE
  /\ UNCHANGED <<record, described, decoderVars, encoderVars, failures>>

-----------------------------------------------------------------------------
(* Encoding functions: the bits they may return, <<>> for nullptr, and the *)
(* codes they report.                                                      *)
Bits(raw, codes) == [raw |-> <<raw>>, codes |-> codes]
NoBits(codes) == [raw |-> <<>>, codes |-> codes]

(* A double outside int becomes the lowest int in one build and wraps      *)
(* around in another.                                                      *)
ToInt(v) ==
  IF Signed(v, IntBits) = v THEN {v} ELSE {Signed(v, IntBits), -(2 ^ (IntBits - 1))}

getRawElement(i, bits) == i % 2 ^ bits

(* Mutant: the bounds of the range are always included.                    *)
MutantCheckValidityRange(d, v) ==
  IF d.range.isEmpty \/ v \in d.range.min .. d.range.max THEN {} ELSE {"OUT_OF_RANGE_ENCODED_ELEMENT"}

checkValidityRange(d, v) == IF InRange(d.range, v) THEN {} ELSE {"OUT_OF_RANGE_ENCODED_ELEMENT"}

(* Integers of every size go through an int, strings through stoi; without *)
(* a factor a float or double becomes 0.                                   *)
encodeDecimal(e, d, lsb, x) ==
  LET int == IF x.type = "StringValue" THEN Truncated(x.value[1]) ELSE Signed(x.value[1], IntBits)
      real == x.type \in {"FloatValue", "DoubleValue"}
      scaled == IF real THEN x.value[1] ELSE int * Denominator
      codes == IF x.type = "StringValue" THEN {} ELSE checkValidityRange(d, scaled)
      results == IF lsb # 0 THEN ToInt(Rounded(scaled, lsb)) ELSE {IF real THEN 0 ELSE int}
  IN {Bits(getRawElement(i, e.bits), codes) : i \in results}

encodeDecimalToCA2(e, d, lsb, x) == encodeDecimal(e, d, lsb, x)

NotAString == NoBits({"UNKNOWN_REPRESENTATION_MODE"})

(* The bytes behind the terminator are whatever memory holds.              *)
encodeAscii(e, x) ==
  IF x.type # "StringValue" THEN {NotAString}
  ELSE LET n == BytesFor(e.bits)
           byte(j, g) == IF j <= Len(x.value) THEN x.value[j] ELSE IF j = Len(x.value) + 1 THEN 0 ELSE g
       IN {Bits(NumberOf([j \in 1 .. n |-> byte(j, g)], 2 ^ ByteBits) \div 2 ^ (n * ByteBits - e.bits), {})
           : g \in {0, 2 ^ ByteBits - 1}}

IndexInAlphabet(c) == Min({i \in DOMAIN IcaoAlphabet : IcaoAlphabet[i] = c}) - 1

encodeTargetId(e, x) ==
  IF x.type # "StringValue" THEN {NotAString}
  ELSE {Bits(NumberOf([i \in DOMAIN x.value |-> IndexInAlphabet(x.value[i])], 2 ^ CharBits), {})}

(* Mutant: the number is read into an int.                                 *)
MutantEncodeMBData(e, x) ==
  IF x.type # "StringValue" THEN {NotAString}
  ELSE {Bits(getRawElement(Min({x.value[1], 2 ^ (IntBits - 1) - 1}), e.bits), {})}

(* Reading a number that is no long leaves the largest one.                *)
encodeMBData(e, x) ==
  IF x.type # "StringValue" THEN {NotAString}
  ELSE {Bits(getRawElement(Min({x.value[1], 2 ^ (LongBits - 1) - 1}), e.bits), {})}

Encodings(e, d, lsb, x) ==
  CASE e.function \in Integers -> encodeDecimal(e, d, lsb, x)
    [] e.function \in TwosComplement -> encodeDecimalToCA2(e, d, lsb, x)
    [] e.function = "toASCII" -> encodeAscii(e, x)
    [] e.function = "toTargetId" -> encodeTargetId(e, x)
    [] e.function = "toMBData" -> encodeMBData(e, x)
    [] OTHER -> {NoBits({"UNKNOWN_DECODING_FUNCTION", "UNKNOWN_REPRESENTATION_MODE"})}

-----------------------------------------------------------------------------
(* The loop of an item's encoder.  It remembers the value of the last      *)
(* integer element as the index of the LSB, read as one byte whatever its  *)
(* type; an element with one LSB resets it.                                *)
NextItem(n) ==
  Min({m \in n + 1 .. Len(record) + 1 : m > Len(record) \/ record[m].item # record[n].item})

(* An FX or a Spare has one LSB too.  The encoder of an extended item      *)
(* counts the LSBs before it looks at the name, so either one resets the   *)
(* index; the other encoders pass a Spare over first.                      *)
ResetByFiller(n) == record[n].extended /\ record[n].behindFiller

(* Mutant: a Spare resets the index in every kind of item.                 *)
MutantIndexUsed(n) ==
  IF Len(described[n].lsb) = 1 \/ record[n].behindFiller THEN 0 ELSE lsbIndex

IndexUsed(n) == IF Len(described[n].lsb) = 1 \/ ResetByFiller(n) THEN 0 ELSE lsbIndex

FirstByte(x) ==
  IF x.type \in IntegerTypes THEN {x.value[1] % 2 ^ ByteBits} ELSE 0 .. 2 ^ ByteBits - 1

LsbIndexAfter(n) ==
  IF NextItem(n) = n + 1 THEN {0}
  ELSE IF record[n].function \in Integers THEN FirstByte(given[n]) ELSE {IndexUsed(n)}

IndexOutside(n) == IndexUsed(n) >= Len(described[n].lsb)

(* stoi of a StringValue.                                                  *)
StringIsNoInt(n) ==
  /\ given[n].type = "StringValue" /\ record[n].function \in Integers \cup TwosComplement
  /\ IF given[n].value = <<>> THEN TRUE
     ELSE LET i == Truncated(given[n].value[1]) IN Signed(i, IntBits) # i

(* The encoder of an extended item looks the LSB up before the value.      *)
Throws(n) ==
  \/ IndexOutside(n) /\ (record[n].extended \/ given[n] # Null)
  \/ given[n] # Null /\ StringIsNoInt(n)

Encode ==
  /\ pc = "encode" /\ k <= Len(record) /\ given[k] # Null /\ ~Throws(k)
  /\ LET lsb == described[k].lsb[IndexUsed(k) + 1] IN
       \E b \in Encodings(record[k], described[k], lsb, given[k]) :
         /\ b.raw # <<>>
         /\ encoded' = [encoded EXCEPT ![k] = b.raw]
         /\ failures' = failures \cup ({k} \X b.codes)
         /\ encoderLsb' = [encoderLsb EXCEPT ![k] = lsb]
  /\ lsbIndex' \in LsbIndexAfter(k)
  /\ k' = k + 1
  /\ UNCHANGED <<record, described, pc, decoderVars, clientVars>>

WithoutItem(n) ==
  [m \in DOMAIN encoded |-> IF record[m].item = record[n].item THEN <<>> ELSE encoded[m]]

(* An element without a value or without bits: the item is not written.    *)
GiveUpItem ==
  /\ pc = "encode" /\ k <= Len(record) /\ ~Throws(k)
  /\ \/ given[k] = Null /\ UNCHANGED failures
     \/ /\ given[k] # Null
        /\ \E b \in Encodings(record[k], described[k], described[k].lsb[IndexUsed(k) + 1], given[k]) :
             b.raw = <<>> /\ failures' = failures \cup ({k} \X b.codes)
  /\ encoded' = WithoutItem(k)
  /\ lsbIndex' = 0
  /\ k' = NextItem(k)
  /\ UNCHANGED <<record, described, pc, decoderVars, clientVars, encoderLsb>>

EncoderThrows ==
  /\ pc = "encode" /\ k <= Len(record) /\ Throws(k)
  /\ pc' = "encoderThrew"
  /\ UNCHANGED <<record, described, k, decoderVars, clientVars, encoderVars, failures>>

EndEncoding ==
  /\ pc = "encode" /\ k > Len(record)
  /\ pc' = "done"
  /\ UNCHANGED <<record, described, k, decoderVars, clientVars, encoderVars, failures>>

-----------------------------------------------------------------------------
Init ==
  /\ record \in Records
  /\ pc = "load" /\ k = 1
  /\ described = <<>> /\ current = Null /\ decoded = <<>>
  /\ given = <<>> /\ built = FALSE
  /\ decoderLsb = [n \in DOMAIN record |-> 0]
  /\ encoderLsb = [n \in DOMAIN record |-> 0]
  /\ lsbIndex = 0 /\ encoded = [n \in DOMAIN record |-> <<>>]
  /\ failures = {}

Next ==
  \/ Load
  \/ Decode \/ DecoderThrows \/ HandOver \/ BuildRecord
  \/ Encode \/ GiveUpItem \/ EncoderThrows \/ EndEncoding

Spec == Init /\ [][Next]_vars

-----------------------------------------------------------------------------
(* The number an element stands for.                                       *)
Meaning(e) ==
  IF e.function \in TwosComplement /\ e.raw >= 2 ^ (e.bits - 1) THEN e.raw - 2 ^ e.bits ELSE e.raw

(* Functions that read the number as it is, for elements narrower than an  *)
(* int; CA2toHexadecimal does when the element fills its bytes.            *)
ReadAsMeant(e) ==
  /\ e.function \in Integers \cup TwosComplement /\ e.bits < IntBits
  /\ e.function = "CA2toHexadecimal" => e.bits % ByteBits = 0

(* The type that the loader derives from the length and the largest LSB    *)
(* holds the value of every element the decoder reads, whichever LSB the   *)
(* element before selects.                                                 *)
ValueFitsType ==
  \A n \in DOMAIN decoded :
    (ReadAsMeant(record[n]) /\ record[n].representation = "IntegerValue"
       /\ record[n].function # "CA2toHexadecimal")
      => Truncated(Meaning(record[n]) * decoderLsb[n]) \in TypeRange(described[n].mode)

(* A value that is not what the bits of its own element mean is reported:  *)
(* the variable that lives across the turns of the loop, a type that is    *)
(* not permitted and the sign bit never put a wrong number in a record     *)
(* unnoticed.                                                              *)
WrongValueIsReported ==
  \A n \in DOMAIN decoded :
    \/ \E code \in {"DECODING_ERROR", "UNKNOWN_REPRESENTATION_MODE"} : <<n, code>> \in failures
    \/ record[n].function \notin Integers \cup TwosComplement
    \/ ~ReadAsMeant(record[n])
    \/ described[n].mode.type = "Unsigned" /\ Meaning(record[n]) < 0
    \/ LET meant == Meaning(record[n]) * decoderLsb[n]
       IN decoded[n].value =
            <<IF described[n].mode.type \in {"Signed", "Unsigned"} THEN Truncated(meant) ELSE meant>>

(* A text that reads back as the number it shows.                          *)
ReadsBack(n) ==
  ~(record[n].function = "CA2toHexadecimal" /\ described[n].mode.type \in IntegerTypes)
    /\ record[n].function \notin {"toHexadecimal", "toOctal"}

(* The element before, in the same item, is a small integer as it is, and  *)
(* reads back from its text if the client built the record from texts.  In *)
(* an extended item neither an FX nor a Spare stands between the two: the  *)
(* decoder selects across it, the encoder takes the first LSB.             *)
SelectedByDigit(n) ==
  /\ n > 1 /\ record[n].item = record[n - 1].item
  /\ ~(record[n].extended /\ record[n].behindFiller)
  /\ built => ReadsBack(n - 1)
  /\ record[n - 1].function \in Integers /\ record[n - 1].bits <= ByteBits
  /\ described[n - 1].lsb = <<Denominator>>
  /\ described[n - 1].mode.type = "Unsigned"
  /\ record[n - 1].raw < DecimalRadix

(* Decoder and encoder find the LSB by different means: the one in the     *)
(* bytes of the element before, the other in the last value encoded.  They *)
(* agree for an element with one LSB, and for one that a digit of the same *)
(* item selects with no FX or Spare between them; across a Spare they do   *)
(* in an item that is not extended.                                        *)
SameLsb ==
  \A n \in DOMAIN record :
    (pc = "done" /\ encoded[n] # <<>> /\ (Len(described[n].lsb) = 1 \/ SelectedByDigit(n)))
      => encoderLsb[n] = decoderLsb[n]

(* An element that its type and LSB represent exactly; the encoder takes   *)
(* integers through an int.                                                *)
Exact(n) ==
  LET e == record[n] IN
  /\ built => ReadsBack(n)
  /\ Len(described[n].lsb) = 1 \/ SelectedByDigit(n)
  /\ \/ /\ ReadAsMeant(e) /\ decoderLsb[n] > 0
        /\ \/ described[n].mode.type \in {"FloatValue", "DoubleValue"}
           \/ /\ described[n].mode.type \in {"Signed", "Unsigned", "StringValue"}
              /\ decoderLsb[n] % Denominator = 0
              /\ LET i == Meaning(e) * (decoderLsb[n] \div Denominator)
                 IN Signed(i, IntBits) = i
              /\ e.function # "CA2toHexadecimal" \/ Meaning(e) >= 0
     \/ /\ e.function = "toASCII" /\ e.bits % ByteBits = 0
        /\ \A j \in 1 .. BytesFor(e.bits) : ByteAt(e.raw, e.bits, j) # 0
     \/ e.function = "toMBData" /\ e.bits < LongBits
     \/ /\ e.function = "toTargetId" /\ decoded[n].type = "StringValue"
        /\ \A i \in DOMAIN decoded[n].value :
             Cardinality({a \in DOMAIN IcaoAlphabet : IcaoAlphabet[a] = decoded[n].value[i]}) = 1

(* What was decoded is encoded to the bits it came from, whatever comes    *)
(* before it in the record, also when a client takes the texts of the      *)
(* values and builds a new record from them.                               *)
RoundTrip ==
  pc = "done" =>
    \A n \in DOMAIN record :
      (Exact(n) /\ encoded[n] # <<>>) => encoded[n] = <<record[n].raw>>

(* Decoder and encoder, which check before and after the conversion, agree *)
(* on whether an exact number is in its range.                             *)
RangeVerdictsAgree ==
  pc = "done" =>
    \A n \in DOMAIN record :
      (Exact(n) /\ ReadAsMeant(record[n]) /\ described[n].mode.type # "StringValue" /\ encoded[n] # <<>>)
        => (<<n, "OUT_OF_RANGE_DECODED_ELEMENT">> \in failures
              <=> <<n, "OUT_OF_RANGE_ENCODED_ELEMENT">> \in failures)

=============================================================================
