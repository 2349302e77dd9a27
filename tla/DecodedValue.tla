----------------------------- MODULE DecodedValue ----------------------------
(***************************************************************************)
(* The classes of decoded values.  A value keeps its number and how it is  *)
(* to be represented; its text is a function of both.  A client sees the   *)
(* text, and a Record built from texts reads them back into numbers.       *)
(*                                                                         *)
(* A text of an integer is a sequence of digits, with a sign or an "0x"    *)
(* before it.  The digits behind the point of a float or double, which     *)
(* reading an integer ignores, are left out.                               *)
(***************************************************************************)
EXTENDS Integers, Sequences, FiniteSetsExt, SequencesExt

CONSTANTS
  ByteBits,       (* bits of a byte                                          *)
  IntBytes,       (* bytes of an int                                         *)
  LongBytes,      (* bytes of a long long                                    *)
  DecimalRadix,   (* stands for 10                                           *)
  OctalRadix,     (* stands for 8                                            *)
  Denominator     (* reals are multiples of 1/Denominator                    *)

IntBits == IntBytes * ByteBits
LongBits == LongBytes * ByteBits
HexRadix == 2 ^ (ByteBits \div 2)

Signed(v, width) ==
  LET u == v % 2 ^ width IN IF u >= 2 ^ (width - 1) THEN u - 2 ^ width ELSE u

Truncated(v) ==
  IF v >= 0 THEN v \div Denominator ELSE -((-v) \div Denominator)

-----------------------------------------------------------------------------
(* The classes.                                                            *)
Class(type, bits) == [type |-> type, bits |-> bits]

UnsignedInteger8bitValue == Class("Unsigned", ByteBits)
UnsignedInteger16bitValue == Class("Unsigned", 2 * ByteBits)
UnsignedInteger32bitValue == Class("Unsigned", IntBits)
UnsignedInteger64bitValue == Class("Unsigned", LongBits)
SignedInteger8bitValue == Class("Signed", ByteBits)
SignedInteger16bitValue == Class("Signed", 2 * ByteBits)
SignedInteger32bitValue == Class("Signed", IntBits)
SignedInteger64bitValue == Class("Signed", LongBits)
FloatValue == Class("FloatValue", 0)
DoubleValue == Class("DoubleValue", 0)
StringValue == Class("StringValue", 0)

IntegerTypes == {"Unsigned", "Signed"}

setDecodedValue(class, v, representation) ==
  [type |-> class.type, value |-> v,
   representation |-> IF class.type \in IntegerTypes THEN representation ELSE class.type]

-----------------------------------------------------------------------------
(* Texts of numbers.                                                       *)
DigitsOf(n, radix) ==
  LET digits[m \in 0 .. n] == IF m < radix THEN <<m>> ELSE Append(digits[m \div radix], m % radix)
  IN digits[n]

NumberOf(digits, radix) ==
  LET number[n \in 0 .. Len(digits)] == IF n = 0 THEN 0 ELSE radix * number[n - 1] + digits[n]
  IN number[Len(digits)]

Numeral(n, radix) ==
  [negative |-> n < 0, prefixed |-> radix = HexRadix,
   digits |-> DigitsOf(IF n < 0 THEN -n ELSE n, radix)]

(* Hexadecimal and octal digits show the value converted to an int, a      *)
(* negative one by its bits.                                               *)
getDecodedDataInString(x) ==
  LET n == IF x.type \in IntegerTypes THEN x.value[1] ELSE Truncated(x.value[1])
  IN CASE x.representation = "HexadecimalValue" -> Numeral(n % 2 ^ IntBits, HexRadix)
       [] x.representation = "OctalValue" -> Numeral(n % 2 ^ IntBits, OctalRadix)
       [] OTHER -> Numeral(n, DecimalRadix)

(* The number at the beginning of a text, <<>> when there is none: "0x" is *)
(* read over only in base 16, in any other it is a zero.                   *)
ReadIn(text, radix) ==
  LET others == {i \in DOMAIN text.digits : text.digits[i] >= radix}
      digits == IF text.prefixed /\ radix # HexRadix THEN <<0>>
                ELSE IF others = {} THEN text.digits
                ELSE SubSeq(text.digits, 1, Min(others) - 1)
      n == NumberOf(digits, radix)
  IN IF digits = <<>> THEN <<>> ELSE <<IF text.negative THEN -n ELSE n>>

(* stoi: it throws, <<>>, when there is no number or none of an int.       *)
stoi(text, radix) ==
  LET n == ReadIn(text, radix)
  IN IF n = <<>> THEN <<>> ELSE IF Signed(n[1], IntBits) = n[1] THEN n ELSE <<>>

(* atoi: no number is 0, a larger one than a long loses its upper bits.    *)
atoi(text) ==
  LET n == ReadIn(text, DecimalRadix) IN IF n = <<>> THEN 0 ELSE Signed(n[1], IntBits)

(* The conversion of an int to the type of the class.                      *)
CastTo(class, i) ==
  IF class.type = "Signed" THEN Signed(i, class.bits) ELSE i % 2 ^ class.bits

(* The value that a Record makes of a text: the small unsigned classes     *)
(* read it with atoi, the others with stoi, which may throw.               *)
ValueOfText(class, text) ==
  LET i == IF class.type = "Unsigned" /\ class.bits < LongBits
           THEN <<atoi(text)>> ELSE stoi(text, DecimalRadix)
  IN IF i = <<>> THEN <<>> ELSE <<setDecodedValue(class, <<CastTo(class, i[1])>>, "IntegerValue")>>

=============================================================================
