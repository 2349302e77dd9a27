------------------------------ MODULE JsonLexer ------------------------------
(***************************************************************************)
(* The lexer the library reads its description files with (json.hpp,       *)
(* class lexer and the stream adapter below it): bytes to tokens.          *)
(*                                                                         *)
(* Bytes are numbers; Scan reads the token behind the bytes already read.  *)
(* The 64-bit integers and the double are as wide as the constants say;    *)
(* error messages, the rounding of a double and the decimal point of other *)
(* locales are left out.                                                   *)
(***************************************************************************)
EXTENDS Integers, Sequences, SequencesExt, FiniteSetsExt, TLC

CONSTANTS
  UnsignedMax,  (* the largest number_unsigned_t                             *)
  IntegerMax,   (* the largest number_integer_t, one less than the smallest  *)
  FloatDigits   (* digits before the point of the largest number_float_t     *)

ASSUME LexerAssumption ==
  IntegerMax \in Nat /\ UnsignedMax \in Nat /\ IntegerMax < UnsignedMax /\ FloatDigits \in Nat

EOF == -1
Quote == 34
Backslash == 92
Blank == {32, 9, 10, 13}
Digit == 48 .. 57
Exponent == {69, 101}
Sign == {43, 45}

(* get(): the character at a place, EOF behind the last one.               *)
Char(bytes, i) == IF i \in DOMAIN bytes THEN bytes[i] ELSE EOF

(* The adapter skips a byte order mark, and nothing less of it.            *)
ByteOrderMark == <<239, 187, 191>>
Start(bytes) ==
  IF Len(bytes) >= 3 /\ SubSeq(bytes, 1, 3) = ByteOrderMark THEN 3 ELSE 0

(* A token: its type, the text or the number it carries and the number of  *)
(* characters read up to its end.                                          *)
Token(type, value, at) == [type |-> type, value |-> value, at |-> at]
ParseError(at) == Token("parse_error", <<>>, at)

-----------------------------------------------------------------------------
(* Strings.  One turn of the loop of scan_string reads a unit: a character,*)
(* an escape sequence or the bytes of a multibyte character.               *)
Unit(text, length) == [text |-> text, length |-> length]
IllFormed == Unit(<<>>, 0)

HexValue(c) ==
  CASE c \in Digit     -> c - 48
    [] c \in 65 .. 70  -> c - 55
    [] c \in 97 .. 102 -> c - 87
    [] OTHER           -> -1

(* get_codepoint, of the four characters behind place i.                   *)
Codepoint(bytes, i) ==
  LET hex == [n \in 1 .. 4 |-> HexValue(Char(bytes, i + n))]
  IN IF \E n \in 1 .. 4 : hex[n] < 0
     THEN -1
     ELSE 4096 * hex[1] + 256 * hex[2] + 16 * hex[3] + hex[4]

Utf8(c) ==
  CASE c < 128    -> <<c>>
    [] c \in 128 .. 2047 -> <<192 + c \div 64, 128 + (c % 64)>>
    [] c \in 2048 .. 65535 -> <<224 + c \div 4096, 128 + ((c \div 64) % 64), 128 + (c % 64)>>
    [] OTHER      -> <<240 + c \div 262144, 128 + ((c \div 4096) % 64), 128 + ((c \div 64) % 64), 128 + (c % 64)>>

HighSurrogate == 55296 .. 56319
LowSurrogate == 56320 .. 57343

(* \uXXXX, two of them for a character outside the basic plane.            *)
UnicodeEscape(bytes, i) ==
  LET first == Codepoint(bytes, i + 1)
      second == IF Char(bytes, i + 6) = Backslash /\ Char(bytes, i + 7) = 117
                THEN Codepoint(bytes, i + 7) ELSE -1
  IN CASE first = -1 \/ first \in LowSurrogate -> IllFormed
       [] first \in HighSurrogate ->
            IF second \in LowSurrogate THEN Unit(Utf8(1024 * first + second - 56613888), 12)
            ELSE IllFormed
       [] OTHER -> Unit(Utf8(first), 6)

(* The characters that stand for themselves or for a control character     *)
(* behind a backslash.                                                     *)
Escaped(c) ==
  CASE c \in {Quote, Backslash, 47} -> c
    [] c = 98  -> 8
    [] c = 102 -> 12
    [] c = 110 -> 10
    [] c = 114 -> 13
    [] c = 116 -> 9
    [] OTHER   -> -1

EscapeSequence(bytes, i) ==
  LET c == Char(bytes, i + 1)
  IN CASE c = 117          -> UnicodeEscape(bytes, i)
       [] Escaped(c) # -1  -> Unit(<<Escaped(c)>>, 2)
       [] OTHER            -> IllFormed

(* Control characters are not allowed, everything else in ASCII is kept.   *)
Plain == 32 .. 127

(* What next_byte_in_range is asked for behind the first byte of a         *)
(* character outside ASCII; nothing may follow what is no first byte.      *)
Trailing == 128 .. 191
Continuation(c) ==
  CASE c \in 194 .. 223 -> <<Trailing>>
    [] c = 224 -> <<160 .. 191, Trailing>>
    [] c \in (225 .. 236) \cup {238, 239} -> <<Trailing, Trailing>>
    [] c = 237 -> <<128 .. 159, Trailing>>
    [] c = 240 -> <<144 .. 191, Trailing, Trailing>>
    [] c \in 241 .. 243 -> <<Trailing, Trailing, Trailing>>
    [] c = 244 -> <<128 .. 143, Trailing, Trailing>>
    [] OTHER -> <<>>

MultiByte(bytes, i) ==
  LET ranges == Continuation(bytes[i])
  IN IF ranges # <<>> /\ \A n \in DOMAIN ranges : Char(bytes, i + n) \in ranges[n]
     THEN Unit(SubSeq(bytes, i, i + Len(ranges)), 1 + Len(ranges))
     ELSE IllFormed

UnitAt(bytes, i) ==
  CASE bytes[i] = Backslash -> EscapeSequence(bytes, i)
    [] bytes[i] \in Plain \ {Backslash} -> Unit(<<bytes[i]>>, 1)
    [] OTHER -> MultiByte(bytes, i)

(* From the opening quote at place i to the closing one.                   *)
ScanString(bytes, i) ==
  LET Read[j \in i + 1 .. Len(bytes) + 1] ==
        IF j > Len(bytes) THEN ParseError(j)
        ELSE IF bytes[j] = Quote THEN Token("value_string", <<>>, j)
        ELSE LET unit == UnitAt(bytes, j)
             IN IF unit = IllFormed THEN ParseError(j)
                ELSE LET rest == Read[j + unit.length]
                     IN [rest EXCEPT !.value = unit.text \o @]
  IN Read[i + 1]

-----------------------------------------------------------------------------
(* Numbers: the automaton of scan_number, one state for each label.        *)
NumberState == {"minus", "zero", "any1", "decimal1", "decimal2", "exponent", "sign", "any2", "done", "error"}

NumberStart(c) == IF c = 45 THEN "minus" ELSE IF c = 48 THEN "zero" ELSE "any1"

IntegerPart(state, c) ==
  CASE state = "minus" /\ c = 48 -> "zero"
    [] state = "minus" /\ c \in Digit \ {48} -> "any1"
    [] state = "any1" /\ c \in Digit -> "any1"
    [] state \in {"zero", "any1"} /\ c = 46 -> "decimal1"
    [] state \in {"zero", "any1"} /\ c \in Exponent -> "exponent"
    [] OTHER -> IF state = "minus" THEN "error" ELSE "done"

FractionPart(state, c) ==
  CASE c \in Digit -> "decimal2"
    [] state = "decimal2" /\ c \in Exponent -> "exponent"
    [] OTHER -> IF state = "decimal2" THEN "done" ELSE "error"

ExponentPart(state, c) ==
  CASE c \in Digit -> "any2"
    [] state = "exponent" /\ c \in Sign -> "sign"
    [] OTHER -> IF state = "any2" THEN "done" ELSE "error"

Follow(state, c) ==
  CASE state \in {"minus", "zero", "any1"}    -> IntegerPart(state, c)
    [] state \in {"decimal1", "decimal2"}     -> FractionPart(state, c)
    [] state \in {"exponent", "sign", "any2"} -> ExponentPart(state, c)

(* strtoull, strtoll and strtod: the digits of the text without its point, *)
(* and the power of ten the text multiplies them with.                     *)
Number(digits) == FoldLeft(LAMBDA n, d : 10 * n + d - 48, 0, digits)

Decimal(text) ==
  LET mantissaEnd == CHOOSE n \in 0 .. Len(text) :
        /\ n = Len(text) \/ text[n + 1] \in Exponent
        /\ \A m \in 1 .. n : text[m] \notin Exponent
      mantissa == SubSeq(text, 1, mantissaEnd)
      points == {n \in DOMAIN mantissa : mantissa[n] = 46}
      fraction == IF points = {} THEN 0 ELSE mantissaEnd - CHOOSE n \in points : TRUE
      power == SelectSeq(SubSeq(text, mantissaEnd + 2, Len(text)), LAMBDA c : c \in Digit)
      negative == mantissaEnd + 2 <= Len(text) /\ text[mantissaEnd + 2] = 45
      significant == Number(SelectSeq(mantissa, LAMBDA c : c \in Digit))
  IN <<IF mantissa[1] = 45 THEN -significant ELSE significant,
       (IF negative THEN -Number(power) ELSE Number(power)) - fraction>>

(* std::isfinite of the double: a text whose first digit lies too far      *)
(* before the point is read as infinity.                                   *)
Places[n \in Nat] == IF n = 0 THEN 0 ELSE 1 + Places[n \div 10]
Magnitude(n) == IF n < 0 THEN -n ELSE n
Finite(decimal) ==
  decimal[1] = 0 \/ Places[Magnitude(decimal[1])] + decimal[2] <= FloatDigits

(* Integers first, and a double for what is none or too large for one.     *)
Conversion(states, text, at) ==
  LET decimal == Decimal(text)
      whole == states \cap {"decimal1", "exponent"} = {}
  IN CASE whole /\ "minus" \notin states /\ decimal[1] <= UnsignedMax ->
            Token("value_unsigned", <<decimal[1]>>, at)
       [] whole /\ "minus" \in states /\ -decimal[1] <= IntegerMax + 1 ->
            Token("value_integer", <<decimal[1]>>, at)
       [] OTHER -> Token("value_float", decimal, at)

(* The automaton reads one character too many and gives it back.           *)
ScanNumber(bytes, i) ==
  LET Run[j \in i + 1 .. Len(bytes) + 1, states \in Seq(NumberState)] ==
        LET next == Follow(states[Len(states)], Char(bytes, j))
        IN CASE next = "error" -> ParseError(j)
             [] next = "done"  ->
                  Conversion({states[n] : n \in DOMAIN states}, SubSeq(bytes, i, j - 1), j - 1)
             [] OTHER -> Run[j + 1, Append(states, next)]
  IN Run[i + 1, <<NumberStart(bytes[i])>>]

-----------------------------------------------------------------------------
ScanLiteral(bytes, i, text, type) ==
  IF \A n \in DOMAIN text : Char(bytes, i + n - 1) = text[n]
  THEN Token(type, <<>>, i + Len(text) - 1)
  ELSE ParseError(i)

Structural ==
  91 :> "begin_array" @@ 93 :> "end_array" @@ 123 :> "begin_object" @@ 125 :> "end_object"
    @@ 58 :> "name_separator" @@ 44 :> "value_separator"

(* scan(): the token behind the first `at` characters.                     *)
Scan(bytes, at) ==
  LET i == CHOOSE j \in at + 1 .. Max({at, Len(bytes)}) + 1 :
             /\ Char(bytes, j) \notin Blank
             /\ \A k \in at + 1 .. j - 1 : bytes[k] \in Blank
      c == Char(bytes, i)
  IN CASE c \in DOMAIN Structural -> Token(Structural[c], <<>>, i)
       [] c = 116 -> ScanLiteral(bytes, i, <<116, 114, 117, 101>>, "literal_true")
       [] c = 102 -> ScanLiteral(bytes, i, <<102, 97, 108, 115, 101>>, "literal_false")
       [] c = 110 -> ScanLiteral(bytes, i, <<110, 117, 108, 108>>, "literal_null")
       [] c = Quote -> ScanString(bytes, i)
       [] c \in {45} \cup Digit -> ScanNumber(bytes, i)
       [] c \in {0, EOF} -> Token("end_of_input", <<>>, i)
       [] OTHER -> ParseError(i)
=============================================================================
