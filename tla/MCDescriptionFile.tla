-------------------------- MODULE MCDescriptionFile --------------------------
(* Model-checking instance of DescriptionFile: short texts of every kind.  *)
EXTENDS DescriptionFile

(* Names are spelled with one letter each.                                 *)
Letters ==
  <<"name", "type", "lengthInByte", "elements", "uap", "mandatory", "categories", "categoriesFilterFile",
    "categoryNumber", "uapAndMandatoryItemsFile", "itemsDescriptionFile", "refDescriptionFile",
    "spfDescriptionFile", "filterFile", "dataSourcesInDec", "default", "itemCollection",
    "compoundSubitemCollection", "FixedLength", "ExtendedLength", "RepetitiveLength", "CompoundLength",
    "ExplicitLength">>
MCSpelling == [word \in ToSet(Letters) |-> <<96 + CHOOSE n \in DOMAIN Letters : Letters[n] = word>>]

-----------------------------------------------------------------------------
(* Lexemes: the bytes, and the token they are.                             *)
L(bytes, type, value) == [bytes |-> bytes, type |-> type, value |-> value]
Bracket(c) == L(<<c>>, Structural[c], <<>>)
Open == Bracket(123)
Closed == Bracket(125)
First == Bracket(91)
Last1 == Bracket(93)
Colon == Bracket(58)
Comma == Bracket(44)
True == L(<<116, 114, 117, 101>>, "literal_true", <<>>)
False == L(<<102, 97, 108, 115, 101>>, "literal_false", <<>>)
Null == L(<<110, 117, 108, 108>>, "literal_null", <<>>)
Bad(bytes) == L(bytes, "bad", <<>>)
Str(text) == L(<<Quote>> \o text \o <<Quote>>, "value_string", text)
One == L(<<49>>, "value_unsigned", <<1>>)

Join(lexemes, blank) == FlattenSeq([n \in DOMAIN lexemes |-> lexemes[n].bytes \o blank])
Text1(lexemes, blank) ==
  [bytes |-> Join(lexemes, blank), lexemes |-> lexemes, class |-> "ExternalItem", meant |-> {}, unfit |-> FALSE]
Alone(lexeme) == Text1(<<First, lexeme, Last1>>, <<>>)

(* Every text of up to four of these lexemes.                              *)
Alphabet == {Open, Closed, First, Last1, Colon, Comma, Str(<<97>>), One}
ShortTexts == {Text1(t, <<32>>) : t \in UNION {[1 .. n -> Alphabet] : n \in 1 .. 4}}

(* Longer texts, and what becomes of them when a lexeme is left out or     *)
(* replaced.                                                               *)
S(n) == Str(<<n>>)
LongTexts ==
  {<<Open, S(97), Colon, One, Comma, S(98), Colon, First, True, Comma, S(98), Last1, Closed>>,
   <<First, First, Last1, Comma, Open, S(97), Colon, Open, Closed, Closed, Comma, Null, Last1>>,
   <<Open, S(97), Colon, One, Comma, S(97), Colon, False, Comma, S(97), Colon, Null, Closed>>}
Edits(t) ==
  {t} \cup {RemoveAt(t, n) : n \in DOMAIN t}
    \cup {[t EXCEPT ![n] = lexeme] : n \in DOMAIN t, lexeme \in Alphabet}
EditedTexts == {Text1(t, <<10>>) : t \in UNION {Edits(t) : t \in LongTexts}}

-----------------------------------------------------------------------------
(* Numbers: their parts, and every text that looks like a number.          *)
Integers1 == {<<48>>, <<57>>, <<57, 57>>, <<49, 48, 48>>, <<49, 48, 49>>, <<49, 57, 57>>, <<50, 48, 48>>}
Fractions == {<<>>, <<48>>, <<53>>, <<48, 53>>}
Powers == {<<>>, <<48>>, <<50>>, <<48, 51>>}
Signs == {<<>>, <<43>>, <<45>>}

NumberLexeme(minus, whole, fraction, sign, power) ==
  LET digits == Number(whole \o fraction)
      exact == (IF minus THEN -1 ELSE 1) * digits
      tens == (IF sign = <<45>> THEN -1 ELSE 1) * Number(power)
      type == CASE fraction # <<>> \/ power # <<>> -> "value_float"
                [] minus -> IF digits <= IntegerMax + 1 THEN "value_integer" ELSE "value_float"
                [] OTHER -> IF digits <= UnsignedMax THEN "value_unsigned" ELSE "value_float"
  IN L((IF minus THEN <<45>> ELSE <<>>) \o whole
         \o (IF fraction = <<>> THEN <<>> ELSE <<46>> \o fraction)
         \o (IF power = <<>> THEN <<>> ELSE <<69>> \o sign \o power),
       type, IF type = "value_float" THEN <<exact, tens - Len(fraction)>> ELSE <<exact>>)

Numbers1 ==
  {NumberLexeme(m, w, f, s, p) : m \in BOOLEAN, w \in Integers1, f \in Fractions, s \in Signs, p \in Powers}

IsInteger(t) == t # <<>> /\ \A n \in DOMAIN t : t[n] \in Digit
IsNumber(t) ==
  LET u == IF t # <<>> /\ t[1] = 45 THEN Tail(t) ELSE t
  IN \E m \in 0 .. Len(u), n \in 0 .. Len(u) :
       /\ m <= n
       /\ LET whole == SubSeq(u, 1, m)
              fraction == SubSeq(u, m + 1, n)
              power == SubSeq(u, n + 1, Len(u))
          IN /\ IsInteger(whole) /\ (Len(whole) = 1 \/ whole[1] # 48)
             /\ fraction = <<>> \/ (fraction[1] = 46 /\ IsInteger(Tail(fraction)))
             /\ \/ power = <<>>
                \/ power[1] = 101
                   /\ (IsInteger(Tail(power)) \/ (Len(power) > 1 /\ power[2] \in Sign /\ IsInteger(SubSeq(power, 3, Len(power)))))
NumberLike == UNION {[1 .. n -> {48, 49, 45, 43, 46, 101}] : n \in 1 .. 4}
NumberTexts ==
  {Alone(n) : n \in Numbers1} \cup {Alone(Bad(t)) : t \in {t \in NumberLike : ~IsNumber(t)}}

-----------------------------------------------------------------------------
(* Strings: pieces that stand for a character, and pieces that do not.     *)
Scalars == {128, 2047, 2048, 55295, 57344, 65535, 65536, 1114111}
Hex(n) == IF n < 10 THEN 48 + n ELSE 87 + n
FourDigits(c) == <<Hex(c \div 4096), Hex((c \div 256) % 16), Hex((c \div 16) % 16), Hex(c % 16)>>
U(c) == <<92, 117>> \o FourDigits(c)
EscapedAs(c) ==
  IF c < 65536 THEN U(c) ELSE U(55296 + (c - 65536) \div 1024) \o U(56320 + ((c - 65536) % 1024))

(* Bits of the bytes of a multibyte character, and the table of Unicode.   *)
CodepointOf(t) ==
  CASE Len(t) = 1 -> t[1]
    [] Len(t) = 2 -> (t[1] - 192) * 64 + t[2] - 128
    [] Len(t) = 3 -> (t[1] - 224) * 4096 + (t[2] - 128) * 64 + t[3] - 128
    [] Len(t) = 4 -> (t[1] - 240) * 262144 + (t[2] - 128) * 4096 + (t[3] - 128) * 64 + t[4] - 128
LeadOf(t) == CASE Len(t) = 1 -> 0 .. 127 [] Len(t) = 2 -> 192 .. 223 [] Len(t) = 3 -> 224 .. 239 [] OTHER -> 240 .. 247
Smallest(t) == CASE Len(t) = 1 -> 0 [] Len(t) = 2 -> 128 [] Len(t) = 3 -> 2048 [] OTHER -> 65536
IsCharacter(t) ==
  /\ t[1] \in LeadOf(t) /\ \A n \in 2 .. Len(t) : t[n] \in 128 .. 191
  /\ CodepointOf(t) \in Smallest(t) .. 1114111 /\ CodepointOf(t) \notin 55296 .. 57343
RECURSIVE IsUtf8(_)
IsUtf8(t) ==
  t = <<>> \/ \E n \in 1 .. Min({4, Len(t)}) : IsCharacter(SubSeq(t, 1, n)) /\ IsUtf8(SubSeq(t, n + 1, Len(t)))

Lead == {127, 128, 191, 192, 193, 194, 223, 224, 225, 236, 237, 238, 239, 240, 241, 243, 244, 245, 255}
ByteTexts ==
  {<<a>> : a \in Lead} \cup {<<a, b>> : a \in Lead, b \in {127, 128, 191, 192}}
    \cup {<<a, b, c>> : a \in Lead \ (127 .. 193), b \in {127, 128, 143, 144, 159, 160, 191, 192}, c \in {127, 128, 191}}
    \cup {<<a, b, c, d>> : a \in 239 .. 245, b \in {127, 128, 143, 144, 191, 192}, c \in {128, 191, 192}, d \in {127, 128, 191}}

Encoded(c) == CHOOSE t \in ByteTexts \cup {Utf8(c)} : IsCharacter(t) /\ CodepointOf(t) = c
Piece(bytes, text) == [bytes |-> bytes, text |-> text]
Pieces ==
  {Piece(EscapedAs(c), Encoded(c)) : c \in Scalars} \cup {Piece(t, t) : t \in {<<97>>, <<127>>, <<47>>}}
    \cup {Piece(<<92, 34>>, <<34>>), Piece(<<92, 92>>, <<92>>), Piece(<<92, 47>>, <<47>>), Piece(<<92, 98>>, <<8>>),
          Piece(<<92, 102>>, <<12>>), Piece(<<92, 110>>, <<10>>), Piece(<<92, 114>>, <<13>>),
          Piece(<<92, 116>>, <<9>>), Piece(<<92, 117, 48, 48, 52, 65>>, <<74>>)}
NoPieces ==
  {<<31>>, <<10>>, <<0>>, <<92, 120>>, <<92, 117, 48, 48, 52, 120>>, <<92, 117, 48, 48, 103, 49>>, U(55296), U(56319), U(56320),
   U(55296) \o U(65), U(55296) \o <<97>>, U(55296) \o U(55296), U(57343)}

StringTexts ==
  {Alone(L(<<Quote>> \o p.bytes \o q.bytes \o <<Quote>>, "value_string", p.text \o q.text)) : p, q \in Pieces}
    \cup {Alone(Bad(<<Quote>> \o b \o <<97, Quote>>)) : b \in NoPieces}
    \cup {Alone(IF IsUtf8(t) THEN Str(t) ELSE Bad(<<Quote>> \o t \o <<Quote>>)) : t \in ByteTexts}
    \cup {Text1(<<First, Bad(<<Quote>> \o b)>>, <<>>) : b \in {<<>>, <<97>>, <<92>>, <<195>>}}

LiteralTexts ==
  {Alone(Bad(b)) : b \in {<<116, 114, 117>>, <<110, 117, 108, 76>>, <<84>>, <<102, 97, 108, 115, 115>>, <<11>>, <<39, 39>>}}
    \cup {Alone(l) : l \in {True, False, Null}} \cup {Text1(<<>>, b) : b \in {<<>>, <<0>>}}

-----------------------------------------------------------------------------
(* Files that describe an object: its members as lexemes, and the object.  *)
W(lexemes, means) == [lexemes |-> lexemes, object |-> means]
Listed(ws) ==
  W(<<First>> \o FlattenSeq([n \in DOMAIN ws |-> IF n = 1 THEN ws[n].lexemes ELSE <<Comma>> \o ws[n].lexemes]) \o <<Last1>>,
    [n \in DOMAIN ws |-> ws[n].object])
WString(text) == W(<<Str(text)>>, text)
WNumber(n, means) == W(<<n>>, means)
WBool(b) == W(<<IF b THEN True ELSE False>>, IF b THEN "true" ELSE "false")
WType(type) == W(<<Str(MCSpelling[type])>>, type)

(* An object, its members given in the order of its class, in any layout.  *)
Pair(name, w) == <<Str(MCSpelling[name]), Colon>> \o w.lexemes
Braces(pairs) ==
  <<Open>> \o FlattenSeq([n \in DOMAIN pairs |-> IF n = 1 THEN pairs[n] ELSE <<Comma>> \o pairs[n]]) \o <<Closed>>
Names(class) == [n \in DOMAIN Class[class] |-> Class[class][n].name]
Ordered(class, ws) == [n \in DOMAIN ws |-> Pair(Names(class)[n], ws[n])]
Objects(class, ws) == W(Braces(Ordered(class, ws)), [n \in DOMAIN ws |-> ws[n].object])
Nobody == Str(<<122, 122>>)

Layouts(class, ws) ==
  LET pairs == Ordered(class, ws)
      extra == <<Nobody, Colon, First, Null, Last1>>
      again == <<Str(MCSpelling[Names(class)[1]]), Colon, Null>>
  IN {Braces(pairs), Braces(Reverse(pairs)), Braces(<<extra>> \o pairs), Braces(pairs \o <<again, extra>>),
      Braces(pairs) \o <<Comma>>, Braces(pairs) \o <<Open, Bad(<<195>>)>>}

File(class, lexemes, blank, mark, meant, unfit) ==
  [bytes |-> mark \o Join(lexemes, blank), lexemes |-> lexemes, class |-> class, meant |-> meant, unfit |-> unfit]

(* A member is missing, or null, which is no value of any of the classes.  *)
Unfit(class, ws) ==
  LET pairs == Ordered(class, ws)
  IN {Braces(RemoveAt(pairs, n)) : n \in DOMAIN pairs}
       \cup {Braces([pairs EXCEPT ![n] = <<Str(MCSpelling[Names(class)[n]]), Colon, Null>>]) :
               n \in {m \in DOMAIN pairs : Names(class)[m] # "type"}}

Files(class, ws) ==
  {File(class, l, b, m, {[n \in DOMAIN ws |-> ws[n].object]}, FALSE) :
      l \in Layouts(class, ws), b \in {<<>>, <<13, 10, 9, 32>>}, m \in {<<>>, ByteOrderMark}}
    \cup {File(class, l, <<32>>, <<>>, {}, TRUE) : l \in Unfit(class, ws)}
    \cup {File(class, <<Bad(m)>> \o Braces(Ordered(class, ws)), <<>>, <<>>, {}, TRUE) : m \in {<<239>>, <<239, 187>>}}

Item(name, type, length, means) ==
  <<WString(name), WType(type), WNumber(length, means),
    Listed(<<Listed(<<WString(<<97>>), WString(<<>>)>>), Listed(<<>>)>>)>>
Unsigned(digits) == NumberLexeme(FALSE, digits, <<>>, <<>>, <<>>)
Items ==
  {Item(<<97>>, t, Unsigned(<<57>>), 9) : t \in ItemTypes}
    \cup {Item(<<>>, "FixedLength", NumberLexeme(FALSE, <<57>>, <<53>>, <<>>, <<>>), 9),
          Item(<<98>>, "FixedLength", NumberLexeme(FALSE, <<57>>, <<48>>, <<43>>, <<48>>), 9)}
Category ==
  <<WNumber(Unsigned(<<57>>), 9), WString(<<97>>), WString(<<98>>), WString(<<>>), WString(<<>>), WString(<<>>),
    Listed(<<WString(<<97>>)>>), WBool(TRUE)>>
Lists == <<Listed(<<WString(<<97>>), WString(<<98>>)>>), Listed(<<>>)>>

(* A length that is no unsigned short, and one that wraps.                 *)
OddLengths ==
  {File("ExternalItem", Objects("ExternalItem", Item(<<97>>, "FixedLength", n, 0)).lexemes, <<>>, <<>>, {}, FALSE) :
      n \in {NumberLexeme(FALSE, <<57>>, <<>>, <<>>, <<50>>), NumberLexeme(TRUE, <<57>>, <<>>, <<>>, <<>>), True}}

DescriptionTexts == OddLengths \cup
  UNION {Files("ExternalItem", ws) : ws \in Items}
    \cup Files("CategoryConfiguration", Category) \cup Files("UapAndMandatoryItems", Lists)
    \cup Files("AsterixConfiguration", <<Listed(<<Objects("CategoryConfiguration", Category)>>), WString(<<99>>)>>)
    \cup Files("ExternalCategoryDescription",
               <<Listed(<<Objects("ExternalItem", Item(<<97>>, "CompoundLength", Unsigned(<<48>>), 0))>>), Listed(<<>>)>>)

AllTexts == ShortTexts \cup EditedTexts \cup NumberTexts \cup StringTexts \cup LiteralTexts \cup DescriptionTexts
=============================================================================
