--------------------------- MODULE MCElementCoding --------------------------
(* Model-checking instance of ElementCoding: bytes of four bits, every     *)
(* function with every representation, one and two LSB values, values at   *)
(* the ends of their ranges, records of one to three elements in one or    *)
(* two items, extended or not, with and without an FX or a Spare before    *)
(* the element that is selected.                                           *)
EXTENDS ElementCoding

Boundary(bits) == {0, 1, 2 ^ (bits - 1) - 1, 2 ^ (bits - 1), 2 ^ bits - 1}

Bound(b, v) == [bound |-> b, value |-> v]
NoBounds == <<>>
Ranges == {NoBounds, <<Bound("num", 0)>>, <<Bound("gt", 0), Bound("num", 10)>>,
           <<Bound("num", -2), Bound("lt", 14)>>, <<Bound("lt", 0), Bound("num", 1)>>,
           <<Bound("num", 0), Bound("text", 1)>>}

Element(item, function, representation, bits, range, lsb, raw) ==
  [item |-> item, function |-> function, representation |-> representation, bits |-> bits,
   range |-> range, lsb |-> lsb, raw |-> raw, extended |-> FALSE, behindFiller |-> FALSE]

Functions == Integers \cup TwosComplement \cup {"toASCII", "toTargetId", "toMBData", "unknown"}
Types == {"IntegerValue", "FloatValue", "DoubleValue", "StringValue", "HexadecimalValue"}
Widths(f) == IF f = "toTargetId" THEN {4} ELSE {1, 3, 4, 8, 13, 15, 16}
Lsbs == {<< <<>> >>, << <<1>> >>, << <<2>> >>, << <<6>> >>}

Alone ==
  {<<e>> : e \in UNION {UNION {
     {Element(1, f, t, bits, r, l, v) :
        t \in Types, r \in (IF bits = 3 THEN Ranges ELSE {NoBounds}), l \in Lsbs, v \in Boundary(bits)}
     : bits \in Widths(f)} : f \in Functions}}

Selector(item, f, bits, v) == Element(item, f, "IntegerValue", bits, NoBounds, << <<2>> >>, v)
Selected2(item, t, v) == Element(item, "toDecimal", t, 3, NoBounds, << <<1>>, <<8>> >>, v)
Other(item, f, t) == Element(item, f, t, 4, NoBounds, << <<2>> >>, 5)

(* A selector, a second element between or before it, and the element with *)
(* two LSB values, in one or two items.                                    *)
WithSelection ==
  UNION {
    {<<Selector(1, f, b, v), Selected2(i, t, w)>> : f \in Integers,
       b \in {2, 3, 6}, v \in {0, 1, 2, 3}, i \in {1, 2}, t \in {"IntegerValue", "FloatValue"}, w \in {0, 3, 7}},
    {<<Other(1, f, t), Selector(i, "toDecimal", 3, v), Selected2(2, "FloatValue", 7)>> :
       f \in Functions, t \in {"IntegerValue", "StringValue"}, v \in {0, 1, 3}, i \in {1, 2}},
    {<<Selector(1, "toDecimal", 3, v), Other(1, f, t), Selected2(i, "DoubleValue", 7)>> :
       f \in Functions, t \in {"IntegerValue", "StringValue"}, v \in {0, 1}, i \in {1, 2}}}

(* The same records with extended items, and with the last element behind  *)
(* an FX or a Spare.                                                       *)
Laid(r, extended, filler) ==
  [n \in DOMAIN r |-> [r[n] EXCEPT !.extended = extended, !.behindFiller = filler /\ n = Len(r)]]

AllRecords == Alone \cup {Laid(r, x, f) : r \in WithSelection, x \in BOOLEAN, f \in BOOLEAN}
Alphabet == <<"?", "A", "B", "?">>
=============================================================================
