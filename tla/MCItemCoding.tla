----------------------------- MODULE MCItemCoding ---------------------------
(* Model-checking instance of ItemCoding: layouts of the kinds the shipped *)
(* categories have, with elements that begin anywhere in a byte but, as    *)
(* there, lie in no more octets than their length needs.                   *)
EXTENDS ItemCoding

E(name, length) == [name |-> name, length |-> length]
Gap(length) == E("Spare", length)
Ext == E("FX", 1)
S(type, bytes, elements) ==
  [type |-> type, lengthInByte |-> bytes, elements |-> elements, toBeDecoded |-> TRUE, toBeEncoded |-> TRUE]
I(type, subitems) == [type |-> type, subitems |-> subitems, toBeDecoded |-> TRUE]

SpareAtEnds == S("Fixed", 2, <<E("a", 4), Gap(4), E("b", 8)>>)
SharedBytes == S("Fixed", 2, <<E("a", 5), E("b", 6), E("c", 5)>>)
LongElement == S("Fixed", 2, <<Gap(3), E("d", 13)>>)
Extents     == S("Extended", 1, <<E("e", 3), E("f", 4), Ext, E("g", 7), Ext, E("h", 2), Gap(5), Ext>>)
TwoOctets   == S("Extended", 2, <<E("k", 8), E("l", 7), Ext, E("m", 7), Ext>>)
Halves      == S("Repetitive", 1, <<E("p", 4), E("q", 4)>>)
SparesToo   == S("Repetitive", 1, <<E("r", 3), Gap(2), E("s", 2), Gap(1)>>)
Nothing     == S("Spare", 0, <<>>)
One(name)   == S("Fixed", 1, <<E(name, 8)>>)

PlainItems == {I("Plain", <<s>>) : s \in {SpareAtEnds, SharedBytes, LongElement, Extents, TwoOctets,
                                         Halves, SparesToo}}
CompoundItems ==
  {I("Compound", <<SharedBytes, Nothing, Halves>>),
   I("Compound", <<Nothing, Extents>>),
   I("Compound", <<One("t"), Nothing, Nothing, Nothing, Nothing, Nothing, One("u")>>),
   I("Compound", <<One("t"), Nothing, Nothing, Nothing, Nothing, Nothing, One("u"), One("v")>>)}
ReservedItems ==
  {I("RE", <<LongElement, Halves, TwoOctets>>),
   I("RE", <<SpareAtEnds, [One("t") EXCEPT !.toBeDecoded = FALSE], [One("u") EXCEPT !.toBeEncoded = FALSE]>>)}
SpecialItems == {I("SP", <<Extents>>), I("SP", <<[SparesToo EXCEPT !.toBeDecoded = FALSE]>>)}
Items ==
  LET all == PlainItems \cup CompoundItems \cup ReservedItems \cup SpecialItems
  IN all \cup {[it EXCEPT !.toBeDecoded = FALSE] : it \in all}

(* Everything described, a repetitive subitem twice, with a value each.    *)
Everything(it, value(_, _)) ==
  FlattenSeq([n \in DOMAIN it.subitems |->
    LET s == it.subitems[n]
        times == IF s.type = "Repetitive" THEN 2 ELSE 1
        carried == SelectSeq([k \in 1 .. times * Len(s.elements) |-> k],
                             LAMBDA k : Name(s, k) \notin {Spare, FX})
    IN [j \in DOMAIN carried |->
          [name |-> Name(s, carried[j]),
           value |-> value(carried[j], Element(s, carried[j]).length) % 2 ^ Element(s, carried[j]).length]]])

AllOnes(k, length) == 2 ^ length - 1
Alternating(k, length) == IF k % 2 = 0 THEN 2 ^ length - 1 ELSE 0
OneAtEachEnd(k, length) == 2 ^ (length - 1) + k

Parts(elements) ==
  {LET kept == SelectSeq([k \in DOMAIN elements |-> k], LAMBDA k : k \in ks)
   IN [j \in DOMAIN kept |-> elements[kept[j]]] : ks \in SUBSET DOMAIN elements}

Given(it) ==
  {Everything(it, AllOnes), Everything(it, Alternating), Reverse(Everything(it, OneAtEachEnd))}
    \cup Parts(Everything(it, OneAtEachEnd))

AllInputs == UNION {{[item |-> it, given |-> g] : g \in Given(it)} : it \in Items}
Bits == {0, 1}
Behind == FlattenSeq([k \in 1 .. 5 |-> BytesOf(<<183, 75, 74, 0, 0>>[k])])
=============================================================================
