----------------------------- MODULE MCRecordCoding -----------------------------
(* Model-checking instance of RecordCoding.  Category 2 has a default and  *)
(* the description of one source, with another order of the items;         *)
(* category 21 does not begin with the source identifier; the categories   *)
(* from 100 on have sizes around the ends of the bytes of the field        *)
(* specification and of its buffer.                                        *)
EXTENDS RecordCoding

Item(name, kind, length, elements, mandatory) ==
  [name |-> name, kind |-> kind, length |-> length, elements |-> elements, mandatory |-> mandatory]

SourceId(mandatory) == Item("010", "Fixed", 2, <<"SAC", "SIC">>, mandatory)
Plain == Item("020", "Fixed", 1, <<"PLAIN">>, FALSE)
Dash == Item("-", "Fixed", 0, <<>>, FALSE)

Described(items) ==
  [items |-> items \o <<>>, mandatoryItemFRNs |-> SelectSeq([n \in DOMAIN items |-> n], LAMBDA n : items[n].mandatory)]

Default2 ==
  Described(<<SourceId(TRUE), Plain, Item("030", "Repetitive", 1, <<"REP">>, TRUE), Dash,
              Item("RE", "Explicit", 1, <<"REF">>, FALSE)>>)
Source2 ==
  Described(<<SourceId(FALSE), Item("030", "Repetitive", 1, <<"REP">>, FALSE),
              Item("040", "Extended", 1, <<"E1", "E2">>, TRUE), Plain, Dash,
              Item("050", "Explicit", 1, <<"ODD">>, TRUE)>>)
Default21 ==
  Described(<<Item("040", "Extended", 1, <<"E1", "E2">>, FALSE), SourceId(FALSE), Plain>>)

Sizes == {6, 7, 8, 14, 15, 55, 63, 70}
Ends == {1, 6, 7, 8, 14, 49, 56, 63, 70}
Letter(k) == "e" \o ToString(k)
Sized(n) ==
  Described([k \in 1 .. n |-> Item("item" \o ToString(k), "Fixed", 1, <<Letter(k)>>, FALSE)])

CategoryMap ==
  FoldSet(LAMBDA n, map : map @@ (100 + n :> Sized(n)),
          2 :> Default2 @@ 2112105 :> Source2 @@ 21 :> Default21 @@ 21120130 :> Default2, Sizes)

MCDescriptions == CategoryMap

(* Elements of the three described categories.                             *)
Elements ==
  [SAC |-> <<112>>, SIC |-> <<105>>, PLAIN |-> <<7>>, REP |-> <<1, 2>>,
   REF |-> <<0>>, E1 |-> <<120>>, E2 |-> <<130>>, ODD |-> <<9>>]
Record(category, names) == [category |-> category, elements |-> [e \in names |-> Elements[e]]]
From(record, sac, sic) == [record EXCEPT !.elements = ("SAC" :> sac @@ "SIC" :> sic) @@ @]

Whole2 == Record(2, {"SAC", "SIC", "PLAIN", "REP"})
Regular ==
  {From(Whole2, <<1>>, <<2>>), Whole2, Record(2, {"REP", "PLAIN"}),
   Record(2, {"SAC", "SIC", "E1", "E2"}), Record(2, {"SAC", "SIC", "E1", "E2", "ODD"}),
   Record(2, {"SAC", "SIC", "PLAIN"}),
   Record(2, {"SAC", "SIC", "REP", "E1", "E2"}),
   From(Record(2, {"SAC", "SIC", "PLAIN", "REF"}), <<1>>, <<2>>),
   Record(21, {"E1", "E2", "PLAIN"}), Record(9, {"SAC", "SIC"}),
   From(Record(21, {"SAC", "SIC", "PLAIN"}), <<120>>, <<130>>)}

SizedRecords ==
  UNION {{[category |-> 100 + n,
           elements |-> [e \in {Letter(k) : k \in s} |-> <<CHOOSE k \in s : Letter(k) = e>>]] :
            s \in SUBSET {b \in Ends : b <= n}} : n \in Sizes}

Collection(rs) == [kind |-> "records", records |-> rs]
Single(r) == [kind |-> "single", records |-> <<r>>]

Singles ==
  {Whole2, From(Whole2, <<12>>, <<5>>), Record(2, {"SAC", "SIC", "REF", "E1"}),
   Record(9, {"SAC", "SIC"}), Record(2, {"PLAIN", "REP"})}

(* One collection of one sized record or of three others; two calls, of    *)
(* which the first may fail.                                               *)
MCClients ==
  {<<>>}
  \cup {<<Collection(<<r>>)>> : r \in SizedRecords}
  \cup {<<Collection(<<a, b, Whole2>>)>> : a, b \in Regular}
  \cup {<<Single(a), Single(b)>> : a, b \in Singles}
  \cup {<<Single(a), Collection(<<Whole2, b>>)>> : a \in Singles, b \in Regular}

(* Streams from elsewhere: several records in a datablock, an unknown      *)
(* category, an item behind the last one, an item "-", a record that goes  *)
(* on behind its datablock, an explicit item that is neither RE nor SP, a  *)
(* mandatory item missing at the end of the list, a datablock cut off.     *)
MCStreams ==
  {<<2, 0, 17, 160, 1, 2, 1, 9, 224, 1, 2, 5, 2, 8, 9, 176, 0>>,
   <<2, 0, 15, 160, 1, 2, 1, 9, 224, 1, 2, 5, 2, 8, 9, 2, 0, 9, 176, 1, 2, 1, 9, 0>>,
   <<9, 0, 6, 128, 1, 2>>, <<21, 0, 5, 16, 1>>, <<21, 0, 6, 192, 3, 5, 2, 0, 5, 160>>,
   <<21, 0, 5, 32, 1, 21, 0, 6, 32, 1, 32>>, <<2, 0, 10, 164, 112, 105, 8, 1, 9, 1>>,
   <<2, 0, 9, 160, 112, 105, 8, 1, 9>>, <<2, 0, 9, 160, 1>>, <<2, 0, 6, 128, 112, 105>>,
   <<2, 0, 6, 128, 1, 1>>}
=============================================================================
