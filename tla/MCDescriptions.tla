--------------------------- MODULE MCDescriptions ---------------------------
(* Model-checking instance of Descriptions: bytes of four bits, correct    *)
(* and flawed files of every kind for a category, alone and followed by a  *)
(* second category, defaults and data sources that do and do not collide,  *)
(* and a second load after each first one.                                 *)
EXTENDS Descriptions

UpperOf == "i1" :> "I1" @@ "spare" :> "SPARE" @@ "Spare" :> "SPARE" @@ "fx" :> "FX" @@ "ref" :> "REF"
UpperName(name) == IF name \in DOMAIN UpperOf THEN UpperOf[name] ELSE name

E(name, bits) == [name |-> name, bits |-> bits, flaw |-> "none"]
Flawed(name, bits, flaw) == [name |-> name, bits |-> bits, flaw |-> flaw]
I(name, type, length, elements) == [name |-> name, type |-> type, length |-> length, elements |-> elements]
File(items, subs) == [state |-> "ok", items |-> items, subs |-> subs]
NoFile(state) == [state |-> state, items |-> <<>>, subs |-> <<>>, uap |-> <<>>, mandatory |-> <<>>]
Uap(uap, mandatory) == [state |-> "ok", uap |-> uap, mandatory |-> mandatory]
Source(sac, sic, trailing) == [sac |-> sac, sic |-> sic, trailing |-> trailing, wrong |-> FALSE]

-----------------------------------------------------------------------------
OneModule == Uap(<<"i1", "I2", "ref", "FX">>, <<"I1">>)
TwoModules == Uap(<<"I2", "-", "I1", "FX", "I3", "RE", "SPF", "FX">>, <<"I3", "i1">>)
Uaps ==
  {OneModule, TwoModules,
   Uap(<<"I2", "I1", "FX", "FX">>, <<"I1", "I2", "RE", "I9">>),
   Uap(<<"I1", "I2", "RE">>, <<"I1">>), Uap(<<"I1", "I2", "RE", "SP">>, <<"I1">>),
   Uap(<<"I1", "I9", "RE", "FX">>, <<"I1">>), Uap(<<"I1", "", "RE", "FX">>, <<"I1">>),
   Uap(<<"I1", "I2", "RE", "FX">>, <<>>), Uap(<<"I1", "I1", "I2", "FX">>, <<"I1">>),
   NoFile("missing"), NoFile("malformed"), NoFile("incomplete"), NoFile("none")}

Fixed == I("i1", "Fixed", 1, <<E("A", 3), E("spare", 1)>>)
Extended == I("I3", "Extended", 0, <<E("C", 3), E("fx", 1), E("D", 3), E("FX", 1)>>)
Repeated(name, element) == I(name, "Repetitive", 1, <<E(element, 2), E("Spare", 2)>>)
Compound(indices, names) == I("I2", "Compound", 1, [n \in DOMAIN names |-> E(names[n], indices[n])])
Subs == <<I("S1", "Fixed", 1, <<E("P", 4)>>), Repeated("S2", "Q")>>

Correct == File(<<Fixed, Extended, Compound(<<0, 1>>, <<"S1", "S2">>)>>, Subs)
Items ==
  {Correct, File(<<Compound(<<1, 0>>, <<"S2", "S1">>), Repeated("I3", "C"), Fixed>>, Subs),
   File(<<Fixed, Extended, Compound(<<0, 1>>, <<"S2", "S1">>)>>, Subs),
   File(<<Fixed, Extended, Compound(<<0, 2>>, <<"S1", "S2">>)>>, Subs),
   File(<<Fixed, Extended, Compound(<<0, 3>>, <<"S1", "S2">>)>>, Subs),
   File(<<Fixed, Extended, Compound(<<0>>, <<"S1">>)>>, <<I("S1", "Compound", 1, <<E("P", 0)>>)>>),
   File(<<Fixed, Extended, I("I2", "Fixed", 1, <<E("A", 4)>>)>>, <<>>),
   File(<<Fixed, Extended, I("I2", "Fixed", 2, <<E("B", 4)>>)>>, <<>>),
   File(<<Fixed, Extended, I("I2", "Extended", 1, <<E("B", 3)>>)>>, <<>>),
   File(<<Fixed, Extended, I("I2", "Fixed", 1, <<E("B", SizeLimit + 4)>>)>>, <<>>),
   File(<<Fixed, Extended, I("I2", "Fixed", 1, <<E("B", 4)>>), I("RE", "Fixed", 1, <<E("R", 4)>>)>>, <<>>),
   File(<<Fixed, Extended, I("I2", "Fixed", 1, <<>>)>>, <<>>), File(<<Fixed, Extended>>, Subs),
   File(<<>>, <<>>), NoFile("none"), NoFile("missing"), NoFile("malformed"), NoFile("incomplete")}
  \cup {File(<<Fixed, Extended, I("I2", "Fixed", 1, <<Flawed("B", 4, flaw)>>)>>, <<>>) :
          flaw \in {"short", "number", "range", "function", "mode"}}

FieldCompound(name, names) == I(name, "Compound", 1, [n \in DOMAIN names |-> E(names[n], n - 1)])
FieldSubs == <<I("S2", "Fixed", 1, <<E("T", 4)>>), Repeated("S3", "U")>>
Fields ==
  {NoFile("none"), File(<<Repeated("r1", "V")>>, <<>>),
   File(<<I("r1", "Fixed", 1, <<E("V", 4)>>), FieldCompound("r2", <<"S2", "S3">>)>>, FieldSubs),
   File(<<FieldCompound("r1", <<"S2">>), FieldCompound("r2", <<"S3">>)>>, FieldSubs),
   File(<<FieldCompound("r1", <<"S2", "S3">>), FieldCompound("r2", <<"S3", "S2">>)>>, FieldSubs),
   File(<<FieldCompound("r1", <<"S3", "S2">>)>>, FieldSubs),
   File(<<FieldCompound("r1", <<"S2", "S3", "S2">>)>>, FieldSubs),
   File(<<I("RE", "Explicit", 1, <<E("V", 4)>>)>>, <<>>), File(<<I("r1", "Fixed", 1, <<E("A", 4)>>)>>, <<>>),
   NoFile("missing"), NoFile("malformed"), NoFile("incomplete")}

-----------------------------------------------------------------------------
Category1(uap, items, ref, spf, sources, default) ==
  [number |-> 21, uap |-> uap, items |-> items, ref |-> ref, spf |-> spf,
   sources |-> sources, default |-> default]
Plain(number, sources, default) ==
  [Category1(OneModule, Correct, NoFile("none"), NoFile("none"), sources, default) EXCEPT !.number = number]

AField == CHOOSE f \in Fields : f.state = "ok" /\ Len(f.items) = 2 /\ f.items[1].type = "Fixed"
OtherField == File(<<FieldCompound("z1", <<"S1", "S2">>)>>,
                   <<I("S1", "Fixed", 1, <<E("Y", 4)>>), I("S2", "Fixed", 1, <<E("Z", 4)>>)>>)

FileCategories ==
  {Category1(u, Correct, NoFile("none"), NoFile("none"), <<>>, TRUE) : u \in Uaps}
  \cup {Category1(u, items, AField, OtherField, <<>>, TRUE) : u \in {OneModule, TwoModules}, items \in Items}
  \cup {Category1(TwoModules, Correct, ref, spf, <<>>, TRUE) : ref \in Fields, spf \in {NoFile("none"), OtherField}}
  \cup {Category1(TwoModules, Correct, OtherField, spf, <<>>, TRUE) : spf \in Fields}

(* What the files of a careful author do not have: an item mandatory twice, *)
(* a place that is free mandatory, an element of an explicit subitem, two  *)
(* compound items in a field whose subitems name no element.               *)
OddCategories ==
  {Category1(Uap(<<"I1", "I1", "-", "FX">>, mandatory),
             File(<<Fixed, I("I1", "Fixed", 1, <<E("B", 4)>>)>>, <<>>),
             NoFile("none"), NoFile("none"), <<>>, TRUE) :
     mandatory \in {<<"I1", "i1">>, <<"I1", "-">>}}
  \cup {Category1(OneModule, File(<<Fixed, I("I2", "Fixed", 1, <<E("B", 4)>>)>>, <<I("S1", "Explicit", 1, <<E("V", 4)>>)>>),
                  File(<<I("r1", "Fixed", 1, <<E("V", 4)>>)>>, <<>>), NoFile("none"), <<>>, TRUE),
        Category1(OneModule, Correct,
                  File(<<FieldCompound("r1", <<"S3">>), FieldCompound("r2", <<"S1", "S3">>)>>,
                       <<I("S3", "Fixed", 1, <<E("Spare", 4)>>)>>), NoFile("none"), <<>>, TRUE)}

SourceLists ==
  {<<>>, <<Source(112, 53, 0)>>, <<Source(120, 255, 0), Source(12, 1, 0)>>, <<Source(0, 1, 0), Source(0, 1, 0)>>,
   <<Source(50, 8, 1)>>, <<Source(255, 256, 0)>>, <<Source(300, 1, 0)>>,
   <<Source(1, 2, 0), [Source(1, 2, 0) EXCEPT !.wrong = TRUE]>>}

Config(categories) == [state |-> "ok", categories |-> categories]
AllRetries ==
  {Config(<<Plain(2, <<Source(112, 53, 0)>>, TRUE)>>), Config(<<Plain(21, <<>>, TRUE)>>)}
AllConfigurations ==
  AllRetries
  \cup {[state |-> s, categories |-> <<>>] : s \in {"missing", "malformed", "incomplete"}}
  \cup {Config(<<c, Plain(2, <<>>, TRUE)>>) : c \in FileCategories \cup OddCategories}
  \cup {Config(<<Plain(n, s, d), Plain(m, t, e)>>) :
          n \in {0, 21}, s \in SourceLists, d \in BOOLEAN, m \in {2, 21}, t \in SourceLists, e \in BOOLEAN}
=============================================================================
