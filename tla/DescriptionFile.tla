--------------------------- MODULE DescriptionFile ---------------------------
(***************************************************************************)
(* Reading a description file: the text is parsed into a json value, and   *)
(* from_json turns the value into the object the loader goes on with.  An  *)
(* exception ends the reading; of them the loader catches parse_error.     *)
(***************************************************************************)
EXTENDS JsonParser

CONSTANTS
  Documents,    (* the files read: their bytes, the class they are read as,  *)
                (* their lexemes, what their author meant, whether they are unfit  *)
  Spelling,     (* member names and enumerators in bytes                     *)
  ShortMax      (* the largest unsigned short                                *)

ASSUME DescriptionFileAssumption == ShortMax \in Nat

VARIABLE object (* the object read, if any                                   *)

vars == <<parserVars, object>>

-----------------------------------------------------------------------------
(* The members each class is read from, in the order of its from_json.     *)
Field(name, type) == [name |-> name, type |-> type]
Text == <<"string">>

AsterixConfiguration ==
  <<Field("categories", <<"vector", "CategoryConfiguration">>), Field("categoriesFilterFile", Text)>>

CategoryConfiguration ==
  <<Field("categoryNumber", <<"unsigned short">>),
    Field("uapAndMandatoryItemsFile", Text), Field("itemsDescriptionFile", Text),
    Field("refDescriptionFile", Text), Field("spfDescriptionFile", Text),
    Field("filterFile", Text), Field("dataSourcesInDec", <<"vector">> \o Text),
    Field("default", <<"bool">>)>>

UapAndMandatoryItems ==
  <<Field("uap", <<"vector">> \o Text), Field("mandatory", <<"vector">> \o Text)>>

ExternalCategoryDescription ==
  <<Field("itemCollection", <<"vector", "ExternalItem">>),
    Field("compoundSubitemCollection", <<"vector", "ExternalItem">>)>>

ExternalItem ==
  <<Field("name", Text), Field("type", <<"ItemTypeEnum">>),
    Field("lengthInByte", <<"unsigned short">>), Field("elements", <<"vector", "vector">> \o Text)>>

Class ==
  "AsterixConfiguration" :> AsterixConfiguration @@ "CategoryConfiguration" :> CategoryConfiguration
    @@ "UapAndMandatoryItems" :> UapAndMandatoryItems
    @@ "ExternalCategoryDescription" :> ExternalCategoryDescription @@ "ExternalItem" :> ExternalItem

(* What reading a value as a type gives: an object, or the exception that  *)
(* is thrown.                                                              *)
Given(read) == [thrown |-> "nothing", object |-> read]
Throw(exception) == [thrown |-> exception, object |-> <<>>]

ReadString(v) == IF v.type = "string" THEN Given(v.value) ELSE Throw("type_error.302")

ReadBool(v) == IF v.type \in {"true", "false"} THEN Given(v.type) ELSE Throw("type_error.302")

(* A number is cast.  What becomes of a double that is no unsigned short   *)
(* is up to the build.                                                     *)
Truncated(decimal) ==
  IF decimal[2] >= 0 THEN decimal[1] * 10 ^ decimal[2]
  ELSE (Magnitude(decimal[1]) \div 10 ^ (-decimal[2])) * (IF decimal[1] < 0 THEN -1 ELSE 1)

ReadUnsignedShort(v, undefined) ==
  CASE v.type \in {"number_unsigned", "number_integer"} -> Given(v.value[1] % (ShortMax + 1))
    [] v.type = "number_float" ->
         Given(IF Truncated(v.value) \in 0 .. ShortMax THEN Truncated(v.value) ELSE undefined)
    [] v.type \in {"true", "false"} -> Given(IF v.type = "true" THEN 1 ELSE 0)
    [] OTHER -> Throw("type_error.302")

(* Compared with each enumerator: whatever is none of them is invalid.     *)
ItemTypes == {"FixedLength", "ExtendedLength", "RepetitiveLength", "CompoundLength", "ExplicitLength"}
ReadItemType(v) ==
  Given(CASE v.type = "string" /\ v.value = <<>> -> "EmptyValue"
          [] v.type = "string" /\ \E t \in ItemTypes : v.value = Spelling[t] ->
               CHOOSE t \in ItemTypes : v.value = Spelling[t]
          [] OTHER -> "InvalidValue")

(* The first exception ends the transformation.                            *)
AllRead(results) ==
  LET thrown == {n \in DOMAIN results : results[n].thrown # "nothing"}
  IN IF thrown = {} THEN Given([n \in DOMAIN results |-> results[n].object])
     ELSE results[Min(thrown)]

(* Mutant: a member that is not there is an empty text.                    *)
MutantAt(v, name) ==
  CASE v.type # "object" -> Throw("type_error.304")
    [] Spelling[name] \notin DOMAIN v.value -> Given(Json("string", <<>>))
    [] OTHER -> Given(v.value[Spelling[name]])

(* at(): the member has to be there.                                       *)
At(v, name) ==
  CASE v.type # "object" -> Throw("type_error.304")
    [] Spelling[name] \notin DOMAIN v.value -> Throw("out_of_range.403")
    [] OTHER -> Given(v.value[Spelling[name]])

RECURSIVE Get(_, _, _)
ReadArray(v, type, undefined) ==
  IF v.type # "array" THEN Throw("type_error.302")
  ELSE AllRead([n \in DOMAIN v.value |-> Get(v.value[n], type, undefined)])

ReadClass(v, members, undefined) ==
  AllRead([n \in DOMAIN members |->
    LET member == At(v, members[n].name)
    IN IF member.thrown # "nothing" THEN member ELSE Get(member.object, members[n].type, undefined)])

Get(v, type, undefined) ==
  CASE type = <<"string">>   -> ReadString(v)
    [] type = <<"bool">>     -> ReadBool(v)
    [] type = <<"unsigned short">> -> ReadUnsignedShort(v, undefined)
    [] type = <<"ItemTypeEnum">> -> ReadItemType(v)
    [] type[1] = "vector"    -> ReadArray(v, Tail(type), undefined)
    [] OTHER                 -> ReadClass(v, Class[type[1]], undefined)

Convert(undefined) ==
  /\ outcome = "parsed"
  /\ LET read == Get(result, <<document.class>>, undefined)
     IN IF read.thrown = "nothing" THEN outcome' = "read" /\ object' = read.object
        ELSE outcome' = read.thrown /\ UNCHANGED object
  /\ UNCHANGED <<document, last_token, stack, result, pc>>

Init ==
  /\ document \in Documents
  /\ InitParser
  /\ object = <<>>

Next ==
  \/ Parse /\ UNCHANGED object
  \/ \E undefined \in 0 .. ShortMax : Convert(undefined)

Spec == Init /\ [][Next]_vars

-----------------------------------------------------------------------------
(* The grammar of RFC 7159 over the lexemes of the file: those from i to j *)
(* are a value, or the members of an object or the elements of an array.   *)
Lexeme(i) == document.lexemes[i]
Is(i, type) == Lexeme(i).type = type
Opening(kind) == IF kind = "array" THEN "begin_array" ELSE "begin_object"
Scalar(i) == Lexeme(i).type \in DOMAIN ScalarType

RECURSIVE IsValue(_, _), AreMembers(_, _, _)
IsMember(kind, i, j) ==
  IF kind = "array" THEN IsValue(i, j)
  ELSE i + 2 <= j /\ Is(i, "value_string") /\ Is(i + 1, "name_separator") /\ IsValue(i + 2, j)

AreMembers(kind, i, j) ==
  \/ IsMember(kind, i, j)
  \/ \E k \in i + 1 .. j - 1 :
       Is(k, "value_separator") /\ IsMember(kind, i, k - 1) /\ AreMembers(kind, k + 1, j)

IsValue(i, j) ==
  \/ i = j /\ Scalar(i)
  \/ \E kind \in {"array", "object"} :
       /\ i < j /\ Is(i, Opening(kind)) /\ Is(j, Close(kind))
       /\ j = i + 1 \/ AreMembers(kind, i + 1, j - 1)

(* The value the lexemes from i to j stand for.  Of members with the same  *)
(* name the first one counts.                                              *)
Depth(i, k) ==
  Cardinality({n \in i .. k : Is(n, "begin_array") \/ Is(n, "begin_object")})
    - Cardinality({n \in i .. k : Is(n, "end_array") \/ Is(n, "end_object")})

RECURSIVE Meaning(_, _)
Meaning(i, j) ==
  LET commas == {k \in i .. j : Is(k, "value_separator") /\ Depth(i, k) = 1}
      begins == IF j = i + 1 THEN {} ELSE {i + 1} \cup {k + 1 : k \in commas}
      End(b) == Min({k \in commas \cup {j} : k >= b}) - 1
  IN CASE Is(i, "begin_array") ->
            LET sorted == SetToSortSeq(begins, <)
            IN Json("array", [n \in DOMAIN sorted |-> Meaning(sorted[n], End(sorted[n]))])
       [] Is(i, "begin_object") ->
            Json("object", [key \in {Lexeme(b).value : b \in begins} |->
              LET b == Min({c \in begins : Lexeme(c).value = key}) IN Meaning(b + 2, End(b))])
       [] OTHER -> Json(ScalarType[Lexeme(i).type], Lexeme(i).value)

Overflows(i) == Is(i, "value_float") /\ ~Finite(Lexeme(i).value)
Values == {j \in DOMAIN document.lexemes : IsValue(1, j)}

(* A file is parsed exactly when it begins with a JSON value whose numbers *)
(* are in range.  Otherwise the parser throws, and what it throws is the   *)
(* parse_error the loader reports, but for a number too large.             *)
ParsesExactlyJson ==
  outcome # "reading" =>
    LET overflow == \E i \in DOMAIN document.lexemes : Overflows(i)
    IN IF \E j \in Values : \A i \in 1 .. j : ~Overflows(i)
       THEN outcome \notin {"parse_error.101", "out_of_range.406"}
       ELSE outcome = "parse_error.101" \/ (overflow /\ outcome = "out_of_range.406")

(* The value built is the one written: every escape sequence, every        *)
(* multibyte character and every number is what it stands for, nesting and *)
(* order are kept, and of equal keys the first one wins.                   *)
ValueIsAsWritten ==
  outcome \in {"parsed", "read"} => \A j \in Values : result = Meaning(1, j)

(* A file that describes an object in any layout (order of the members,    *)
(* members nobody asks for, blanks, a byte order mark, text behind the     *)
(* value) is read as that object; a file that lacks a member or gives it   *)
(* another type is not.                                                    *)
DescriptionIsAsMeant ==
  outcome \notin {"reading", "parsed"} =>
    /\ \A meant \in document.meant : outcome = "read" /\ object = meant
    /\ document.unfit => outcome # "read"
=============================================================================
