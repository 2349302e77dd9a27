---------------------------- MODULE Descriptions ----------------------------
(***************************************************************************)
(* The descriptions of the categories: loadAsterixDescription reads the    *)
(* files a configuration names category by category, validates them and    *)
(* enters one CategoryDescription into the map under the category's number *)
(* and under one key per data source; parser and encoder look it up there, *)
(* and releaseMemory deletes what the map points to.                       *)
(*                                                                         *)
(* A file is the contents json gives, or the reason it gives none.  Range, *)
(* LSB and type of an element are in ElementCoding: what may be wrong with *)
(* it here is its "flaw".                                                  *)
(***************************************************************************)
EXTENDS Integers, Sequences, FiniteSets, SequencesExt

CONSTANTS
  ByteBits,        (* bits of a byte: UAP entries up to each FX              *)
  SizeLimit,       (* 2^16: the bits of an item are counted in a short       *)
  Repetitions,     (* numberOfElementsRepetitionInItemDescription            *)
  Upper(_),        (* toupper of a name                                      *)
  Configurations,  (* the configurations a client may load                   *)
  Retries,         (* those it may load after another one                    *)
  MaxLoads         (* bound of the model: calls of loadAsterixConfiguration  *)

ASSUME DescriptionAssumption ==
  /\ ByteBits \in Nat \ {0, 1} /\ SizeLimit \in Nat \ {0}
  /\ Repetitions \in Nat \ {0} /\ MaxLoads \in Nat
  /\ Retries \subseteq Configurations

(* What json makes of the files.  A key is an int: with the number of a    *)
(* category in front of SAC and SIC it goes up to 2147; at most two digits *)
(* of a SIC can be a text that is no number.                               *)
ExternalItem ==
  [name : STRING, type : STRING, length : Nat,
   elements : Seq([name : STRING, bits : Int, flaw : STRING])]
FileStates == {"ok", "none", "missing", "malformed", "incomplete"}
DataSource == [sac : Nat, sic : Nat, trailing : 0 .. 2, wrong : BOOLEAN]

ASSUME ConfigurationsAssumption ==
  \A c \in Configurations :
    /\ c.categories \in Seq(ToSet(c.categories))
    /\ \A category \in ToSet(c.categories) :
         /\ category.number \in 0 .. 2147 /\ category.default \in BOOLEAN
         /\ category.sources \in Seq(DataSource)
         /\ category.uap.uap \in Seq(STRING) /\ category.uap.mandatory \in Seq(STRING)
         /\ \A f \in {category.items, category.ref, category.spf} :
              /\ f.state \in FileStates
              /\ f.items \in Seq(ExternalItem) /\ f.subs \in Seq(ExternalItem)

VARIABLES
  config,    (* the file given to the loader                                 *)
  stage,     (* the loader's next step; "idle", "threw" and "released"       *)
  i,         (* the category of its loop                                     *)
  j,         (* the data source of its loop                                  *)
  ext,       (* the locals of the loader that outlive a turn of the loop     *)
  heap,      (* the descriptions made by new, in order                       *)
  made,      (* the category of the configuration each was made for          *)
  uapMap,    (* categoriesDescription: keys to places in the heap            *)
  status,    (* the ReturnStatus                                             *)
  loads,     (* calls of loadAsterixConfiguration                            *)
  deleted    (* how often each description of the heap was deleted           *)

loopVars == <<i, j, ext>>
mapVars == <<heap, made, uapMap, deleted>>
vars == <<config, stage, loopVars, mapVars, status, loads>>

-----------------------------------------------------------------------------
(* Files.                                                                  *)
RE == "RE"
SP == "SP"
NoItems == [items |-> <<>>, subs |-> <<>>]
NoLocals == [uap |-> <<>>, mandatory |-> <<>>, items |-> NoItems, ref |-> NoItems, spf |-> NoItems]
WithElements == {"Fixed", "Repetitive", "Extended"}

(* What reading a file ends with.  The json library throws for a missing   *)
(* member, and only its parse_error is caught.                             *)
ReadVerdict(f) ==
  CASE f.state \in {"none", "missing"} -> "AST_CONFIG_LOADER_ERROR"
    [] f.state = "malformed"           -> "AST_MALFORMED_DESCRIPTION"
    [] f.state = "incomplete"          -> "exception"
    [] OTHER                           -> "SUCCESS"

Renamed(name) ==
  CASE Upper(name) = "SPF" -> SP [] Upper(name) = "REF" -> RE [] OTHER -> Upper(name)

UapVerdict(f) ==
  LET uap == f.uap IN
  IF \/ uap = <<>> \/ f.mandatory = <<>>
     \/ "" \in ToSet(uap) \cup ToSet(f.mandatory)
     \/ Len(uap) % ByteBits # 0
     \/ \E n \in DOMAIN uap : n % ByteBits = 0 /\ Upper(uap[n]) # "FX"
  THEN "AST_MALFORMED_DESCRIPTION" ELSE "SUCCESS"

(* FX has no FRN: it leaves the list wherever it stands.                   *)
PreparedUap(f) ==
  FlattenSeq([n \in DOMAIN f.uap |->
    IF Renamed(f.uap[n]) = "FX" THEN <<>> ELSE <<Renamed(f.uap[n])>>])
PreparedMandatory(f) == [n \in DOMAIN f.mandatory |-> Renamed(f.mandatory[n])]

DescriptionVerdict(f) ==
  IF \/ f.items = <<>>
     \/ \E item \in ToSet(f.items \o f.subs) :
          \/ item.name = "" \/ item.elements = <<>>
          \/ \E e \in ToSet(item.elements) : e.flaw = "short"
  THEN "AST_MALFORMED_DESCRIPTION" ELSE "SUCCESS"

PreparedElement(e) ==
  [e EXCEPT !.name = CASE Upper(e.name) = "FX" -> "FX" [] Upper(e.name) = "SPARE" -> "Spare"
                       [] OTHER -> e.name]

PreparedItem(item, name) ==
  [item EXCEPT !.name = name,
               !.elements = [n \in DOMAIN item.elements |-> PreparedElement(item.elements[n])]]

(* The names of items are turned to upper case, those of subitems are not. *)
Prepared(f) ==
  [items |-> [n \in DOMAIN f.items |-> PreparedItem(f.items[n], Upper(f.items[n].name))],
   subs |-> [n \in DOMAIN f.subs |-> PreparedItem(f.subs[n], f.subs[n].name)]]

-----------------------------------------------------------------------------
(* Marshalling, performMarshallingFromExternalToInternalDescription.       *)
Names(items) == [n \in DOMAIN items |-> items[n].name]
Occurrences(name, names, last) == Cardinality({n \in 1 .. last : names[n] = name})

(* The n-th item marshalled is mandatory when the list still has its name: *)
(* each match takes one occurrence off it.                                 *)
Marshalled(item, n, names, mandatory) ==
  [name |-> item.name, type |-> item.type, length |-> item.length,
   names |-> [e \in DOMAIN item.elements |-> item.elements[e].name],
   elements |-> [e \in DOMAIN item.elements |-> item.elements[e].bits],
   flaws |-> {item.elements[e].flaw : e \in DOMAIN item.elements},
   mandatory |-> Occurrences(item.name, names, n)
                   <= Occurrences(item.name, mandatory, Len(mandatory))]

(* The files of a category, in the order they are marshalled in.           *)
ItemsAndSubs(locals) == locals.items.items \o locals.items.subs
UpToRef(locals) == ItemsAndSubs(locals) \o locals.ref.items \o locals.ref.subs
AllExternal(locals) == UpToRef(locals) \o locals.spf.items \o locals.spf.subs

MarshalledFiles(locals) ==
  LET names == Names(AllExternal(locals))
      part(before, file) ==
        [n \in DOMAIN file |-> Marshalled(file[n], Len(before) + n, names, locals.mandatory)]
  IN [items   |-> part(<<>>, locals.items.items),
      subs    |-> part(locals.items.items, locals.items.subs),
      ref     |-> part(ItemsAndSubs(locals), locals.ref.items),
      refSubs |-> part(ItemsAndSubs(locals) \o locals.ref.items, locals.ref.subs),
      spf     |-> part(UpToRef(locals), locals.spf.items),
      spfSubs |-> part(UpToRef(locals) \o locals.spf.items, locals.spf.subs)]

Compounds(items) == {n \in DOMAIN items : items[n].type = "Compound"}

(* The k-th compound item of a field, from 0, takes ALL subitems of the    *)
(* field's file, and its indices from position k * |subs| on.              *)
CompoundsBefore(items, n) == Cardinality({c \in Compounds(items) : c < n})
IndicesFit(items, subs) ==
  \A n \in Compounds(items) :
    subs = <<>> \/ (CompoundsBefore(items, n) + 1) * Len(subs) <= Len(items[n].elements)

(* Mutant: the subitems of a field are counted from 1.                     *)
MutantWithNewIndices(items, subs, base) ==
  [n \in DOMAIN items |->
    IF n \notin Compounds(items) THEN items[n]
    ELSE LET first == CompoundsBefore(items, n) * Len(subs)
         IN [items[n] EXCEPT !.elements = [e \in DOMAIN items[n].elements |->
               IF e \in first + 1 .. first + Len(subs) THEN base + e ELSE 0]]]

WithNewIndices(items, subs, base) ==
  [n \in DOMAIN items |->
    IF n \notin Compounds(items) THEN items[n]
    ELSE LET first == CompoundsBefore(items, n) * Len(subs)
         IN [items[n] EXCEPT !.elements = [e \in DOMAIN items[n].elements |->
               IF e \in first + 1 .. first + Len(subs) THEN base + e - 1 ELSE 0]]]

TimesCompounds(items, subs) ==
  FlattenSeq([c \in 1 .. Cardinality(Compounds(items)) |-> subs])

(* A text that is no number makes stoi throw; a range that is none is an   *)
(* error; whichever comes first decides.                                   *)
MarshalVerdict(external, m) ==
  LET all == FlattenSeq([n \in DOMAIN external |-> external[n].elements])
      first(n, flaw) == /\ all[n].flaw = flaw
                        /\ \A p \in 1 .. n - 1 : all[p].flaw \notin {"number", "range"}
  IN IF \E n \in DOMAIN all : first(n, "number") THEN "exception"
     ELSE IF \E n \in DOMAIN all : first(n, "range") THEN "AST_CONFIG_LOADER_ERROR"
     ELSE IF IndicesFit(m.ref, m.refSubs) /\ IndicesFit(m.spf, m.spfSubs) THEN "SUCCESS"
     ELSE "exception"

-----------------------------------------------------------------------------
(* putInOrderItemsDescription.                                             *)
FieldItem(name, field) ==
  [name |-> name, type |-> "Explicit", length |-> 1, flaws |-> {}, mandatory |-> FALSE,
   names |-> [n \in DOMAIN field |-> field[n].name],
   elements |-> [n \in DOMAIN field |-> n - 1]]

DashItem ==
  [name |-> "-", type |-> "Fixed", length |-> 0, flaws |-> {}, mandatory |-> FALSE,
   names |-> <<>>, elements |-> <<>>]

(* The n-th place of a name in the UAP takes the n-th item of the name.    *)
ItemsFor(uap, frn, items) ==
  {n \in DOMAIN items : /\ items[n].name = uap[frn]
                        /\ Occurrences(uap[frn], Names(items), n) = Occurrences(uap[frn], uap, frn)}

InOrder(uap, d) ==
  [frn \in DOMAIN uap |->
    IF ItemsFor(uap, frn, d.items) # {} THEN d.items[CHOOSE n \in ItemsFor(uap, frn, d.items) : TRUE]
    ELSE CASE uap[frn] = RE -> FieldItem(RE, d.ref)
           [] uap[frn] = SP -> FieldItem(SP, d.spf)
           [] OTHER         -> DashItem]

OrderVerdict(uap, d) ==
  IF \A frn \in DOMAIN uap : uap[frn] \in {"-", RE, SP} \/ ItemsFor(uap, frn, d.items) # {}
  THEN "SUCCESS" ELSE "AST_MALFORMED_DESCRIPTION"

(* The first place of a name in the UAP.                                   *)
IsFirst(frn, uap) == \A g \in 1 .. frn - 1 : uap[g] # uap[frn]

(* Mutant: the FRN is the place counted from 0.                            *)
MutantMandatoryItemFRNs(uap, mandatory) ==
  {frn - 1 : frn \in {f \in DOMAIN uap : uap[f] \in ToSet(mandatory) /\ IsFirst(f, uap)}}

(* The first place of each mandatory item that the UAP has.  (Their order, *)
(* that of the list of mandatory items, is left out.)                      *)
MandatoryItemFRNs(uap, mandatory) ==
  {frn \in DOMAIN uap : uap[frn] \in ToSet(mandatory) /\ IsFirst(frn, uap)}

-----------------------------------------------------------------------------
(* performValidationOfJsonFiles.                                           *)
Total(numbers) == FoldLeft(LAMBDA sum, n : sum + n, 0, numbers)

(* The sum of the bits keeps sixteen bits, also of a negative one.         *)
SizeIsRight(item) ==
  LET bits == Total(item.elements) % SizeLimit
  IN /\ bits % ByteBits = 0
     /\ item.type = "Extended" \/ bits \div ByteBits = item.length

SupportsElements(item) == item.flaws \cap {"function", "mode"} = {}

IndicesMatch(item, subs) ==
  \A n \in DOMAIN item.elements :
    item.elements[n] \in 0 .. Len(subs) - 1 /\ subs[item.elements[n] + 1].name = item.names[n]

ItemIsValid(item, d) ==
  CASE item.type \in WithElements -> SizeIsRight(item) /\ SupportsElements(item)
    [] item.type = "Compound"     -> IndicesMatch(item, d.subs)
    [] OTHER                      -> TRUE

(* The element names of every collection must be unique together; those of *)
(* compound and explicit items are not compared, and neither is what a     *)
(* repetition will add.                                                    *)
ElementNames(items) ==
  [n \in DOMAIN items |-> IF items[n].type \in WithElements THEN items[n].names ELSE <<>>]

(* In lists of items, each a list of names: only these stand at two places. *)
NamesDiffer(lists) ==
  \A a, b \in DOMAIN lists : \A n \in DOMAIN lists[a], m \in DOMAIN lists[b] :
    \A e \in DOMAIN lists[a][n], f \in DOMAIN lists[b][m] :
      lists[a][n][e] = lists[b][m][f] /\ lists[a][n][e] \notin {"Spare", "FX"}
      => a = b /\ n = m /\ e = f

Collections == {"items", "subs", "ref", "spf"}
NamesAreUnique(d) == NamesDiffer([collection \in Collections |-> ElementNames(d[collection])])

(* compoundJsonValidator, REF_SPF_JsonValidator and jsonValidator.          *)
SubitemsAreValid(d) ==
  \A item \in ToSet(d.subs) : ItemIsValid(item, d) /\ item.type # "Compound"

FieldIsValid(field, d) ==
  \A item \in ToSet(field) :
    ItemIsValid(item, d) /\ ~(item.type = "Explicit" /\ item.name \in {RE, SP})

IsValid(d) ==
  /\ SubitemsAreValid(d) /\ FieldIsValid(d.ref, d) /\ FieldIsValid(d.spf, d)
  /\ \A item \in ToSet(d.items) :
       /\ ItemIsValid(item, d)
       /\ item.type = "Explicit" /\ item.name = RE => IndicesMatch(item, d.ref)
       /\ item.type = "Explicit" /\ item.name = SP => IndicesMatch(item, d.spf)
  /\ NamesAreUnique(d)

-----------------------------------------------------------------------------
(* convertInformationFromStringToEnum and fillElementsMap.                 *)
Suffixed(name, repetition) ==
  IF repetition = 0 THEN name ELSE name \o "_" \o ToString(repetition)

WithRepetitions(items) ==
  [n \in DOMAIN items |->
    IF items[n].type # "Repetitive" THEN items[n]
    ELSE LET m == Len(items[n].names)
         IN [items[n] EXCEPT
              !.names = [e \in 1 .. m * Repetitions |->
                           Suffixed(items[n].names[((e - 1) % m) + 1], (e - 1) \div m)],
              !.elements = [e \in 1 .. m * Repetitions |-> items[n].elements[((e - 1) % m) + 1]]]]

Converted(d) ==
  [d EXCEPT !.items = WithRepetitions(d.items), !.subs = WithRepetitions(d.subs),
            !.ref = WithRepetitions(d.ref), !.spf = WithRepetitions(d.spf)]

NamesAndPlaces(d, collection) ==
  FlattenSeq([n \in DOMAIN d[collection] |->
    IF collection # "subs" /\ d[collection][n].type \notin WithElements THEN <<>>
    ELSE [e \in DOMAIN d[collection][n].names |-> <<d[collection][n].names[e], collection, n>>]])

AllNamesAndPlaces(d) ==
  NamesAndPlaces(d, "items") \o NamesAndPlaces(d, "subs")
    \o NamesAndPlaces(d, "ref") \o NamesAndPlaces(d, "spf")

(* An element name leads to the first item that has it.                    *)
ElementsMap(d) ==
  LET all == AllNamesAndPlaces(d)
      first(name) == CHOOSE n \in DOMAIN all :
                       all[n][1] = name /\ \A p \in 1 .. n - 1 : all[p][1] # name
  IN [name \in {all[n][1] : n \in DOMAIN all} |-> <<all[first(name)][2], all[first(name)][3]>>]

(* Mutant: the map is filled before the repetitions are made.              *)
MutantCompleted(d) == [Converted(d) EXCEPT !.elementsMap = ElementsMap(d)]

Completed(d) == [Converted(d) EXCEPT !.elementsMap = ElementsMap(Converted(d))]

-----------------------------------------------------------------------------
(* The loader.                                                             *)
NewDescription ==
  [items |-> <<>>, subs |-> <<>>, ref |-> <<>>, spf |-> <<>>,
   mandatoryItemFRNs |-> {}, elementsMap |-> <<>>]

Category == config.categories[i]
This == heap[Len(heap)]

(* An error returns with its code, an exception without: either way the    *)
(* locals go and the description that was begun is forgotten.              *)
Leave(verdict) ==
  /\ verdict # "SUCCESS"
  /\ IF verdict = "exception" THEN stage' = "threw" /\ UNCHANGED status
     ELSE stage' = "idle" /\ status' = verdict
  /\ ext' = NoLocals
  /\ UNCHANGED <<i, j>>

LoadAsterixConfiguration(c) ==
  /\ stage \in {"idle", "threw"} /\ loads < MaxLoads
  /\ loads' = loads + 1
  /\ config' = c
  /\ i' = 1 /\ j' = 1
  /\ LET verdict == ReadVerdict(c)
     IN CASE verdict = "SUCCESS"   -> stage' = "category" /\ status' = verdict
          [] verdict = "exception" -> stage' = "threw" /\ status' = "SUCCESS"
          [] OTHER                 -> stage' = "idle" /\ status' = verdict
  /\ ext' = NoLocals
  /\ UNCHANGED mapVars

(* A category is begun: its description exists from here on.               *)
BeginCategory ==
  /\ stage = "category" /\ i <= Len(config.categories)
  /\ heap' = Append(heap, NewDescription)
  /\ made' = Append(made, Category)
  /\ deleted' = Append(deleted, 0)
  /\ IF Category.number = 0 THEN Leave("AST_CONFIG_LOADER_ERROR")
     ELSE stage' = "uap" /\ UNCHANGED <<loopVars, status>>
  /\ UNCHANGED <<config, uapMap, loads>>

EndOfConfiguration ==
  /\ stage = "category" /\ i > Len(config.categories)
  /\ stage' = "idle" /\ ext' = NoLocals
  /\ UNCHANGED <<config, i, j, mapVars, status, loads>>

LoadUapAndMandatoryItemsList ==
  /\ stage = "uap"
  /\ LET f == Category.uap
         verdict == IF ReadVerdict(f) = "SUCCESS" THEN UapVerdict(f) ELSE ReadVerdict(f)
     IN \/ Leave(verdict)
        \/ /\ verdict = "SUCCESS"
           /\ ext' = [ext EXCEPT !.uap = PreparedUap(f), !.mandatory = PreparedMandatory(f)]
           /\ stage' = "items"
           /\ UNCHANGED <<i, j, status>>
  /\ UNCHANGED <<config, mapVars, loads>>

(* Items are required, the fields are optional: an empty path leaves what  *)
(* the collections hold.                                                   *)
LoadDescription(f, collection, next) ==
  LET verdict == IF ReadVerdict(f) = "SUCCESS" THEN DescriptionVerdict(f) ELSE ReadVerdict(f)
  IN \/ f.state = "none" /\ collection # "items" /\ stage' = next /\ UNCHANGED <<loopVars, status>>
     \/ ~(f.state = "none" /\ collection # "items") /\ Leave(verdict)
     \/ /\ verdict = "SUCCESS"
        /\ ext' = [ext EXCEPT ![collection] = Prepared(f)]
        /\ stage' = next
        /\ UNCHANGED <<i, j, status>>

LoadItems ==
  /\ stage = "items" /\ LoadDescription(Category.items, "items", "ref")
  /\ UNCHANGED <<config, mapVars, loads>>
LoadRef ==
  /\ stage = "ref" /\ LoadDescription(Category.ref, "ref", "spf")
  /\ UNCHANGED <<config, mapVars, loads>>
LoadSpf ==
  /\ stage = "spf" /\ LoadDescription(Category.spf, "spf", "marshal")
  /\ UNCHANGED <<config, mapVars, loads>>

UpdateThis(d) == heap' = [heap EXCEPT ![Len(heap)] = d]

(* The subitems of the fields end up behind those of the items.            *)
PerformMarshalling ==
  /\ stage = "marshal"
  /\ LET m == MarshalledFiles(ext)
         verdict == MarshalVerdict(AllExternal(ext), m)
         behind == m.subs \o TimesCompounds(m.ref, m.refSubs)
     IN \/ Leave(verdict) /\ UNCHANGED heap
        \/ /\ verdict = "SUCCESS"
           /\ UpdateThis([This EXCEPT
                !.items = m.items,
                !.subs = behind \o TimesCompounds(m.spf, m.spfSubs),
                !.ref = WithNewIndices(m.ref, m.refSubs, Len(m.subs)),
                !.spf = WithNewIndices(m.spf, m.spfSubs, Len(behind))])
           /\ stage' = "order"
           /\ UNCHANGED <<loopVars, status>>
  /\ UNCHANGED <<config, made, uapMap, deleted, loads>>

PutInOrder ==
  /\ stage = "order"
  /\ LET verdict == OrderVerdict(ext.uap, This)
     IN \/ Leave(verdict) /\ UNCHANGED heap
        \/ /\ verdict = "SUCCESS"
           /\ UpdateThis([This EXCEPT !.items = InOrder(ext.uap, This),
                                      !.mandatoryItemFRNs = MandatoryItemFRNs(ext.uap, ext.mandatory)])
           /\ stage' = "validate"
           /\ UNCHANGED <<loopVars, status>>
  /\ UNCHANGED <<config, made, uapMap, deleted, loads>>

(* Converting the names and filling the elements map cannot fail.          *)
Validate ==
  /\ stage = "validate"
  /\ \/ ~IsValid(This) /\ Leave("AST_MALFORMED_DESCRIPTION") /\ UNCHANGED heap
     \/ /\ IsValid(This)
        /\ UpdateThis(Completed(This))
        /\ stage' = "default"
        /\ UNCHANGED <<loopVars, status>>
  /\ UNCHANGED <<config, made, uapMap, deleted, loads>>

AddKey(key) ==
  uapMap' = [k \in DOMAIN uapMap \cup {key} |-> IF k = key THEN Len(heap) ELSE uapMap[k]]

AddDefault ==
  /\ stage = "default"
  /\ \/ /\ Category.default /\ Category.number \in DOMAIN uapMap
        /\ Leave("AST_CONFIG_LOADER_ERROR") /\ UNCHANGED uapMap
     \/ /\ Category.default => Category.number \notin DOMAIN uapMap
        /\ IF Category.default THEN AddKey(Category.number) ELSE UNCHANGED uapMap
        /\ stage' = "sources" /\ j' = 1
        /\ UNCHANGED <<i, ext, status>>
  /\ UNCHANGED <<config, heap, made, deleted, loads>>

(* splitDatasourceString: CAT, SAC and SIC of three digits each; what      *)
(* follows the digits of the SIC takes the place of zeros.                 *)
ThreeDigits == 1000
Power(digits) == CASE digits = 1 -> 10 [] digits = 2 -> 100 [] OTHER -> ThreeDigits
Digits(n) == CASE n > 99 -> 3 [] n \in 10 .. 99 -> 2 [] OTHER -> 1

(* Mutant: the SIC is not filled up with zeros.                            *)
MutantSourceKey(category, s) ==
  (category * ThreeDigits + s.sac) * Power(Digits(s.sic)) + s.sic

SourceKey(category, s) ==
  (category * ThreeDigits + s.sac) * Power(3 - s.trailing) + s.sic

AddDataSource ==
  /\ stage = "sources" /\ j <= Len(Category.sources)
  /\ LET s == Category.sources[j]
         key == SourceKey(Category.number, s)
     IN \/ /\ s.wrong \/ s.sac > 255 \/ s.sic > 255 \/ key \in DOMAIN uapMap
           /\ Leave("AST_CONFIG_LOADER_ERROR") /\ UNCHANGED uapMap
        \/ /\ ~(s.wrong \/ s.sac > 255 \/ s.sic > 255 \/ key \in DOMAIN uapMap)
           /\ AddKey(key)
           /\ j' = j + 1
           /\ UNCHANGED <<stage, i, ext, status>>
  /\ UNCHANGED <<config, heap, made, deleted, loads>>

(* Mutant: the collections of the turn are not cleared.                    *)
MutantEndCategory ==
  /\ stage = "sources" /\ j > Len(Category.sources)
  /\ i' = i + 1 /\ stage' = "category"
  /\ UNCHANGED <<config, j, ext, mapVars, status, loads>>

(* The collections are cleared, UAP and mandatory items are not.           *)
EndCategory ==
  /\ stage = "sources" /\ j > Len(Category.sources)
  /\ i' = i + 1 /\ stage' = "category"
  /\ ext' = [ext EXCEPT !.items = NoItems, !.ref = NoItems, !.spf = NoItems]
  /\ UNCHANGED <<config, j, mapVars, status, loads>>

(* One delete per KEY of the map, whatever it points to.                   *)
ReleaseMemory ==
  /\ stage \in {"idle", "threw"} /\ loads > 0
  /\ deleted' = [h \in DOMAIN heap |-> Cardinality({k \in DOMAIN uapMap : uapMap[k] = h})]
  /\ stage' = "released"
  /\ UNCHANGED <<config, loopVars, heap, made, uapMap, status, loads>>

Init ==
  /\ config \in Configurations
  /\ stage = "idle" /\ i = 1 /\ j = 1 /\ ext = NoLocals
  /\ heap = <<>> /\ made = <<>> /\ uapMap = <<>> /\ deleted = <<>>
  /\ status = "SUCCESS" /\ loads = 0

Load ==
  \/ loads = 0 /\ LoadAsterixConfiguration(config)
  \/ loads > 0 /\ \E c \in Retries : LoadAsterixConfiguration(c)

Next ==
  \/ Load \/ BeginCategory \/ EndOfConfiguration
  \/ LoadUapAndMandatoryItemsList \/ LoadItems \/ LoadRef \/ LoadSpf
  \/ PerformMarshalling \/ PutInOrder \/ Validate
  \/ AddDefault \/ AddDataSource \/ EndCategory
  \/ ReleaseMemory

Spec == Init /\ [][Next]_vars

-----------------------------------------------------------------------------
(* The parser's lookup of a record's description, 0 for none: SAC and SIC  *)
(* are the bytes behind the FSPEC, with three digits each.                 *)
Found(key, default) ==
  CASE key \in DOMAIN uapMap -> uapMap[key]
    [] key \notin DOMAIN uapMap /\ default \in DOMAIN uapMap -> uapMap[default]
    [] OTHER -> 0

ParserFinds(cat, sac, sic) ==
  Found((cat * ThreeDigits + sac) * ThreeDigits + sic, cat)

(* The encoder's, for a record given by its elements: the decimal texts of *)
(* CAT, SAC and SIC in a row, however many digits they have.               *)
EncoderFinds(cat, sac, sic) ==
  Found((cat * Power(Digits(sac)) + sac) * Power(Digits(sic)) + sic, cat)

-----------------------------------------------------------------------------
(* What the files say, told without the loader's arithmetic.               *)
ReadableFiles(c) ==
  /\ c.uap.state = "ok" /\ c.items.state = "ok"
  /\ c.ref.state \in {"ok", "none"} /\ c.spf.state \in {"ok", "none"}

Contents(f) == IF f.state = "ok" THEN Prepared(f) ELSE NoItems

(* An item of a size that can be counted is as long as its elements.       *)
SizeIsDescribed(item) ==
  LET bits == Total([e \in DOMAIN item.elements |-> item.elements[e].bits])
  IN item.type \in WithElements =>
       /\ bits \in 0 .. SizeLimit - 1
       /\ IF item.type = "Extended" THEN bits % ByteBits = 0 ELSE bits = ByteBits * item.length

WellDescribed(item) ==
  /\ item.name # "" /\ item.elements # <<>> /\ SizeIsDescribed(item)
  /\ item.type # "Explicit" /\ \A e \in ToSet(item.elements) : e.flaw = "none"

FileWellFormed(f) ==
  f.state = "ok" =>
    /\ f.items # <<>> /\ \A item \in ToSet(f.items) \cup ToSet(f.subs) : WellDescribed(item)
    /\ \A item \in ToSet(f.subs) : item.type # "Compound"

SameNames(elements, subs) ==
  [n \in DOMAIN elements |-> elements[n].name] = [n \in DOMAIN subs |-> subs[n].name]

(* The items file says with an index which subitem it means; the file of   *)
(* a field has one compound item, whose subitems are all those of the file.*)
SubitemsAreNamed(c) ==
  /\ \A item \in ToSet(Contents(c.items).items) : item.type = "Compound" =>
       \A e \in ToSet(item.elements) :
         e.bits \in 0 .. Len(c.items.subs) - 1 /\ c.items.subs[e.bits + 1].name = e.name
  /\ \A f \in {Contents(c.ref), Contents(c.spf)} :
       /\ Cardinality(Compounds(f.items)) = IF f.subs = <<>> THEN 0 ELSE 1
       /\ \A n \in Compounds(f.items) : SameNames(f.items[n].elements, f.subs)

(* No two elements of the files of a category have a name in common.       *)
NamesOfElements(items) ==
  [n \in DOMAIN items |-> IF items[n].type \in WithElements THEN Names(items[n].elements) ELSE <<>>]
ElementsDiffer(c) ==
  LET in(f, part) == NamesOfElements(Contents(f)[part])
  IN NamesDiffer(<<in(c.items, "items"), in(c.items, "subs"), in(c.ref, "items"),
                   in(c.ref, "subs"), in(c.spf, "items"), in(c.spf, "subs")>>)

WellFormed(c) ==
  /\ c.number > 0 /\ ReadableFiles(c)
  /\ UapVerdict(c.uap) = "SUCCESS"
  /\ LET uap == PreparedUap(c.uap)
     IN \A frn \in DOMAIN uap :
          /\ uap[frn] \in {"-", RE, SP} \cup ToSet(Names(Contents(c.items).items))
          /\ uap[frn] # "-" => IsFirst(frn, uap)
  /\ FileWellFormed(c.items) /\ FileWellFormed(c.ref) /\ FileWellFormed(c.spf)
  /\ SubitemsAreNamed(c) /\ ElementsDiffer(c)

KeysOf(c) ==
  (IF c.default THEN {c.number} ELSE {}) \cup {SourceKey(c.number, s) : s \in ToSet(c.sources)}

(* No two categories, and no two sources of one, claim a key.              *)
KeysAreFree(categories) ==
  \A n \in DOMAIN categories :
    LET c == categories[n]
        key(p) == SourceKey(c.number, c.sources[p])
    IN /\ \A s \in ToSet(c.sources) : ~s.wrong /\ s.sac <= 255 /\ s.sic <= 255
       /\ \A p \in DOMAIN c.sources :
            /\ c.default => key(p) # c.number
            /\ \A q \in 1 .. p - 1 : key(q) # key(p)
       /\ \A m \in 1 .. n - 1 : KeysOf(c) \cap KeysOf(categories[m]) = {}

-----------------------------------------------------------------------------
Accepted == {uapMap[k] : k \in DOMAIN uapMap}

(* A first load fails, with an error or an exception, only if some         *)
(* category of the configuration is not well-formed: renumbering, ordering *)
(* and validating lose nothing that a correct file says.                   *)
WellFormedIsLoaded ==
  /\ stage \in {"idle", "threw"} /\ loads = 1
  /\ config.state = "ok" /\ KeysAreFree(config.categories)
  /\ \A n \in DOMAIN config.categories : WellFormed(config.categories[n])
  => stage = "idle" /\ status = "SUCCESS" /\ Len(heap) = Len(config.categories)

(* The n-th index of a compound item leads to the subitem that was made    *)
(* of the one in the file.                                                 *)
LeadsTo(d, item, n, sub) ==
  /\ item.elements[n] \in 0 .. Len(d.subs) - 1
  /\ LET inner == d.subs[item.elements[n] + 1]
     IN inner.name = sub.name /\ inner.names[1] = sub.elements[1].name

OwnField(d, field, f) ==
  /\ Names(field) = Names(Contents(f).items)
  /\ \A m \in Compounds(field) : \A n \in DOMAIN Contents(f).subs :
       LeadsTo(d, field[m], CompoundsBefore(field, m) * Len(Contents(f).subs) + n, Contents(f).subs[n])

OwnCompounds(d, f) ==
  \A frn \in Compounds(d.items) : \E item \in ToSet(Contents(f).items) :
    /\ item.name = d.items[frn].name
    /\ \A n \in DOMAIN item.elements :
         item.elements[n].bits \in 0 .. Len(Contents(f).subs) - 1
         => LeadsTo(d, d.items[frn], n, Contents(f).subs[item.elements[n].bits + 1])

(* Whatever was loaded or failed before or after it, a description in the  *)
(* map is of its own category's files alone: the item of FRN n is the one  *)
(* the UAP names, the fields hold their own files' items, and the indices  *)
(* of a compound item lead to the subitems of the file it is in (those of  *)
(* a second compound item of a field from where the first one ends).       *)
OnlyOwnDescription ==
  \A h \in Accepted :
    LET d == heap[h]
        c == made[h]
    IN /\ Names(d.items) = PreparedUap(c.uap)
       /\ OwnField(d, d.ref, c.ref) /\ OwnField(d, d.spf, c.spf)
       /\ OwnCompounds(d, c.items)

(* The parser asks for the mandatory FRNs, the encoder for the flag of an  *)
(* item: they mean the same items when none is named twice as mandatory,   *)
(* but for RE, SP and "-", which get no flag.                              *)
MandatoryAgrees ==
  \A h \in Accepted :
    LET d == heap[h]
    IN IsInjective(PreparedMandatory(made[h].uap)) =>
         \A frn \in DOMAIN d.items : d.items[frn].name \notin {RE, SP, "-"} =>
           (frn \in d.mandatoryItemFRNs <=> d.items[frn].mandatory)

(* Every element the parser may put into a record, copies of repeated ones *)
(* included, is found by its name when the record is encoded, in the item  *)
(* it came from unless another item has an element of this name.           *)
ElementFound ==
  \A h \in Accepted :
    LET d == heap[h]
        Places == UNION {{c} \X DOMAIN d[c] : c \in Collections}
        NamesAt(p) == ToSet(d[p[1]][p[2]].names)
    IN \A p \in Places : d[p[1]][p[2]].type \in WithElements => \A name \in NamesAt(p) :
         /\ name \in DOMAIN d.elementsMap
         /\ \/ d.elementsMap[name] = p
            \/ d.elementsMap[name] \in {q \in Places \ {p} : name \in NamesAt(q)}

(* After a load without an error a datablock of a declared source is       *)
(* parsed with the description declared for it, and any other of the       *)
(* category with its default; the encoder finds the same one when SAC and  *)
(* SIC have three digits.  No source may carry a trailing text.            *)
SourcesResolve ==
  /\ stage = "idle" /\ status = "SUCCESS" /\ loads = 1
  /\ \A n \in DOMAIN made : \A s \in ToSet(made[n].sources) : s.trailing = 0
  => \A n \in DOMAIN made : LET c == made[n] IN
       /\ \A s \in ToSet(c.sources) :
            /\ ParserFinds(c.number, s.sac, s.sic) = n
            /\ Digits(s.sac) = 3 /\ Digits(s.sic) = 3 => EncoderFinds(c.number, s.sac, s.sic) = n
       /\ c.default => \A sac, sic \in {0, 1, 12, 112, 120, 255} :
            (\A m \in DOMAIN made : made[m].number = c.number =>
                \A s \in ToSet(made[m].sources) : <<s.sac, s.sic>> # <<sac, sic>>)
            => ParserFinds(c.number, sac, sic) = n
=============================================================================
