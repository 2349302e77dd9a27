-------------------------- MODULE DescriptionsProofs --------------------------
(***************************************************************************)
(* What a load leaves in the map of descriptions, for every configuration, *)
(* whatever the files hold and whatever was loaded before.                 *)
(*                                                                         *)
(* Which description a key leads to: KeysInv follows the loop over the     *)
(* categories and their data sources and says which claims are entered.    *)
(* What a description holds: LocalsInv says what the loader has read at    *)
(* each stage, Described what is known of a description at each stage, and *)
(* one lemma per stage (MarshallingDescribes, OrderDescribes,              *)
(* CompletionDescribes) takes it to the next one.                          *)
(* That correct files are accepted: Draft says what the marshalled files   *)
(* of a well-formed category are, and LoadingInv follows their first load. *)
(***************************************************************************)
EXTENDS Descriptions, SequenceTheorems, FiniteSetTheorems, WellFoundedInduction, TLAPS

IsSeq(s) == s \in Seq(ToSet(s))

(* The stages of a category's turn, and the categories there can be.       *)
Working == {"uap", "items", "ref", "spf", "marshal", "order", "validate", "default", "sources"}
Stages == Working \cup {"category", "idle", "threw", "released"}
AllCategories == UNION {ToSet(c.categories) : c \in Configurations}

(* A description is made for the category of each turn; until its key is   *)
(* entered nothing in the map leads to it.                                 *)
LoaderInv ==
  /\ config \in Configurations /\ loads \in Nat /\ stage \in Stages
  /\ i \in Nat \ {0} /\ j \in Nat \ {0}
  /\ IsSeq(heap) /\ made \in Seq(AllCategories) /\ Len(made) = Len(heap)
  /\ \A k \in DOMAIN uapMap : uapMap[k] \in 1 .. Len(heap)
  /\ stage \in Working =>
       /\ i <= Len(config.categories) /\ Len(heap) >= 1
       /\ made[Len(heap)] = Category /\ Category.number # 0
  /\ stage \in Working \ {"sources"} => \A k \in DOMAIN uapMap : uapMap[k] # Len(heap)
  /\ loads = 0 => stage = "idle" /\ made = <<>> /\ DOMAIN uapMap = {}

-----------------------------------------------------------------------------
(* Sequences of anything.                                                  *)
LEMMA SeqFacts ==
  ASSUME NEW s, IsSeq(s)
  PROVE  /\ Len(s) \in Nat /\ DOMAIN s = 1 .. Len(s)
         /\ s = [n \in 1 .. Len(s) |-> s[n]]
BY DEF IsSeq

LEMMA SeqIsSeq ==
  ASSUME NEW S, NEW s \in Seq(S)
  PROVE  IsSeq(s)
<1>1. /\ Len(s) \in Nat /\ DOMAIN s = 1 .. Len(s) /\ s = [n \in 1 .. Len(s) |-> s[n]]
  OBVIOUS
<1>2. \A n \in 1 .. Len(s) : s[n] \in ToSet(s)
  BY <1>1 DEF ToSet
<1> QED
  BY <1>1, <1>2 DEF IsSeq

LEMMA BuiltIsSeq ==
  ASSUME NEW m \in Nat, NEW s, DOMAIN s = 1 .. m, s = [n \in 1 .. m |-> s[n]]
  PROVE  IsSeq(s) /\ Len(s) = m
<1>1. \A n \in 1 .. m : s[n] \in ToSet(s)
  BY DEF ToSet
<1>2. s \in [1 .. m -> ToSet(s)]
  BY <1>1
<1>3. s \in Seq(ToSet(s))
  BY <1>2, SeqDef
<1> QED
  BY <1>3, LenProperties DEF IsSeq

LEMMA AppendIsSeq ==
  ASSUME NEW s, IsSeq(s), NEW e, NEW t, t = Append(s, e)
  PROVE  /\ IsSeq(t) /\ Len(t) = Len(s) + 1 /\ t[Len(s) + 1] = e
         /\ \A n \in 1 .. Len(s) : t[n] = s[n]
<1> DEFINE S == ToSet(s) \cup {e}
<1>1. s \in Seq(S)
  BY SeqFacts DEF IsSeq
<1>2. e \in S
  OBVIOUS
<1> HIDE DEF S
<1>3. t \in Seq(S) /\ Len(t) = Len(s) + 1 /\ t[Len(s) + 1] = e
      /\ \A n \in 1 .. Len(s) : t[n] = s[n]
  BY <1>1, <1>2, AppendProperties
<1> QED
  BY <1>3, SeqIsSeq

(* The description under construction is replaced.                         *)
Replaced(s, e) == [s EXCEPT ![Len(s)] = e]

LEMMA ReplaceIsSeq ==
  ASSUME NEW s, IsSeq(s), Len(s) >= 1, NEW e
  PROVE  /\ IsSeq(Replaced(s, e)) /\ Len(Replaced(s, e)) = Len(s) /\ Replaced(s, e)[Len(s)] = e
         /\ \A n \in 1 .. Len(s) - 1 : Replaced(s, e)[n] = s[n]
<1> DEFINE t == Replaced(s, e)
<1>t. t = [s EXCEPT ![Len(s)] = e]
  BY DEF Replaced
<1>1. /\ Len(s) \in Nat /\ DOMAIN s = 1 .. Len(s) /\ s = [n \in 1 .. Len(s) |-> s[n]]
  BY SeqFacts
<1> HIDE DEF t
<1>2. DOMAIN t = 1 .. Len(s) /\ t = [n \in 1 .. Len(s) |-> t[n]]
  BY <1>1, <1>t
<1>3. t[Len(s)] = e /\ \A n \in 1 .. Len(s) - 1 : t[n] = s[n]
  BY <1>1, <1>t
<1>4. IsSeq(t) /\ Len(t) = Len(s)
  BY <1>1, <1>2, BuiltIsSeq
<1> QED
  BY <1>3, <1>4 DEF t

-----------------------------------------------------------------------------
(* What json makes of the categories.                                      *)
LEMMA CategoryFacts ==
  ASSUME NEW c \in AllCategories
  PROVE  /\ c.number \in 0 .. 2147 /\ c.default \in BOOLEAN
         /\ c.sources \in Seq(DataSource)
         /\ c.uap.uap \in Seq(STRING) /\ c.uap.mandatory \in Seq(STRING)
         /\ \A f \in {c.items, c.ref, c.spf} :
              /\ f.state \in FileStates
              /\ f.items \in Seq(ExternalItem) /\ f.subs \in Seq(ExternalItem)
BY ConfigurationsAssumption DEF AllCategories

LEMMA CategoriesAreSeq ==
  ASSUME NEW c \in Configurations
  PROVE  c.categories \in Seq(AllCategories)
<1>1. IsSeq(c.categories)
  BY ConfigurationsAssumption DEF IsSeq
<1>2. ToSet(c.categories) \subseteq AllCategories
  BY DEF AllCategories
<1> QED
  BY <1>1, <1>2 DEF IsSeq

LEMMA CategoryOfTurn ==
  ASSUME LoaderInv, i <= Len(config.categories)
  PROVE  Category \in AllCategories
<1>1. config.categories \in Seq(AllCategories)
  BY CategoriesAreSeq DEF LoaderInv
<1>2. i \in 1 .. Len(config.categories)
  BY <1>1 DEF LoaderInv
<1> QED
  BY <1>1, <1>2, ElementOfSeq DEF Category

-----------------------------------------------------------------------------
(* The steps of the loader, by what they do to the turn.                   *)
Reads == \/ LoadUapAndMandatoryItemsList \/ LoadItems \/ LoadRef \/ LoadSpf
         \/ PerformMarshalling \/ PutInOrder \/ Validate

(* Up to the map, a step of a turn changes the description under           *)
(* construction and the locals alone.                                      *)
LEMMA ReadStep ==
  ASSUME LoaderInv, Reads
  PROVE  /\ stage \in Working \ {"default", "sources"}
         /\ stage' \in (Working \ {"uap", "sources"}) \cup {"idle", "threw"}
         /\ UNCHANGED <<config, made, uapMap, loads, i, j>>
         /\ IsSeq(heap') /\ Len(heap') = Len(heap)
         /\ \A h \in 1 .. Len(heap) - 1 : heap'[h] = heap[h]
         /\ stage' = "idle" => status' # "SUCCESS"
         /\ stage' \in Working => status' = status
<1> DEFINE Ends == stage' \in (Working \ {"uap", "sources"}) \cup {"idle", "threw"}
           Verdict == /\ stage' = "idle" => status' # "SUCCESS"
                      /\ stage' \in Working => status' = status
<1>1. ASSUME NEW v, Leave(v) PROVE Ends /\ Verdict /\ UNCHANGED <<i, j>>
  <2>1. stage' \in {"idle", "threw"} /\ (stage' = "idle" => status' # "SUCCESS") /\ UNCHANGED <<i, j>>
    BY <1>1 DEF Leave
  <2> QED
    BY <2>1 DEF Working
<1>2. IsSeq(heap) /\ Len(heap) \in Nat
  BY SeqFacts DEF LoaderInv
<1>3. CASE LoadUapAndMandatoryItemsList
  <2>1. Ends /\ Verdict /\ UNCHANGED <<i, j>>
    <3>1. CASE stage' = "items" /\ UNCHANGED <<i, j, status>>
      BY <3>1 DEF Working
    <3>2. CASE \E v : Leave(v)
      BY <3>2, <1>1
    <3> QED
      BY <1>3, <3>1, <3>2 DEF LoadUapAndMandatoryItemsList
  <2> QED
    BY <2>1, <1>2, <1>3 DEF LoadUapAndMandatoryItemsList, mapVars, Working
<1>4. ASSUME NEW f, NEW c, NEW next \in {"ref", "spf", "marshal"}, LoadDescription(f, c, next)
      PROVE  Ends /\ Verdict /\ UNCHANGED <<i, j>>
  <2>1. CASE stage' = next /\ UNCHANGED <<i, j, status>>
    BY <2>1 DEF Working
  <2>2. CASE \E v : Leave(v)
    BY <2>2, <1>1
  <2>3. (stage' = next /\ UNCHANGED <<i, j, status>>) \/ \E v : Leave(v)
    BY <1>4 DEF LoadDescription, loopVars
  <2> QED
    BY <2>1, <2>2, <2>3
<1>5. CASE LoadItems \/ LoadRef \/ LoadSpf
  <2>1. Ends /\ Verdict /\ UNCHANGED <<i, j>>
    BY <1>4, <1>5 DEF LoadItems, LoadRef, LoadSpf
  <2> QED
    BY <2>1, <1>2, <1>5 DEF LoadItems, LoadRef, LoadSpf, mapVars, Working
<1>6. ASSUME PerformMarshalling \/ PutInOrder \/ Validate, NEW next \in {"order", "validate", "default"},
             \/ (\E v : Leave(v)) /\ UNCHANGED heap
             \/ stage' = next /\ UNCHANGED <<loopVars, status>> /\ \E d : UpdateThis(d)
      PROVE  /\ Ends /\ Verdict /\ UNCHANGED <<i, j>>
             /\ IsSeq(heap') /\ Len(heap') = Len(heap)
             /\ \A h \in 1 .. Len(heap) - 1 : heap'[h] = heap[h]
  <2>1. CASE (\E v : Leave(v)) /\ UNCHANGED heap
    BY <2>1, <1>1, <1>2
  <2>2. CASE stage' = next /\ UNCHANGED <<loopVars, status>> /\ \E d : UpdateThis(d)
    <3>1. stage \in Working
      BY <1>6 DEF PerformMarshalling, PutInOrder, Validate, Working
    <3>2. Len(heap) >= 1
      BY <3>1 DEF LoaderInv
    <3>3. PICK d : heap' = Replaced(heap, d)
      BY <2>2 DEF UpdateThis, Replaced
    <3>4. /\ IsSeq(heap') /\ Len(heap') = Len(heap)
          /\ \A h \in 1 .. Len(heap) - 1 : heap'[h] = heap[h]
      BY <3>2, <3>3, <1>2, ReplaceIsSeq
    <3> QED
      BY <2>2, <3>4 DEF loopVars, Working
  <2> QED
    BY <1>6, <2>1, <2>2
<1>7. CASE PerformMarshalling
  <2>1. \/ (\E v : Leave(v)) /\ UNCHANGED heap
        \/ stage' = "order" /\ UNCHANGED <<loopVars, status>> /\ \E d : UpdateThis(d)
    BY <1>7 DEF PerformMarshalling
  <2> QED
    BY <2>1, <1>6, <1>7 DEF PerformMarshalling, Working
<1>8. CASE PutInOrder
  <2>1. \/ (\E v : Leave(v)) /\ UNCHANGED heap
        \/ stage' = "validate" /\ UNCHANGED <<loopVars, status>> /\ \E d : UpdateThis(d)
    BY <1>8 DEF PutInOrder
  <2> QED
    BY <2>1, <1>6, <1>8 DEF PutInOrder, Working
<1>9. CASE Validate
  <2>1. \/ (\E v : Leave(v)) /\ UNCHANGED heap
        \/ stage' = "default" /\ UNCHANGED <<loopVars, status>> /\ \E d : UpdateThis(d)
    BY <1>9 DEF Validate
  <2> QED
    BY <2>1, <1>6, <1>9 DEF Validate, Working
<1> QED
  BY <1>3, <1>5, <1>7, <1>8, <1>9 DEF Reads

LEMMA ReadKeepsLoader ==
  ASSUME LoaderInv, Reads
  PROVE  LoaderInv'
<1>1. /\ stage \in Working \ {"default", "sources"}
      /\ stage' \in (Working \ {"uap", "sources"}) \cup {"idle", "threw"}
      /\ UNCHANGED <<config, made, uapMap, loads, i, j>>
      /\ IsSeq(heap') /\ Len(heap') = Len(heap)
  BY ReadStep
<1>2. stage' \in Stages /\ loads # 0
  BY <1>1 DEF Stages, LoaderInv, Working
<1> QED
  BY <1>1, <1>2 DEF LoaderInv, Category

(* A key is entered for the description of the turn, and for no other one. *)
LEMMA KeyEntered ==
  ASSUME NEW key, AddKey(key)
  PROVE  /\ DOMAIN uapMap' = DOMAIN uapMap \cup {key}
         /\ uapMap'[key] = Len(heap)
         /\ \A k \in DOMAIN uapMap \ {key} : uapMap'[k] = uapMap[k]
BY DEF AddKey

LEMMA LoaderStep ==
  ASSUME LoaderInv, [Next]_vars
  PROVE  LoaderInv'
<1>1. CASE Load
  <2>1. PICK c \in Configurations : LoadAsterixConfiguration(c)
    BY <1>1, DescriptionAssumption DEF Load, LoaderInv
  <2>2. /\ config' = c /\ loads' = loads + 1 /\ i' = 1 /\ j' = 1
        /\ UNCHANGED mapVars
        /\ stage' \in {"category", "threw", "idle"}
    BY <2>1 DEF LoadAsterixConfiguration
  <2>3. stage' \in Stages /\ stage' \notin Working /\ loads' # 0 /\ loads' \in Nat
    BY <2>2 DEF LoaderInv, Stages, Working
  <2> QED
    BY <2>2, <2>3 DEF LoaderInv, mapVars
<1>2. CASE BeginCategory
  <2>1. /\ stage = "category" /\ i <= Len(config.categories)
        /\ heap' = Append(heap, NewDescription) /\ made' = Append(made, Category)
        /\ UNCHANGED <<config, uapMap, loads, i, j>>
        /\ stage' \in {"idle", "threw", "uap"}
        /\ stage' = "uap" => Category.number # 0
    BY <1>2 DEF BeginCategory, Leave, loopVars
  <2>2. Category \in AllCategories
    BY <2>1, CategoryOfTurn
  <2>3. IsSeq(heap') /\ Len(heap') = Len(heap) + 1
    <3>1. IsSeq(heap)
      BY DEF LoaderInv
    <3> QED
      BY ONLY <2>1, <3>1, AppendIsSeq
  <2>4. made' \in Seq(AllCategories) /\ Len(made') = Len(made) + 1 /\ made'[Len(made) + 1] = Category
    <3>1. made \in Seq(AllCategories)
      BY DEF LoaderInv
    <3> QED
      BY ONLY <2>1, <2>2, <3>1, AppendProperties
  <2>5. Len(heap) \in Nat
    BY SeqFacts DEF LoaderInv
  <2>6. stage' \in Stages /\ loads # 0 /\ Category' = Category
    BY <2>1 DEF LoaderInv, Stages, Working, Category
  <2>7. \A k \in DOMAIN uapMap' : uapMap'[k] \in 1 .. Len(heap)
    BY <2>1 DEF LoaderInv
  <2>8. stage' \in Working => stage' = "uap"
    BY <2>1 DEF Working
  <2> QED
    BY <2>1, <2>3, <2>4, <2>5, <2>6, <2>7, <2>8 DEF LoaderInv
<1>3. CASE EndOfConfiguration
  <2>1. stage = "category" /\ stage' = "idle" /\ UNCHANGED <<config, i, j, mapVars, loads>>
    BY <1>3 DEF EndOfConfiguration
  <2>2. stage' \in Stages /\ stage' \notin Working /\ loads # 0
    BY <2>1 DEF LoaderInv, Stages, Working
  <2> QED
    BY <2>1, <2>2 DEF LoaderInv, mapVars
<1>4. CASE Reads
  BY <1>4, ReadKeepsLoader
<1>5. ASSUME stage \in Working, loads # 0, UNCHANGED <<config, heap, made, loads, i>>, j' \in Nat \ {0},
             stage' \in {"idle", "threw", "sources"},
             \/ UNCHANGED uapMap
             \/ \E key : AddKey(key)
      PROVE  LoaderInv'
  <2>1. stage' \in Stages /\ stage' \notin Working \ {"sources"} /\ loads' # 0
    BY <1>5 DEF Stages, Working
  <2>2. /\ Len(heap) >= 1 /\ Len(heap) \in Nat /\ i <= Len(config.categories)
        /\ made[Len(heap)] = Category /\ Category.number # 0
    BY <1>5, SeqFacts DEF LoaderInv
  <2>3. \A k \in DOMAIN uapMap' : uapMap'[k] \in 1 .. Len(heap)
    <3>1. CASE UNCHANGED uapMap
      BY <3>1 DEF LoaderInv
    <3>2. ASSUME NEW key, AddKey(key), NEW k \in DOMAIN uapMap' PROVE uapMap'[k] \in 1 .. Len(heap)
      <4>1. uapMap'[key] \in 1 .. Len(heap)
        BY <3>2, <2>2 DEF AddKey
      <4>2. k # key => k \in DOMAIN uapMap \ {key} /\ uapMap'[k] = uapMap[k]
        BY <3>2 DEF AddKey
      <4> QED
        BY <4>1, <4>2 DEF LoaderInv
    <3> QED
      BY <1>5, <3>1, <3>2
  <2> QED
    BY <1>5, <2>1, <2>2, <2>3 DEF LoaderInv, Category
<1>6. CASE AddDefault
  <2>1. /\ stage = "default" /\ UNCHANGED <<config, heap, made, loads, i>>
        /\ j' \in {j, 1} /\ stage' \in {"idle", "threw", "sources"}
        /\ UNCHANGED uapMap \/ \E key : AddKey(key)
    BY <1>6 DEF AddDefault, Leave
  <2>2. stage \in Working /\ loads # 0 /\ j' \in Nat \ {0}
    BY <2>1 DEF Working, LoaderInv
  <2> QED
    BY <2>1, <2>2, <1>5
<1>7. CASE AddDataSource
  <2>1. /\ stage = "sources" /\ UNCHANGED <<config, heap, made, loads, i>>
        /\ j' \in {j, j + 1} /\ stage' \in {"idle", "threw", "sources"}
        /\ UNCHANGED uapMap \/ \E key : AddKey(key)
    BY <1>7 DEF AddDataSource, Leave
  <2>2. stage \in Working /\ loads # 0 /\ j' \in Nat \ {0}
    BY <2>1 DEF Working, LoaderInv
  <2> QED
    BY <2>1, <2>2, <1>5
<1>8. CASE EndCategory
  <2>1. stage = "sources" /\ stage' = "category" /\ i' = i + 1 /\ UNCHANGED <<config, j, mapVars, loads>>
    BY <1>8 DEF EndCategory
  <2>2. stage' \in Stages /\ stage' \notin Working /\ loads # 0 /\ i' \in Nat \ {0}
    BY <2>1 DEF LoaderInv, Stages, Working
  <2> QED
    BY <2>1, <2>2 DEF LoaderInv, mapVars
<1>9. CASE ReleaseMemory
  <2>1. stage' = "released" /\ loads # 0 /\ UNCHANGED <<config, loopVars, heap, made, uapMap, loads>>
    BY <1>9 DEF ReleaseMemory, LoaderInv
  <2>2. stage' \in Stages /\ stage' \notin Working
    BY <2>1 DEF Stages, Working
  <2> QED
    BY <2>1, <2>2 DEF LoaderInv, loopVars
<1>10. CASE UNCHANGED vars
  BY <1>10 DEF vars, loopVars, mapVars, LoaderInv, Category
<1> QED
  BY <1>1, <1>2, <1>3, <1>4, <1>6, <1>7, <1>8, <1>9, <1>10 DEF Next, Reads

LEMMA LoaderInvariant == Spec => []LoaderInv
<1>1. Init => LoaderInv
  <2> SUFFICES ASSUME Init PROVE LoaderInv
    OBVIOUS
  <2>1. heap = <<>> /\ made = <<>> /\ uapMap = <<>>
    BY DEF Init
  <2>2. IsSeq(heap) /\ made \in Seq(AllCategories) /\ Len(made) = Len(heap) /\ DOMAIN uapMap = {}
    <3>1. <<>> \in Seq(AllCategories) /\ Len(<<>>) = 0 /\ DOMAIN <<>> = {}
      OBVIOUS
    <3>2. IsSeq(<<>>)
      BY <3>1, SeqIsSeq
    <3> QED
      BY <2>1, <3>1, <3>2
  <2> QED
    BY <2>1, <2>2 DEF Init, LoaderInv, Stages, Working
<1> QED
  BY <1>1, LoaderStep, PTL DEF Spec

-----------------------------------------------------------------------------
(* The keys of a first load.  An entry of the map was claimed by the       *)
(* category its description is for; what a category claims is entered for  *)
(* it when its turn is over, and source by source before.                  *)
InOneByte(s) == s.sac <= 255 /\ s.sic <= 255
Claimed(k, c) ==
  /\ c.number # 0
  /\ k = c.number \/ \E s \in ToSet(c.sources) : InOneByte(s) /\ k = SourceKey(c.number, s)

Leads(map, k, n) == k \in DOMAIN map /\ map[k] = n
Entered(map, n, c, last) ==
  /\ c.default => Leads(map, c.number, n)
  /\ \A p \in 1 .. last : InOneByte(c.sources[p]) /\ Leads(map, SourceKey(c.number, c.sources[p]), n)
AllEntered(map, n) == Entered(map, n, made[n], Len(made[n].sources))

FirstLoad ==
  loads = 1 /\ (stage \in Working \/ stage = "category" \/ (stage = "idle" /\ status = "SUCCESS"))
KeysInv ==
  FirstLoad =>
    /\ status = "SUCCESS"
    /\ \A n \in DOMAIN made : made[n].number # 0
    /\ \A k \in DOMAIN uapMap : Claimed(k, made[uapMap[k]])
    /\ \A n \in DOMAIN made : (n = Len(made) /\ stage \in Working) \/ AllEntered(uapMap, n)
    /\ stage = "sources" => Entered(uapMap, Len(made), Category, j - 1)

(* A key that was free is entered: the others lead where they did.         *)
LEMMA EnteredStays ==
  ASSUME NEW n, NEW c, NEW last, Entered(uapMap, n, c, last), NEW key, key \notin DOMAIN uapMap, AddKey(key)
  PROVE  Entered(uapMap', n, c, last)
<1>1. ASSUME NEW k, Leads(uapMap, k, n) PROVE Leads(uapMap', k, n)
  BY <1>1 DEF Leads, AddKey
<1> QED
  BY <1>1 DEF Entered

LEMMA MadeFacts ==
  ASSUME LoaderInv
  PROVE  /\ DOMAIN made = 1 .. Len(made) /\ Len(made) = Len(heap) /\ Len(made) \in Nat
         /\ \A n \in DOMAIN made : made[n] \in AllCategories
BY ElementOfSeq DEF LoaderInv

(* One more key of the category of the turn.                               *)
LEMMA KeyOfTurn ==
  ASSUME LoaderInv, KeysInv, FirstLoad, stage \in Working, NEW key,
         key \notin DOMAIN uapMap, AddKey(key), Claimed(key, Category), UNCHANGED made
  PROVE  /\ \A k \in DOMAIN uapMap' : Claimed(k, made[uapMap'[k]])
         /\ \A n \in DOMAIN made : n # Len(made) => AllEntered(uapMap', n)
         /\ Leads(uapMap', key, Len(made))
<1>1. ASSUME NEW k \in DOMAIN uapMap' PROVE Claimed(k, made[uapMap'[k]])
  <2>1. CASE k = key
    <3>1. uapMap'[k] = Len(heap) /\ made[Len(heap)] = Category
      BY <2>1 DEF AddKey, LoaderInv
    <3> QED
      BY <2>1, <3>1
  <2>2. CASE k # key
    <3>1. k \in DOMAIN uapMap /\ uapMap'[k] = uapMap[k]
      BY <1>1, <2>2 DEF AddKey
    <3> QED
      BY <3>1 DEF KeysInv
  <2> QED
    BY <2>1, <2>2
<1>2. ASSUME NEW n \in DOMAIN made, n # Len(made)
      PROVE  AllEntered(uapMap', n)
  <2>1. AllEntered(uapMap, n)
    BY <1>2 DEF KeysInv
  <2> QED
    BY <2>1, EnteredStays DEF AllEntered
<1>3. Leads(uapMap', key, Len(made))
  BY DEF Leads, AddKey, LoaderInv
<1> QED
  BY <1>1, <1>2, <1>3

LEMMA KeysStep ==
  ASSUME LoaderInv, LoaderInv', KeysInv, [Next]_vars
  PROVE  KeysInv'
<1> USE DEF FirstLoad
<1>s. \A st \in {"idle", "threw", "category", "released"} : st \notin Working
  BY DEF Working
<1>m. /\ DOMAIN made = 1 .. Len(made) /\ Len(made) = Len(heap) /\ Len(made) \in Nat
      /\ \A n \in DOMAIN made : made[n] \in AllCategories
  BY MadeFacts
<1>0. ASSUME UNCHANGED <<made, uapMap, loads>>, FirstLoad' => FirstLoad /\ status' = "SUCCESS",
             FirstLoad' => (stage \in Working <=> stage' \in Working), stage' # "sources"
      PROVE  KeysInv'
  BY <1>0 DEF KeysInv, AllEntered
<1>1. CASE Load
  <2>1. PICK c : LoadAsterixConfiguration(c)
    BY <1>1 DEF Load
  <2>2. /\ loads' = loads + 1 /\ UNCHANGED mapVars
        /\ stage' \in {"category", "threw", "idle"}
        /\ stage' = "category" => status' = "SUCCESS"
    BY <2>1 DEF LoadAsterixConfiguration
  <2>3. CASE loads = 0
    <3>1. DOMAIN uapMap = {} /\ DOMAIN made = {}
      BY <2>3, <1>m DEF LoaderInv
    <3>2. DOMAIN uapMap' = {} /\ DOMAIN made' = {}
      BY <2>2, <3>1 DEF mapVars
    <3>3. FirstLoad' => status' = "SUCCESS"
      BY <2>2, <1>s
    <3>4. stage' # "sources"
      BY <2>2
    <3> QED
      BY <3>2, <3>3, <3>4 DEF KeysInv
  <2>4. CASE loads # 0
    <3>1. loads' # 1
      BY <2>2, <2>4 DEF LoaderInv
    <3> QED
      BY <3>1 DEF KeysInv
  <2> QED
    BY <2>3, <2>4
<1>2. CASE BeginCategory
  <2>1. /\ stage = "category" /\ made' = Append(made, Category)
        /\ UNCHANGED <<uapMap, loads>>
        /\ (stage' = "uap" /\ status' = status /\ Category.number # 0)
              \/ (stage' = "idle" /\ status' # "SUCCESS") \/ stage' = "threw"
        /\ i <= Len(config.categories)
    BY <1>2 DEF BeginCategory, Leave
  <2>2. Category \in AllCategories
    BY <2>1, CategoryOfTurn
  <2>3. /\ DOMAIN made' = 1 .. Len(made) + 1 /\ Len(made') = Len(made) + 1
        /\ made'[Len(made) + 1] = Category
        /\ \A n \in 1 .. Len(made) : made'[n] = made[n]
    BY <2>1, <2>2, <1>m, AppendProperties DEF LoaderInv
  <2>4. SUFFICES ASSUME FirstLoad' PROVE KeysInv'
    BY DEF KeysInv
  <2>5. stage' = "uap" /\ status' = "SUCCESS" /\ FirstLoad /\ Category.number # 0 /\ stage' \in Working
    <3>1. stage' = "uap"
      BY <2>1, <2>4, <1>s
    <3> QED
      BY <2>1, <2>4, <3>1 DEF KeysInv, Working
  <2>6. \A n \in DOMAIN made' : made'[n].number # 0
    BY <2>3, <2>5, <1>m DEF KeysInv
  <2>7. \A k \in DOMAIN uapMap' : Claimed(k, made'[uapMap'[k]])
    <3> SUFFICES ASSUME NEW k \in DOMAIN uapMap PROVE Claimed(k, made'[uapMap[k]])
      BY <2>1
    <3>1. uapMap[k] \in 1 .. Len(made) /\ Claimed(k, made[uapMap[k]])
      BY <2>5, <1>m DEF LoaderInv, KeysInv
    <3> QED
      BY <3>1, <2>3
  <2>8. \A n \in DOMAIN made' : n = Len(made') \/ Entered(uapMap', n, made'[n], Len(made'[n].sources))
    <3> SUFFICES ASSUME NEW n \in 1 .. Len(made) PROVE Entered(uapMap, n, made'[n], Len(made'[n].sources))
      BY <2>1, <2>3, <1>m DEF AllEntered
    <3>1. AllEntered(uapMap, n)
      BY <2>1, <2>5, <1>s, <1>m DEF KeysInv
    <3> QED
      BY <3>1, <2>3 DEF AllEntered
  <2>9. \A n \in DOMAIN made' : n = Len(made') \/ AllEntered(uapMap, n)'
    BY <2>8 DEF AllEntered
  <2> QED
    BY <2>5, <2>6, <2>7, <2>9 DEF KeysInv
<1>3. CASE EndOfConfiguration
  <2>1. stage = "category" /\ stage' = "idle" /\ UNCHANGED <<made, uapMap, loads, status>>
    BY <1>3 DEF EndOfConfiguration, mapVars
  <2> QED
    BY <2>1, <1>0, <1>s DEF KeysInv
<1>4. CASE Reads
  <2>1. /\ stage \in Working
        /\ stage' \in (Working \ {"uap", "sources"}) \cup {"idle", "threw"}
        /\ UNCHANGED <<made, uapMap, loads>>
        /\ stage' = "idle" => status' # "SUCCESS"
        /\ stage' \in Working => status' = status
    BY <1>4, ReadStep
  <2>2. FirstLoad' => FirstLoad /\ status' = "SUCCESS" /\ stage' \in Working
    BY <2>1, <1>s DEF KeysInv
  <2> QED
    BY <2>1, <2>2, <1>0, <1>s
<1>5. CASE AddDefault
  <2>1. /\ stage = "default" /\ UNCHANGED <<config, made, loads, i>>
        /\ \/ stage' = "idle" /\ status' # "SUCCESS"
           \/ stage' = "threw"
           \/ /\ stage' = "sources" /\ j' = 1 /\ UNCHANGED status
              /\ Category.default => Category.number \notin DOMAIN uapMap
              /\ IF Category.default THEN AddKey(Category.number) ELSE UNCHANGED uapMap
    BY <1>5 DEF AddDefault, Leave
  <2>2. SUFFICES ASSUME FirstLoad' PROVE KeysInv'
    BY DEF KeysInv
  <2>3. /\ stage' = "sources" /\ j' = 1 /\ UNCHANGED status
        /\ Category.default => Category.number \notin DOMAIN uapMap
        /\ IF Category.default THEN AddKey(Category.number) ELSE UNCHANGED uapMap
    BY <2>1, <2>2, <1>s
  <2>4. FirstLoad /\ stage \in Working /\ Category.number # 0 /\ Category' = Category /\ status' = "SUCCESS"
    BY <2>1, <2>2, <2>3 DEF Working, LoaderInv, Category, KeysInv
  <2>5. /\ \A k \in DOMAIN uapMap' : Claimed(k, made[uapMap'[k]])
        /\ \A n \in DOMAIN made : n # Len(made) => AllEntered(uapMap', n)
        /\ Category.default => Leads(uapMap', Category.number, Len(made))
    <3>1. CASE Category.default
      <4>1. Claimed(Category.number, Category)
        BY <2>4 DEF Claimed
      <4> QED
        BY <2>1, <2>3, <2>4, <3>1, <4>1, KeyOfTurn
    <3>2. CASE ~Category.default
      BY <2>3, <2>4, <3>2 DEF KeysInv
    <3> QED
      BY <3>1, <3>2
  <2>6. Entered(uapMap', Len(made), Category, j' - 1)
    <3>1. 1 .. j' - 1 = {}
      BY <2>3
    <3> QED
      BY <2>5, <3>1 DEF Entered
  <2>7. \A n \in DOMAIN made : AllEntered(uapMap', n) => AllEntered(uapMap, n)'
    BY <2>1 DEF AllEntered
  <2>8. \A n \in DOMAIN made : made[n].number # 0
    BY <2>4 DEF KeysInv
  <2> QED
    BY <2>1, <2>3, <2>4, <2>5, <2>6, <2>7, <2>8 DEF KeysInv, Working
<1>6. CASE AddDataSource
  <2> DEFINE s == Category.sources[j]
             key == SourceKey(Category.number, s)
  <2>1. /\ stage = "sources" /\ UNCHANGED <<config, made, loads, i>>
        /\ j <= Len(Category.sources)
        /\ \/ stage' = "idle" /\ status' # "SUCCESS"
           \/ stage' = "threw"
           \/ /\ stage' = "sources" /\ j' = j + 1 /\ UNCHANGED status
              /\ ~(s.wrong \/ s.sac > 255 \/ s.sic > 255 \/ key \in DOMAIN uapMap)
              /\ AddKey(key)
    BY <1>6 DEF AddDataSource, Leave
  <2>2. SUFFICES ASSUME FirstLoad' PROVE KeysInv'
    BY DEF KeysInv
  <2>3. /\ stage' = "sources" /\ j' = j + 1 /\ UNCHANGED status
        /\ ~(s.wrong \/ s.sac > 255 \/ s.sic > 255 \/ key \in DOMAIN uapMap)
        /\ AddKey(key)
    BY <2>1, <2>2, <1>s
  <2>4. FirstLoad /\ stage \in Working /\ Category.number # 0 /\ Category' = Category /\ status' = "SUCCESS"
        /\ Category \in AllCategories /\ j \in Nat \ {0}
    BY <2>1, <2>2, <2>3, CategoryOfTurn DEF Working, LoaderInv, Category, KeysInv
  <2>5. j \in 1 .. Len(Category.sources) /\ s \in DataSource /\ s \in ToSet(Category.sources)
    <3>1. Category.sources \in Seq(DataSource)
      BY <2>4, CategoryFacts
    <3>2. j \in 1 .. Len(Category.sources)
      BY <2>1, <2>4, <3>1
    <3> QED
      BY <3>1, <3>2 DEF ToSet
  <2>6. InOneByte(s) /\ key \notin DOMAIN uapMap
    BY <2>3, <2>5 DEF InOneByte, DataSource
  <2>7. Claimed(key, Category)
    BY <2>4, <2>5, <2>6 DEF Claimed
  <2> HIDE DEF key
  <2>8. /\ \A k \in DOMAIN uapMap' : Claimed(k, made[uapMap'[k]])
        /\ \A n \in DOMAIN made : n # Len(made) => AllEntered(uapMap', n)
        /\ Leads(uapMap', key, Len(made))
    BY <2>1, <2>3, <2>4, <2>6, <2>7, KeyOfTurn
  <2>9. Entered(uapMap', Len(made), Category, j)
    <3>1. Entered(uapMap, Len(made), Category, j - 1)
      BY <2>1, <2>4 DEF KeysInv
    <3>2. Entered(uapMap', Len(made), Category, j - 1)
      BY <2>3, <2>6, <3>1, EnteredStays
    <3>3. \A p \in 1 .. j : p = j \/ p \in 1 .. j - 1
      BY <2>4
    <3> QED
      BY <2>6, <2>8, <3>2, <3>3 DEF Entered, key
  <2>10. j' - 1 = j
    BY <2>3, <2>4
  <2>11. \A n \in DOMAIN made : AllEntered(uapMap', n) => AllEntered(uapMap, n)'
    BY <2>1 DEF AllEntered
  <2>12. \A n \in DOMAIN made : made[n].number # 0
    BY <2>4 DEF KeysInv
  <2> QED
    BY <2>1, <2>3, <2>4, <2>8, <2>9, <2>10, <2>11, <2>12 DEF KeysInv, Working
<1>7. CASE EndCategory
  <2>1. stage = "sources" /\ stage' = "category" /\ UNCHANGED <<made, uapMap, loads, status>>
        /\ j > Len(Category.sources)
    BY <1>7 DEF EndCategory, mapVars
  <2>2. SUFFICES ASSUME FirstLoad' PROVE KeysInv'
    BY DEF KeysInv
  <2>3. FirstLoad /\ stage \in Working
    BY <2>1, <2>2 DEF Working
  <2>4. made[Len(made)] = Category /\ Category \in AllCategories /\ j \in Nat
    BY <2>3, <1>m, CategoryOfTurn DEF LoaderInv
  <2>5. AllEntered(uapMap, Len(made))
    <3>1. Entered(uapMap, Len(made), Category, j - 1)
      BY <2>1, <2>3 DEF KeysInv
    <3>2. Len(Category.sources) \in Nat
      BY <2>4, CategoryFacts
    <3>3. \A p \in 1 .. Len(Category.sources) : p \in 1 .. j - 1
      BY <2>1, <2>4, <3>2
    <3> QED
      BY <2>4, <3>1, <3>3 DEF AllEntered, Entered
  <2>6. \A n \in DOMAIN made : AllEntered(uapMap, n) /\ (AllEntered(uapMap, n) => AllEntered(uapMap, n)')
    BY <2>1, <2>3, <2>5 DEF KeysInv, AllEntered
  <2> QED
    BY <2>1, <2>3, <2>6 DEF KeysInv
<1>8. CASE ReleaseMemory
  <2>1. stage' = "released"
    BY <1>8 DEF ReleaseMemory
  <2> QED
    BY <2>1, <1>s DEF KeysInv
<1>9. CASE UNCHANGED vars
  <2>1. UNCHANGED <<config, stage, i, j, made, uapMap, status, loads>>
    BY <1>9 DEF vars, loopVars, mapVars
  <2> QED
    BY <2>1 DEF KeysInv, AllEntered, Category
<1> QED
  BY <1>1, <1>2, <1>3, <1>4, <1>5, <1>6, <1>7, <1>8, <1>9 DEF Next, Reads

(* Keys of three numbers are different when one of the numbers is.         *)
LEMMA KeysDiffer ==
  ASSUME NEW a \in Nat, NEW b \in Nat, NEW c \in Nat, NEW x \in Nat, NEW y \in Nat, NEW z \in Nat,
         b <= 255, c <= 255, y <= 255, z <= 255,
         (a * 1000 + b) * 1000 + c = (x * 1000 + y) * 1000 + z
  PROVE  a = x /\ b = y /\ c = z
OBVIOUS

(* After a first load without an error a datablock of a declared source is *)
(* parsed with the description declared for it, any other one of the       *)
(* category with its default, for every configuration in which no source   *)
(* carries a trailing text (loadAsterixDescription, parseAllRecords).      *)
THEOREM SourcesFindTheirDescription == Spec => []SourcesResolve
<1>1. Init => KeysInv
  BY DEF Init, KeysInv, FirstLoad
<1>2. LoaderInv /\ LoaderInv' /\ KeysInv /\ [Next]_vars => KeysInv'
  BY KeysStep
<1>3. LoaderInv /\ KeysInv => SourcesResolve
  <2> SUFFICES ASSUME LoaderInv, KeysInv, stage = "idle" /\ status = "SUCCESS" /\ loads = 1,
                      \A n \in DOMAIN made : \A s \in ToSet(made[n].sources) : s.trailing = 0,
                      NEW n \in DOMAIN made
               PROVE  LET c == made[n] IN
                      /\ \A s \in ToSet(c.sources) :
                           /\ ParserFinds(c.number, s.sac, s.sic) = n
                           /\ Digits(s.sac) = 3 /\ Digits(s.sic) = 3 => EncoderFinds(c.number, s.sac, s.sic) = n
                      /\ c.default => \A sac, sic \in {0, 1, 12, 112, 120, 255} :
                           (\A m \in DOMAIN made : made[m].number = c.number =>
                               \A s \in ToSet(made[m].sources) : <<s.sac, s.sic>> # <<sac, sic>>)
                           => ParserFinds(c.number, sac, sic) = n
    BY DEF SourcesResolve
  <2> DEFINE c == made[n]
  <2>1. /\ \A m \in DOMAIN made : made[m] \in AllCategories /\ made[m].number # 0
        /\ \A k \in DOMAIN uapMap : uapMap[k] \in DOMAIN made /\ Claimed(k, made[uapMap[k]])
        /\ Entered(uapMap, n, c, Len(c.sources))
    <3>1. stage \notin Working /\ FirstLoad
      BY DEF Working, FirstLoad
    <3> QED
      BY <3>1, MadeFacts DEF KeysInv, LoaderInv, AllEntered
  <2>2. \A m \in DOMAIN made : /\ made[m].number \in 1 .. 2147 /\ made[m].default \in BOOLEAN
                              /\ made[m].sources \in Seq(DataSource)
    BY <2>1, CategoryFacts
  <2>3. \A m \in DOMAIN made : \A s \in ToSet(made[m].sources) :
          /\ s.sac \in Nat /\ s.sic \in Nat
          /\ SourceKey(made[m].number, s) = (made[m].number * 1000 + s.sac) * 1000 + s.sic
    <3> SUFFICES ASSUME NEW m \in DOMAIN made, NEW s \in ToSet(made[m].sources)
                 PROVE  /\ s.sac \in Nat /\ s.sic \in Nat
                        /\ SourceKey(made[m].number, s) = (made[m].number * 1000 + s.sac) * 1000 + s.sic
      OBVIOUS
    <3>1. s \in DataSource /\ s.trailing = 0
      BY <2>2, ElementOfSeq DEF ToSet
    <3> QED
      BY <3>1 DEF DataSource, SourceKey, Power, ThreeDigits
  <2>4. ASSUME NEW s \in ToSet(c.sources)
        PROVE  /\ ParserFinds(c.number, s.sac, s.sic) = n
               /\ Digits(s.sac) = 3 /\ Digits(s.sic) = 3 => EncoderFinds(c.number, s.sac, s.sic) = n
    <3> DEFINE key == (c.number * 1000 + s.sac) * 1000 + s.sic
    <3>1. Leads(uapMap, SourceKey(c.number, s), n)
      <4>1. PICK p \in 1 .. Len(c.sources) : s = c.sources[p]
        BY <2>2, <2>4 DEF ToSet
      <4> QED
        BY <2>1, <4>1 DEF Entered
    <3>2. key \in DOMAIN uapMap /\ uapMap[key] = n
      BY <3>1, <2>3 DEF Leads
    <3>3. ParserFinds(c.number, s.sac, s.sic) = Found(key, c.number)
      BY DEF ParserFinds, ThreeDigits
    <3>4. Digits(s.sac) = 3 /\ Digits(s.sic) = 3 => EncoderFinds(c.number, s.sac, s.sic) = Found(key, c.number)
      BY DEF EncoderFinds, Power, ThreeDigits
    <3> HIDE DEF key
    <3>5. Found(key, c.number) = n
      BY <3>2 DEF Found
    <3> QED
      BY <3>3, <3>4, <3>5
  <2>5. ASSUME c.default, NEW sac \in {0, 1, 12, 112, 120, 255}, NEW sic \in {0, 1, 12, 112, 120, 255},
               \A m \in DOMAIN made : made[m].number = c.number =>
                 \A s \in ToSet(made[m].sources) : <<s.sac, s.sic>> # <<sac, sic>>
        PROVE  ParserFinds(c.number, sac, sic) = n
    <3> DEFINE key == (c.number * 1000 + sac) * 1000 + sic
    <3>1. ASSUME NEW m \in DOMAIN made, Claimed(key, made[m]) PROVE FALSE
      <4> DEFINE number == made[m].number
                 own == c.number
      <4>1. number \in 1 .. 2147 /\ own \in 1 .. 2147 /\ sac \in 0 .. 255 /\ sic \in 0 .. 255
        <5>1. number \in 1 .. 2147 /\ own \in 1 .. 2147
          BY ONLY <2>2, n \in DOMAIN made, m \in DOMAIN made
        <5>2. sac \in 0 .. 255 /\ sic \in 0 .. 255
          BY ONLY sac \in {0, 1, 12, 112, 120, 255}, sic \in {0, 1, 12, 112, 120, 255}
        <5> QED
          BY ONLY <5>1, <5>2
      <4>2. key = (own * 1000 + sac) * 1000 + sic
        OBVIOUS
      <4>3. key = number \/ \E s \in ToSet(made[m].sources) : InOneByte(s) /\ key = SourceKey(number, s)
        BY <3>1 DEF Claimed
      <4>4. own = number => \A s \in ToSet(made[m].sources) : <<s.sac, s.sic>> # <<sac, sic>>
        BY <2>5
      <4>5. \A s \in ToSet(made[m].sources) :
              /\ s.sac \in Nat /\ s.sic \in Nat
              /\ SourceKey(number, s) = (number * 1000 + s.sac) * 1000 + s.sic
        BY <2>3
      <4> HIDE DEF number, own, key
      <4>6. key # number
        BY <4>1, <4>2
      <4>7. PICK s \in ToSet(made[m].sources) : InOneByte(s) /\ key = SourceKey(number, s)
        BY <4>3, <4>6
      <4>8. s.sac \in Nat /\ s.sic \in Nat /\ s.sac <= 255 /\ s.sic <= 255
            /\ key = (number * 1000 + s.sac) * 1000 + s.sic
        BY <4>5, <4>7 DEF InOneByte
      <4>9. number \in Nat /\ own \in Nat /\ sac \in Nat /\ sic \in Nat /\ sac <= 255 /\ sic <= 255
        BY <4>1
      <4>10. own = number /\ sac = s.sac /\ sic = s.sic
        BY <4>2, <4>8, <4>9, KeysDiffer
      <4> QED
        BY <4>4, <4>7, <4>10
    <3>2. Leads(uapMap, c.number, n) /\ key \notin DOMAIN uapMap
      <4>1. \A k \in DOMAIN uapMap : uapMap[k] \in DOMAIN made /\ Claimed(k, made[uapMap[k]])
        BY <2>1
      <4> HIDE DEF key
      <4> QED
        BY <2>1, <2>5, <3>1, <4>1 DEF Entered
    <3>3. ParserFinds(c.number, sac, sic) = Found(key, c.number)
      BY DEF ParserFinds, ThreeDigits
    <3> HIDE DEF key
    <3>4. Found(key, c.number) = n
      BY <3>2 DEF Found, Leads
    <3> QED
      BY <3>3, <3>4
  <2> QED
    BY <2>4, <2>5
<1> QED
  BY <1>1, <1>2, <1>3, LoaderInvariant, PTL DEF Spec

-----------------------------------------------------------------------------
(* Sequences put together.                                                 *)
LEMMA ConcatIsSeq ==
  ASSUME NEW s, IsSeq(s), NEW t, IsSeq(t)
  PROVE  /\ IsSeq(s \o t) /\ Len(s \o t) = Len(s) + Len(t)
         /\ \A n \in 1 .. Len(s) : (s \o t)[n] = s[n]
         /\ \A n \in 1 .. Len(t) : (s \o t)[Len(s) + n] = t[n]
         /\ ToSet(s \o t) = ToSet(s) \cup ToSet(t)
<1> DEFINE S == ToSet(s) \cup ToSet(t)
           u == s \o t
<1>1. s \in Seq(S) /\ t \in Seq(S)
  BY SeqMonotonic DEF IsSeq
<1>2. /\ Len(s) \in Nat /\ DOMAIN s = 1 .. Len(s)
      /\ Len(t) \in Nat /\ DOMAIN t = 1 .. Len(t)
  BY SeqFacts
<1> HIDE DEF S
<1>3. /\ u \in Seq(S) /\ Len(u) = Len(s) + Len(t)
      /\ \A n \in 1 .. Len(s) + Len(t) : u[n] = IF n <= Len(s) THEN s[n] ELSE t[n - Len(s)]
  BY <1>1, ConcatProperties
<1>4. IsSeq(u) /\ DOMAIN u = 1 .. Len(s) + Len(t)
  BY <1>3, SeqIsSeq, SeqFacts
<1> HIDE DEF u
<1>5. \A n \in 1 .. Len(s) : u[n] = s[n]
  BY <1>2, <1>3
<1>6. \A n \in 1 .. Len(t) : u[Len(s) + n] = t[n]
  <2> SUFFICES ASSUME NEW n \in 1 .. Len(t) PROVE u[Len(s) + n] = t[n]
    OBVIOUS
  <2>1. Len(s) + n \in 1 .. Len(s) + Len(t) /\ ~ (Len(s) + n <= Len(s)) /\ Len(s) + n - Len(s) = n
    BY <1>2
  <2> QED
    BY <2>1, <1>3
<1>7. ToSet(u) = ToSet(s) \cup ToSet(t)
  <2>1. ASSUME NEW n \in DOMAIN u PROVE u[n] \in ToSet(s) \cup ToSet(t)
    <3>1. CASE n <= Len(s)
      BY <3>1, <1>2, <1>4, <1>5 DEF ToSet
    <3>2. CASE ~ (n <= Len(s))
      <4>1. n - Len(s) \in 1 .. Len(t) /\ n \in 1 .. Len(s) + Len(t)
        BY <3>2, <2>1, <1>2, <1>4
      <4>2. u[n] = t[n - Len(s)]
        BY <4>1, <3>2, <1>3
      <4> QED
        BY <4>1, <4>2, <1>2 DEF ToSet
    <3> QED
      BY <3>1, <3>2
  <2>2. \A n \in 1 .. Len(s) : n \in DOMAIN u
    BY <1>2, <1>4
  <2>3. \A n \in 1 .. Len(t) : Len(s) + n \in DOMAIN u
    BY <1>2, <1>4
  <2>4. \A n \in DOMAIN s : s[n] \in ToSet(u)
    BY <2>2, <1>2, <1>5 DEF ToSet
  <2>5. \A n \in DOMAIN t : t[n] \in ToSet(u)
    BY <2>3, <1>2, <1>6 DEF ToSet
  <2>6. ToSet(u) \subseteq ToSet(s) \cup ToSet(t)
    BY <2>1 DEF ToSet
  <2>7. ToSet(s) \subseteq ToSet(u) /\ ToSet(t) \subseteq ToSet(u)
    BY <2>4, <2>5 DEF ToSet
  <2> QED
    BY <2>6, <2>7
<1> QED
  BY <1>3, <1>4, <1>5, <1>6, <1>7 DEF u

LEMMA LeastElement ==
  ASSUME NEW S, S \subseteq Nat, S # {}
  PROVE  \E m \in S : \A k \in S : m <= k
<1>1. PICK m \in S : \A y \in S : ~ (<<y, m>> \in OpToRel(<, Nat))
  BY NatLessThanWellFounded, WFMin
<1>2. \A y \in S : ~ (<<y, m>> \in {ss \in Nat \X Nat : ss[1] < ss[2]})
  BY <1>1 DEF OpToRel
<1>3. \A y \in S : ~ (y < m)
  BY <1>2
<1> QED
  BY <1>3

(* The sequences up to the m-th one behind each other.                     *)
IsFlat(f, m, s) == f = [p \in 1 .. m |-> IF p = 1 THEN s[p] ELSE f[p - 1] \o s[p]]

LEMMA FlatExists ==
  ASSUME NEW s, NEW N \in Nat
  PROVE  \E f : IsFlat(f, N, s)
<1> DEFINE No == {m \in Nat : ~ \E f : IsFlat(f, m, s)}
<1>1. SUFFICES ASSUME No # {} PROVE FALSE
  OBVIOUS
<1>2. PICK m \in No : \A k \in No : m <= k
  <2>1. No \subseteq Nat
    OBVIOUS
  <2> HIDE DEF No
  <2> QED
    BY <1>1, <2>1, LeastElement
<1>3. m # 0
  <2> DEFINE f == [p \in 1 .. 0 |-> s[p]]
  <2>1. 1 .. 0 = {}
    OBVIOUS
  <2>2. f = [p \in 1 .. 0 |-> IF p = 1 THEN s[p] ELSE f[p - 1] \o s[p]]
    BY <2>1
  <2>3. IsFlat(f, 0, s)
    BY <2>2 DEF IsFlat
  <2> QED
    BY <2>3
<1>4. m \in Nat /\ m - 1 \in Nat /\ m - 1 \notin No
  <2>1. m \in Nat /\ m - 1 \in Nat /\ ~ (m <= m - 1)
    BY <1>3
  <2> QED
    BY <2>1, <1>2
<1>5. PICK f : IsFlat(f, m - 1, s)
  BY <1>4
<1> DEFINE last == IF m = 1 THEN s[m] ELSE f[m - 1] \o s[m]
           g == [p \in 1 .. m |-> IF p = m THEN last ELSE f[p]]
<1>6. \A p \in 1 .. m - 1 : g[p] = f[p]
  <2>1. \A p \in 1 .. m - 1 : p \in 1 .. m /\ p # m
    BY <1>4
  <2> HIDE DEF last
  <2> QED
    BY <2>1
<1>7. ASSUME NEW p \in 1 .. m
      PROVE  g[p] = IF p = 1 THEN s[p] ELSE g[p - 1] \o s[p]
  <2>1. CASE p = m
    <3>1. p # 1 => p - 1 \in 1 .. m - 1
      BY <2>1, <1>4
    <3>2. p # 1 => g[p - 1] = f[m - 1]
      BY <3>1, <2>1, <1>6
    <3>3. g[p] = last
      <4> HIDE DEF last
      <4> QED
        BY <2>1
    <3> HIDE DEF g
    <3> QED
      BY <2>1, <3>2, <3>3
  <2>2. CASE p # m
    <3>1. p \in 1 .. m - 1
      BY <2>2, <1>4
    <3>2. g[p] = f[p]
      BY <3>1, <1>6
    <3>3. p # 1 => g[p - 1] = f[p - 1]
      <4>1. p # 1 => p - 1 \in 1 .. m - 1
        BY <3>1
      <4> QED
        BY <4>1, <1>6
    <3> HIDE DEF g
    <3>4. f[p] = IF p = 1 THEN s[p] ELSE f[p - 1] \o s[p]
      BY <3>1, <1>5 DEF IsFlat
    <3> QED
      BY <3>2, <3>3, <3>4
  <2> QED
    BY <2>1, <2>2
<1>8. g = [p \in 1 .. m |-> g[p]]
  <2> HIDE DEF last
  <2> QED
    OBVIOUS
<1> HIDE DEF g
<1>9. IsFlat(g, m, s)
  BY <1>7, <1>8 DEF IsFlat
<1> QED
  BY <1>9

LEMMA Flattened ==
  ASSUME NEW s, IsSeq(s), Len(s) # 0
  PROVE  \E f : /\ FlattenSeq(s) = f[Len(s)] /\ Len(s) \in Nat \ {0}
                /\ f[1] = s[1] /\ \A p \in 2 .. Len(s) : f[p] = f[p - 1] \o s[p]
<1> DEFINE flatten == CHOOSE f : IsFlat(f, Len(s), s)
<1>1. Len(s) \in Nat \ {0}
  BY SeqFacts
<1>2. IsFlat(flatten, Len(s), s)
  BY <1>1, FlatExists
<1>3. FlattenSeq(s) = flatten[Len(s)]
  BY <1>1 DEF FlattenSeq, IsFlat
<1> HIDE DEF flatten
<1>4. \A p \in 1 .. Len(s) : flatten[p] = IF p = 1 THEN s[p] ELSE flatten[p - 1] \o s[p]
  BY <1>2 DEF IsFlat
<1>5. 1 \in 1 .. Len(s) /\ \A p \in 2 .. Len(s) : p \in 1 .. Len(s) /\ p # 1
  BY <1>1
<1>6. flatten[1] = s[1] /\ \A p \in 2 .. Len(s) : flatten[p] = flatten[p - 1] \o s[p]
  BY <1>4, <1>5
<1> QED
  BY <1>1, <1>3, <1>6

(* Flattening puts sequences into a sequence that has what they have.      *)
LEMMA FlattenFacts ==
  ASSUME NEW s, IsSeq(s), \A n \in DOMAIN s : IsSeq(s[n])
  PROVE  /\ IsSeq(FlattenSeq(s))
         /\ ToSet(FlattenSeq(s)) = UNION {ToSet(s[n]) : n \in DOMAIN s}
<1>1. Len(s) \in Nat /\ DOMAIN s = 1 .. Len(s)
  BY SeqFacts
<1>2. CASE Len(s) = 0
  <2>1. FlattenSeq(s) = s
    BY <1>2 DEF FlattenSeq
  <2>2. DOMAIN s = {}
    BY <1>1, <1>2
  <2>3. ToSet(s) = {}
    BY <2>2 DEF ToSet
  <2> QED
    BY <2>1, <2>2, <2>3
<1>3. CASE Len(s) # 0
  <2>1. PICK f : /\ FlattenSeq(s) = f[Len(s)] /\ Len(s) \in Nat \ {0}
                 /\ f[1] = s[1] /\ \A p \in 2 .. Len(s) : f[p] = f[p - 1] \o s[p]
    BY <1>3, Flattened
  <2> DEFINE All(p) == UNION {ToSet(s[n]) : n \in 1 .. p}
             No == {p \in 1 .. Len(s) : ~ (IsSeq(f[p]) /\ ToSet(f[p]) = All(p))}
  <2>2. ASSUME No # {} PROVE FALSE
    <3>1. No \subseteq Nat
      OBVIOUS
    <3>2. PICK p \in No : \A k \in No : p <= k
      <4> HIDE DEF No
      <4> QED
        BY <2>2, <3>1, LeastElement
    <3>3. p # 1
      <4>1. IsSeq(f[1])
        BY <2>1, <1>1
      <4>2. 1 .. 1 = {1}
        OBVIOUS
      <4>3. All(1) = ToSet(s[1])
        BY <4>2
      <4> QED
        BY <4>1, <4>3, <2>1
    <3>4. p \in 2 .. Len(s) /\ p - 1 \in 1 .. Len(s) /\ ~ (p <= p - 1) /\ p \in DOMAIN s
      BY <2>1, <3>3, <1>1
    <3>5. IsSeq(f[p - 1]) /\ ToSet(f[p - 1]) = All(p - 1)
      BY <3>2, <3>4
    <3>6. IsSeq(f[p - 1] \o s[p]) /\ ToSet(f[p - 1] \o s[p]) = ToSet(f[p - 1]) \cup ToSet(s[p])
      BY <3>4, <3>5, ConcatIsSeq
    <3>7. 1 .. p = (1 .. p - 1) \cup {p}
      BY <3>4
    <3>8. All(p) = All(p - 1) \cup ToSet(s[p])
      BY <3>7
    <3>9. f[p] = f[p - 1] \o s[p]
      BY <2>1, <3>4
    <3> HIDE DEF All
    <3> QED
      BY <3>2, <3>5, <3>6, <3>8, <3>9
  <2>3. Len(s) \in 1 .. Len(s)
    BY <2>1
  <2>4. IsSeq(f[Len(s)]) /\ ToSet(f[Len(s)]) = All(Len(s))
    BY <2>2, <2>3
  <2> QED
    BY <2>1, <2>4, <1>1
<1> QED
  BY <1>2, <1>3

LEMMA InCopy ==
  ASSUME NEW p \in Nat, NEW q \in Nat, q < p, NEW k \in Nat, NEW n \in 1 .. k
  PROVE  q * k + n \in 1 .. p * k
<1> DEFINE r == p - q - 1
<1>1. r \in Nat /\ p = r + q + 1
  OBVIOUS
<1> HIDE DEF r
<1>2. r * k \in Nat /\ q * k \in Nat /\ p * k \in Nat
  BY <1>1
<1>3. (r + q + 1) * k = r * k + q * k + k
  BY <1>1
<1> QED
  BY <1>1, <1>2, <1>3

(* Copies of a sequence: the n-th element of the q-th one, from 0.         *)
LEMMA FlattenCopies ==
  ASSUME NEW t, IsSeq(t), NEW k \in Nat
  PROVE  LET u == FlattenSeq([c \in 1 .. k |-> t])
         IN /\ IsSeq(u) /\ Len(u) = k * Len(t) /\ ToSet(u) \subseteq ToSet(t)
            /\ \A q \in 0 .. k - 1 : \A n \in 1 .. Len(t) : u[q * Len(t) + n] = t[n]
<1> DEFINE s == [c \in 1 .. k |-> t]
           u == FlattenSeq(s)
           L == Len(t)
<1>1. IsSeq(s) /\ Len(s) = k /\ DOMAIN s = 1 .. k /\ \A n \in 1 .. k : s[n] = t
  <2>1. DOMAIN s = 1 .. k /\ s = [n \in 1 .. k |-> s[n]] /\ \A n \in 1 .. k : s[n] = t
    OBVIOUS
  <2> HIDE DEF s
  <2> QED
    BY <2>1, BuiltIsSeq
<1>L. L \in Nat
  BY SeqFacts
<1> HIDE DEF s
<1>2. IsSeq(u) /\ ToSet(u) \subseteq ToSet(t)
  <2>1. \A n \in DOMAIN s : IsSeq(s[n])
    BY <1>1
  <2>2. IsSeq(u) /\ ToSet(u) = UNION {ToSet(s[n]) : n \in DOMAIN s}
    BY <2>1, <1>1, FlattenFacts
  <2> QED
    BY <2>2, <1>1
<1>3. CASE k = 0
  <2>1. u = s
    BY <1>1, <1>3 DEF FlattenSeq
  <2>2. Len(u) = k * L /\ 0 .. k - 1 = {}
    BY <2>1, <1>1, <1>3, <1>L
  <2> QED
    BY <1>2, <2>2 DEF s
<1>4. CASE k # 0
  <2>1. PICK f : /\ u = f[k] /\ f[1] = t /\ \A p \in 2 .. k : f[p] = f[p - 1] \o t
    <3>1. PICK f : /\ FlattenSeq(s) = f[Len(s)] /\ Len(s) \in Nat \ {0}
                   /\ f[1] = s[1] /\ \A p \in 2 .. Len(s) : f[p] = f[p - 1] \o s[p]
      BY <1>1, <1>4, Flattened
    <3>2. \A p \in 2 .. k : p \in 1 .. k
      OBVIOUS
    <3>3. 1 \in 1 .. k
      BY <1>4
    <3>4. f[1] = t /\ \A p \in 2 .. k : f[p] = f[p - 1] \o t
      BY <3>1, <3>2, <3>3, <1>1
    <3> QED
      BY <3>1, <3>4, <1>1
  <2> HIDE DEF u, L
  <2> DEFINE Copies(p) == /\ IsSeq(f[p]) /\ Len(f[p]) = p * L
                          /\ \A q \in 0 .. p - 1 : \A n \in 1 .. L : f[p][q * L + n] = t[n]
             No == {p \in 1 .. k : ~ Copies(p)}
  <2>2. ASSUME No # {} PROVE FALSE
    <3>1. No \subseteq Nat
      OBVIOUS
    <3>2. PICK p \in No : \A m \in No : p <= m
      <4> HIDE DEF No
      <4> QED
        BY <2>2, <3>1, LeastElement
    <3>3. p # 1
      <4>1. IsSeq(f[1]) /\ Len(f[1]) = 1 * L
        BY <2>1, <1>L DEF L
      <4>2. \A q \in 0 .. 0 : \A n \in 1 .. L : q * L + n = n
        BY <1>L
      <4>3. \A q \in 0 .. 1 - 1 : \A n \in 1 .. L : f[1][q * L + n] = t[n]
        BY <2>1, <4>2
      <4>4. Copies(1)
        BY <4>1, <4>3
      <4> QED
        BY <4>4
    <3>4. p \in 2 .. k /\ p - 1 \in 1 .. k /\ ~ (p <= p - 1)
      BY <3>3
    <3>5. Copies(p - 1)
      BY <3>2, <3>4
    <3> DEFINE g == f[p - 1]
    <3>6. /\ IsSeq(g \o t) /\ Len(g \o t) = Len(g) + L
          /\ \A n \in 1 .. Len(g) : (g \o t)[n] = g[n]
          /\ \A n \in 1 .. L : (g \o t)[Len(g) + n] = t[n]
      <4>1. IsSeq(g)
        BY <3>5
      <4> HIDE DEF g
      <4> QED
        BY <4>1, ConcatIsSeq DEF L
    <3>7. f[p] = g \o t
      BY <2>1, <3>4
    <3>8. Len(g) = (p - 1) * L /\ (p - 1) * L + L = p * L
      BY <3>4, <3>5, <1>L
    <3>9. ASSUME NEW q \in 0 .. p - 1, NEW n \in 1 .. L PROVE f[p][q * L + n] = t[n]
      <4>1. CASE q = p - 1
        BY <4>1, <3>6, <3>7, <3>8
      <4>2. CASE q # p - 1
        <5>1. q \in 0 .. p - 1 - 1 /\ q \in Nat /\ p - 1 \in Nat /\ q < p - 1
          BY <4>2, <3>4
        <5>2. q * L + n \in 1 .. (p - 1) * L
          BY <5>1, <1>L, InCopy
        <5>3. g[q * L + n] = t[n]
          BY <3>5, <5>1
        <5> QED
          BY <5>2, <5>3, <3>6, <3>7, <3>8
      <4> QED
        BY <4>1, <4>2
    <3>10. IsSeq(f[p]) /\ Len(f[p]) = p * L
      BY <3>6, <3>7, <3>8
    <3>11. Copies(p)
      BY <3>9, <3>10
    <3> QED
      BY <3>11
  <2>3. k \in 1 .. k
    BY <1>4
  <2>4. Copies(k)
    BY <2>2, <2>3
  <2>5. Len(u) = k * L /\ \A q \in 0 .. k - 1 : \A n \in 1 .. L : u[q * L + n] = t[n]
    BY <2>1, <2>4
  <2> QED
    BY <1>2, <2>5 DEF u, L, s
<1> QED
  BY <1>3, <1>4

-----------------------------------------------------------------------------
(* What is known of a file that was read, and of a description.            *)
IsFile(f) ==
  /\ IsSeq(f.items) /\ \A n \in DOMAIN f.items : IsSeq(f.items[n].elements)
  /\ IsSeq(f.subs) /\ \A n \in DOMAIN f.subs : IsSeq(f.subs[n].elements) /\ f.subs[n].elements # <<>>

IsItem(x) ==
  /\ x = [name |-> x.name, type |-> x.type, length |-> x.length, flaws |-> x.flaws,
          mandatory |-> x.mandatory, names |-> x.names, elements |-> x.elements]
  /\ IsSeq(x.names) /\ IsSeq(x.elements)
AreItems(items) == IsSeq(items) /\ \A n \in DOMAIN items : IsItem(items[n])

IsDescription(d) ==
  /\ d = [items |-> d.items, subs |-> d.subs, ref |-> d.ref, spf |-> d.spf,
          mandatoryItemFRNs |-> d.mandatoryItemFRNs, elementsMap |-> d.elementsMap]
  /\ AreItems(d.items) /\ AreItems(d.subs) /\ AreItems(d.ref) /\ AreItems(d.spf)
  /\ \A n \in DOMAIN d.subs : d.subs[n].names # <<>>

LEMMA SmallSeqs ==
  IsSeq(<<>>) /\ DOMAIN <<>> = {} /\ \A x : IsSeq(<<x>>)
<1>1. <<>> \in Seq({}) /\ DOMAIN <<>> = {}
  OBVIOUS
<1>2. \A x : <<x>> \in Seq({x})
  OBVIOUS
<1> QED
  BY <1>1, <1>2, SeqIsSeq

LEMMA UapIsSeq ==
  ASSUME NEW f, f.uap \in Seq(STRING)
  PROVE  IsSeq(PreparedUap(f))
<1> DEFINE s == [n \in DOMAIN f.uap |->
                   IF Renamed(f.uap[n]) = "FX" THEN <<>> ELSE <<Renamed(f.uap[n])>>]
<1>1. Len(f.uap) \in Nat /\ DOMAIN f.uap = 1 .. Len(f.uap)
  OBVIOUS
<1>2. DOMAIN s = 1 .. Len(f.uap) /\ s = [n \in 1 .. Len(f.uap) |-> s[n]]
  BY <1>1
<1>3. \A n \in DOMAIN s : IsSeq(s[n])
  BY SmallSeqs
<1>4. PreparedUap(f) = FlattenSeq(s)
  BY DEF PreparedUap
<1> HIDE DEF s
<1>5. IsSeq(s)
  BY <1>1, <1>2, BuiltIsSeq
<1> QED
  BY <1>3, <1>4, <1>5, FlattenFacts

LEMMA MandatoryIsSeq ==
  ASSUME NEW f, f.mandatory \in Seq(STRING)
  PROVE  IsSeq(PreparedMandatory(f))
<1> DEFINE s == PreparedMandatory(f)
<1>1. Len(f.mandatory) \in Nat /\ DOMAIN s = 1 .. Len(f.mandatory)
      /\ s = [n \in 1 .. Len(f.mandatory) |-> s[n]]
  BY DEF PreparedMandatory
<1> HIDE DEF s
<1>2. IsSeq(s)
  BY <1>1, BuiltIsSeq
<1> QED
  BY <1>2 DEF s

LEMMA NoItemsIsFile == IsFile(NoItems)
BY SmallSeqs DEF IsFile, NoItems

(* A file that was accepted becomes one.                                   *)
LEMMA PreparedIsFile ==
  ASSUME NEW f, f.items \in Seq(ExternalItem), f.subs \in Seq(ExternalItem),
         DescriptionVerdict(f) = "SUCCESS"
  PROVE  IsFile(Prepared(f))
<1>1. ASSUME NEW x \in ExternalItem, NEW name
      PROVE  /\ IsSeq(PreparedItem(x, name).elements)
             /\ x.elements # <<>> => PreparedItem(x, name).elements # <<>>
  <2> DEFINE e == [n \in DOMAIN x.elements |-> PreparedElement(x.elements[n])]
  <2>1. Len(x.elements) \in Nat /\ DOMAIN x.elements = 1 .. Len(x.elements)
        /\ (x.elements # <<>> => Len(x.elements) # 0)
    BY DEF ExternalItem
  <2>2. DOMAIN e = 1 .. Len(x.elements) /\ e = [n \in 1 .. Len(x.elements) |-> e[n]]
    BY <2>1
  <2>3. PreparedItem(x, name).elements = e
    <3>1. PreparedItem(x, name) = [x EXCEPT !.name = name, !.elements = e]
      BY DEF PreparedItem
    <3>2. x = [name |-> x.name, type |-> x.type, length |-> x.length, elements |-> x.elements]
      BY DEF ExternalItem
    <3> HIDE DEF e
    <3> QED
      BY <3>1, <3>2
  <2> HIDE DEF e
  <2>4. IsSeq(e) /\ Len(e) = Len(x.elements)
    BY <2>1, <2>2, BuiltIsSeq
  <2>5. x.elements # <<>> => e # <<>>
    BY <2>1, <2>4
  <2> QED
    BY <2>3, <2>4, <2>5
<1>2. ASSUME NEW list \in Seq(ExternalItem), NEW s, DOMAIN s = DOMAIN list, s = [n \in DOMAIN list |-> s[n]]
      PROVE  IsSeq(s)
  <2>1. Len(list) \in Nat /\ DOMAIN list = 1 .. Len(list)
    OBVIOUS
  <2> QED
    BY <2>1, <1>2, BuiltIsSeq
<1>3. \A x \in ToSet(f.subs) : x.elements # <<>>
  <2>1. \A x \in ToSet(f.items \o f.subs) : x.elements # <<>>
    BY DEF DescriptionVerdict
  <2>2. IsSeq(f.items) /\ IsSeq(f.subs)
    BY SeqIsSeq
  <2> QED
    BY <2>1, <2>2, ConcatIsSeq
<1> DEFINE items == Prepared(f).items
           subs == Prepared(f).subs
<1>4. /\ items = [n \in DOMAIN f.items |-> PreparedItem(f.items[n], Upper(f.items[n].name))]
      /\ subs = [n \in DOMAIN f.subs |-> PreparedItem(f.subs[n], f.subs[n].name)]
  BY DEF Prepared
<1>5. /\ \A n \in DOMAIN f.items : f.items[n] \in ExternalItem
      /\ \A n \in DOMAIN f.subs : f.subs[n] \in ExternalItem /\ f.subs[n].elements # <<>>
  BY <1>3 DEF ToSet
<1> HIDE DEF items, subs
<1>6. IsSeq(items) /\ IsSeq(subs)
  <2>1. DOMAIN items = DOMAIN f.items /\ items = [n \in DOMAIN f.items |-> items[n]]
    BY <1>4
  <2>2. DOMAIN subs = DOMAIN f.subs /\ subs = [n \in DOMAIN f.subs |-> subs[n]]
    BY <1>4
  <2> QED
    BY <2>1, <2>2, <1>2
<1>7. \A n \in DOMAIN items : IsSeq(items[n].elements)
  BY <1>1, <1>4, <1>5
<1>8. \A n \in DOMAIN subs : IsSeq(subs[n].elements) /\ subs[n].elements # <<>>
  BY <1>1, <1>4, <1>5
<1> QED
  BY <1>6, <1>7, <1>8 DEF IsFile, items, subs

-----------------------------------------------------------------------------
(* How often a name was met.                                               *)
LEMMA FiniteOccurrences ==
  ASSUME NEW name, NEW names, NEW last \in Nat
  PROVE  /\ IsFiniteSet({n \in 1 .. last : names[n] = name})
         /\ Occurrences(name, names, last) \in Nat
<1>1. IsFiniteSet(1 .. last)
  BY FS_Interval
<1>2. IsFiniteSet({n \in 1 .. last : names[n] = name})
  BY <1>1, FS_Subset
<1> QED
  BY <1>2, FS_CardinalityType DEF Occurrences

(* A name stands at a place for the first time when it occurs once so far. *)
LEMMA FirstOccurrence ==
  ASSUME NEW names, NEW last \in Nat \ {0}
  PROVE  LET k == Occurrences(names[last], names, last)
         IN k \in Nat \ {0} /\ (k = 1 <=> IsFirst(last, names))
<1> DEFINE O == {n \in 1 .. last : names[n] = names[last]}
           k == Cardinality(O)
<1>1. IsFiniteSet(O) /\ k \in Nat
  BY FiniteOccurrences DEF Occurrences
<1>2. last \in O
  OBVIOUS
<1>3. IsFirst(last, names) <=> \A n \in O : n = last
  <2>1. \A n \in O : n # last => n \in 1 .. last - 1 /\ names[n] = names[last]
    OBVIOUS
  <2>2. \A n \in 1 .. last - 1 : n \in 1 .. last /\ n # last
    OBVIOUS
  <2> QED
    BY <2>1, <2>2 DEF IsFirst
<1> HIDE DEF O
<1>4. k # 0
  BY <1>1, <1>2, FS_EmptySet
<1>5. k = 1 <=> \E x : O = {x}
  BY <1>1, FS_Singleton
<1>6. (\E x : O = {x}) <=> \A n \in O : n = last
  <2>1. ASSUME NEW x, O = {x} PROVE \A n \in O : n = last
    BY <2>1, <1>2
  <2>2. ASSUME \A n \in O : n = last PROVE O = {last}
    BY <2>2, <1>2
  <2> QED
    BY <2>1, <2>2
<1> QED
  BY <1>1, <1>3, <1>4, <1>5, <1>6 DEF Occurrences, O

(* A list without doubles has a name once or not at all.                   *)
LEMMA OccurrencesInInjective ==
  ASSUME NEW s, IsSeq(s), IsInjective(s), NEW name
  PROVE  Occurrences(name, s, Len(s)) = IF name \in ToSet(s) THEN 1 ELSE 0
<1> DEFINE O == {n \in 1 .. Len(s) : s[n] = name}
<1>1. Len(s) \in Nat /\ DOMAIN s = 1 .. Len(s)
  BY SeqFacts
<1>2. CASE name \in ToSet(s)
  <2>1. PICK m \in DOMAIN s : s[m] = name
    BY <1>2 DEF ToSet
  <2>2. O = {m}
    BY <2>1, <1>1 DEF IsInjective
  <2>3. Cardinality(O) = 1
    BY <2>2, FS_Singleton
  <2> QED
    BY <2>3, <1>2 DEF Occurrences
<1>3. CASE name \notin ToSet(s)
  <2>1. O = {}
    BY <1>1, <1>3 DEF ToSet
  <2>2. Cardinality(O) = 0
    BY <2>1, FS_EmptySet
  <2> QED
    BY <2>2, <1>3 DEF Occurrences
<1> QED
  BY <1>2, <1>3

-----------------------------------------------------------------------------
(* Repetitions copy elements inside their item and change nothing else.    *)
WithElementLists(x, names, elements) == [x EXCEPT !.names = names, !.elements = elements]
KeepsItem(x, y) ==
  /\ IsItem(y) /\ y.name = x.name /\ y.type = x.type /\ y.mandatory = x.mandatory
  /\ x.type # "Repetitive" => y = x
  /\ x.names # <<>> => y.names # <<>> /\ y.names[1] = x.names[1]

LEMMA RepeatedItem ==
  ASSUME NEW x, IsItem(x), NEW names, IsSeq(names), NEW elements, IsSeq(elements)
  PROVE  LET y == WithElementLists(x, names, elements)
         IN /\ IsItem(y) /\ y.name = x.name /\ y.type = x.type /\ y.mandatory = x.mandatory
            /\ y.names = names
<1> DEFINE y == WithElementLists(x, names, elements)
<1>1. x = [name |-> x.name, type |-> x.type, length |-> x.length, flaws |-> x.flaws,
           mandatory |-> x.mandatory, names |-> x.names, elements |-> x.elements]
  BY DEF IsItem
<1>2. y = [name |-> x.name, type |-> x.type, length |-> x.length, flaws |-> x.flaws,
           mandatory |-> x.mandatory, names |-> names, elements |-> elements]
  <2> DEFINE z == [x EXCEPT !.names = names]
  <2>1. z = [name |-> x.name, type |-> x.type, length |-> x.length, flaws |-> x.flaws,
             mandatory |-> x.mandatory, names |-> names, elements |-> x.elements]
    BY <1>1
  <2>2. y = [z EXCEPT !.elements = elements]
    BY DEF WithElementLists
  <2> HIDE DEF z
  <2> QED
    BY <2>1, <2>2
<1> HIDE DEF y
<1>3. /\ IsItem(y) /\ y.name = x.name /\ y.type = x.type /\ y.mandatory = x.mandatory
      /\ y.names = names
  BY <1>2 DEF IsItem
<1> QED
  BY <1>3 DEF y

LEMMA RepetitionsKeepItems ==
  ASSUME NEW items, AreItems(items)
  PROVE  LET t == WithRepetitions(items)
         IN /\ AreItems(t) /\ DOMAIN t = DOMAIN items /\ Len(t) = Len(items)
            /\ \A n \in DOMAIN items : KeepsItem(items[n], t[n])
<1> DEFINE t == WithRepetitions(items)
<1>1. Len(items) \in Nat /\ DOMAIN items = 1 .. Len(items)
  BY SeqFacts DEF AreItems
<1>2. DOMAIN t = 1 .. Len(items) /\ t = [n \in 1 .. Len(items) |-> t[n]]
  BY <1>1 DEF WithRepetitions
<1>3. ASSUME NEW n \in DOMAIN items PROVE KeepsItem(items[n], t[n])
  <2> DEFINE x == items[n]
             m == Len(x.names)
             names == [e \in 1 .. m * Repetitions |->
                         Suffixed(x.names[((e - 1) % m) + 1], (e - 1) \div m)]
             elements == [e \in 1 .. m * Repetitions |-> x.elements[((e - 1) % m) + 1]]
  <2>1. IsItem(x)
    BY DEF AreItems
  <2>2. CASE x.type # "Repetitive"
    <3>1. t[n] = x
      BY <2>2 DEF WithRepetitions
    <3> HIDE DEF x
    <3>2. KeepsItem(x, x)
      BY <2>1, <2>2 DEF KeepsItem
    <3> QED
      BY <3>1, <3>2 DEF x
  <2>3. CASE x.type = "Repetitive"
    <3>1. m \in Nat /\ DOMAIN x.names = 1 .. m
      BY <2>1, SeqFacts DEF IsItem
    <3>2. t[n] = WithElementLists(x, names, elements)
      BY <2>3 DEF WithRepetitions, WithElementLists
    <3>3. m * Repetitions \in Nat /\ (m # 0 => m * Repetitions # 0)
      <4> HIDE DEF m
      <4>1. m \in Nat /\ Repetitions \in Nat \ {0}
        BY <3>1, DescriptionAssumption
      <4> QED
        BY <4>1
    <3>4. x.names # <<>> => m # 0
      <4>1. x.names = [e \in 1 .. m |-> x.names[e]]
        BY <2>1, SeqFacts DEF IsItem
      <4>2. 1 .. 0 = {}
        OBVIOUS
      <4>3. m = 0 => x.names = [e \in {} |-> x.names[e]]
        BY <4>1, <4>2
      <4>4. [e \in {} |-> x.names[e]] = <<>>
        OBVIOUS
      <4> QED
        BY <4>3, <4>4
    <3>5. m # 0 => names[1] = x.names[1]
      <4> SUFFICES ASSUME m # 0 PROVE names[1] = x.names[1]
        OBVIOUS
      <4>1. 1 \in 1 .. m * Repetitions
        BY <3>3
      <4>2. (1 - 1) % m = 0 /\ (1 - 1) \div m = 0
        <5> HIDE DEF m
        <5> QED
          BY <3>1
      <4>3. names[1] = Suffixed(x.names[((1 - 1) % m) + 1], (1 - 1) \div m)
        BY <4>1
      <4> HIDE DEF names, m
      <4>4. ((1 - 1) % m) + 1 = 1
        BY <4>2
      <4> QED
        BY <4>2, <4>3, <4>4 DEF Suffixed
    <3>6. IsSeq(names) /\ IsSeq(elements) /\ Len(names) = m * Repetitions
      <4>1. /\ DOMAIN names = 1 .. m * Repetitions /\ names = [e \in 1 .. m * Repetitions |-> names[e]]
            /\ DOMAIN elements = 1 .. m * Repetitions /\ elements = [e \in 1 .. m * Repetitions |-> elements[e]]
        OBVIOUS
      <4> HIDE DEF names, elements, m
      <4> QED
        BY <4>1, <3>3, BuiltIsSeq
    <3> DEFINE y == WithElementLists(x, names, elements)
    <3> HIDE DEF names, elements, m, t, x
    <3>7. /\ IsItem(y) /\ y.name = x.name /\ y.type = x.type /\ y.mandatory = x.mandatory
          /\ y.names = names
      BY <2>1, <3>6, RepeatedItem
    <3>8. x.names # <<>> => names # <<>>
      BY <3>3, <3>4, <3>6
    <3>9. KeepsItem(x, y)
      BY <2>3, <3>4, <3>5, <3>7, <3>8 DEF KeepsItem
    <3> QED
      BY <3>2, <3>9 DEF x
  <2> QED
    BY <2>2, <2>3
<1> HIDE DEF t
<1>4. IsSeq(t) /\ Len(t) = Len(items) /\ DOMAIN t = DOMAIN items
  BY <1>1, <1>2, BuiltIsSeq
<1>5. \A n \in DOMAIN t : IsItem(t[n])
  BY <1>3, <1>4 DEF KeepsItem
<1> QED
  BY <1>3, <1>4, <1>5 DEF AreItems, t

-----------------------------------------------------------------------------
(* A description under construction, by the stage of the loader: it is of  *)
(* its own category from marshalling on, in the order of the UAP with its  *)
(* mandatory items agreed on once it is ordered, and its map of elements   *)
(* is filled with the last step.                                           *)
Marked(d, mandatory) ==
  \A n \in DOMAIN d.items :
    d.items[n].mandatory
    <=> Occurrences(d.items[n].name, Names(d.items), n) <= Occurrences(d.items[n].name, mandatory, Len(mandatory))

MandatoryMatches(d, c) ==
  IsInjective(PreparedMandatory(c.uap)) =>
    \A frn \in DOMAIN d.items : d.items[frn].name \notin {RE, SP, "-"} =>
      (frn \in d.mandatoryItemFRNs <=> d.items[frn].mandatory)

OwnParts(d, c) == OwnField(d, d.ref, c.ref) /\ OwnField(d, d.spf, c.spf) /\ OwnCompounds(d, c.items)

Described(st, d, c) ==
  /\ IsDescription(d)
  /\ st = "order" => Marked(d, PreparedMandatory(c.uap))
  /\ st \in {"order", "validate", "default", "sources"} => OwnParts(d, c)
  /\ st \in {"validate", "default", "sources"} =>
       Names(d.items) = PreparedUap(c.uap) /\ MandatoryMatches(d, c)
  /\ st \in {"default", "sources"} => d.elementsMap = ElementsMap(d)

(* What leads to a subitem still does when the subitems keep their names.  *)
SubsKept(d, e) ==
  /\ AreItems(d.subs) /\ DOMAIN e.subs = DOMAIN d.subs /\ Len(e.subs) = Len(d.subs)
  /\ \A n \in DOMAIN d.subs : KeepsItem(d.subs[n], e.subs[n]) /\ d.subs[n].names # <<>>

LEMMA LeadsToKept ==
  ASSUME NEW d, NEW e, SubsKept(d, e), NEW item, NEW n, NEW sub, LeadsTo(d, item, n, sub)
  PROVE  LeadsTo(e, item, n, sub)
<1> DEFINE p == item.elements[n] + 1
<1>1. item.elements[n] \in 0 .. Len(d.subs) - 1 /\ d.subs[p].name = sub.name
      /\ d.subs[p].names[1] = sub.elements[1].name
  BY DEF LeadsTo
<1>2. DOMAIN d.subs = 1 .. Len(d.subs) /\ Len(d.subs) \in Nat
  BY SeqFacts DEF SubsKept, AreItems
<1>3. p \in DOMAIN d.subs
  BY <1>1, <1>2
<1>4. e.subs[p].name = d.subs[p].name /\ e.subs[p].names[1] = d.subs[p].names[1]
  BY <1>3 DEF SubsKept, KeepsItem
<1>5. item.elements[n] \in 0 .. Len(e.subs) - 1
  BY <1>1 DEF SubsKept
<1> HIDE DEF p
<1>6. e.subs[p].name = sub.name /\ e.subs[p].names[1] = sub.elements[1].name
  BY <1>1, <1>4
<1> QED
  BY <1>5, <1>6 DEF LeadsTo, p

LEMMA SameShape ==
  ASSUME NEW items, NEW t, DOMAIN t = DOMAIN items,
         \A n \in DOMAIN items : KeepsItem(items[n], t[n])
  PROVE  /\ Names(t) = Names(items) /\ Compounds(t) = Compounds(items)
         /\ \A n \in Compounds(items) : t[n] = items[n]
<1>1. \A n \in DOMAIN items : /\ t[n].name = items[n].name /\ t[n].type = items[n].type
                              /\ items[n].type # "Repetitive" => t[n] = items[n]
  BY DEF KeepsItem
<1>2. Names(t) = Names(items)
  BY <1>1 DEF Names
<1>3. Compounds(t) = Compounds(items)
  BY <1>1 DEF Compounds
<1>4. \A n \in Compounds(items) : t[n] = items[n]
  BY <1>1 DEF Compounds
<1> QED
  BY <1>2, <1>3, <1>4

LEMMA OwnFieldKept ==
  ASSUME NEW d, NEW e, SubsKept(d, e), NEW field, NEW t, DOMAIN t = DOMAIN field,
         \A n \in DOMAIN field : KeepsItem(field[n], t[n]),
         NEW f, OwnField(d, field, f)
  PROVE  OwnField(e, t, f)
<1>1. Names(t) = Names(field) /\ Compounds(t) = Compounds(field) /\ \A n \in Compounds(field) : t[n] = field[n]
  BY SameShape
<1>2. \A m : CompoundsBefore(t, m) = CompoundsBefore(field, m)
  BY <1>1 DEF CompoundsBefore
<1>3. Names(t) = Names(Contents(f).items)
  BY <1>1 DEF OwnField
<1>4. ASSUME NEW m \in Compounds(t), NEW n \in DOMAIN Contents(f).subs
      PROVE  LeadsTo(e, t[m], CompoundsBefore(t, m) * Len(Contents(f).subs) + n, Contents(f).subs[n])
  <2>1. LeadsTo(d, field[m], CompoundsBefore(field, m) * Len(Contents(f).subs) + n, Contents(f).subs[n])
    BY <1>1, <1>4 DEF OwnField
  <2>2. LeadsTo(e, field[m], CompoundsBefore(field, m) * Len(Contents(f).subs) + n, Contents(f).subs[n])
    BY <2>1, LeadsToKept
  <2>3. t[m] = field[m] /\ CompoundsBefore(t, m) = CompoundsBefore(field, m)
    BY <1>1, <1>2, <1>4
  <2> QED
    BY <2>2, <2>3
<1> QED
  BY <1>3, <1>4 DEF OwnField

LEMMA OwnCompoundsKept ==
  ASSUME NEW d, NEW e, SubsKept(d, e) \/ e.subs = d.subs, NEW f, OwnCompounds(d, f),
         \A frn \in Compounds(e.items) : \E n \in Compounds(d.items) : e.items[frn] = d.items[n]
  PROVE  OwnCompounds(e, f)
<1>1. ASSUME NEW item, NEW n, NEW sub, LeadsTo(d, item, n, sub) PROVE LeadsTo(e, item, n, sub)
  <2>1. CASE SubsKept(d, e)
    BY <2>1, <1>1, LeadsToKept
  <2>2. CASE e.subs = d.subs
    BY <2>2, <1>1 DEF LeadsTo
  <2> QED
    BY <2>1, <2>2
<1>2. ASSUME NEW frn \in Compounds(e.items)
      PROVE  \E item \in ToSet(Contents(f).items) :
               /\ item.name = e.items[frn].name
               /\ \A n \in DOMAIN item.elements :
                    item.elements[n].bits \in 0 .. Len(Contents(f).subs) - 1
                    => LeadsTo(e, e.items[frn], n, Contents(f).subs[item.elements[n].bits + 1])
  <2>1. PICK m \in Compounds(d.items) : e.items[frn] = d.items[m]
    BY <1>2
  <2>2. PICK item \in ToSet(Contents(f).items) :
               /\ item.name = d.items[m].name
               /\ \A n \in DOMAIN item.elements :
                    item.elements[n].bits \in 0 .. Len(Contents(f).subs) - 1
                    => LeadsTo(d, d.items[m], n, Contents(f).subs[item.elements[n].bits + 1])
    BY <2>1 DEF OwnCompounds
  <2>3. \A n \in DOMAIN item.elements :
          item.elements[n].bits \in 0 .. Len(Contents(f).subs) - 1
          => LeadsTo(e, e.items[frn], n, Contents(f).subs[item.elements[n].bits + 1])
    BY <1>1, <2>1, <2>2
  <2> QED
    BY <2>1, <2>2, <2>3
<1> QED
  BY <1>2 DEF OwnCompounds

-----------------------------------------------------------------------------
(* The steps of a description, one after the other.                        *)
LEMMA ConvertedDescription ==
  ASSUME NEW d, IsDescription(d)
  PROVE  Converted(d) = [items |-> WithRepetitions(d.items), subs |-> WithRepetitions(d.subs),
                         ref |-> WithRepetitions(d.ref), spf |-> WithRepetitions(d.spf),
                         mandatoryItemFRNs |-> d.mandatoryItemFRNs, elementsMap |-> d.elementsMap]
<1> DEFINE a == [d EXCEPT !.items = WithRepetitions(d.items)]
           b == [a EXCEPT !.subs = WithRepetitions(d.subs)]
           c == [b EXCEPT !.ref = WithRepetitions(d.ref)]
           e == [c EXCEPT !.spf = WithRepetitions(d.spf)]
<1>1. a = [items |-> WithRepetitions(d.items), subs |-> d.subs, ref |-> d.ref, spf |-> d.spf,
           mandatoryItemFRNs |-> d.mandatoryItemFRNs, elementsMap |-> d.elementsMap]
  BY DEF IsDescription
<1>2. b = [items |-> WithRepetitions(d.items), subs |-> WithRepetitions(d.subs), ref |-> d.ref, spf |-> d.spf,
           mandatoryItemFRNs |-> d.mandatoryItemFRNs, elementsMap |-> d.elementsMap]
  <2> HIDE DEF a
  <2> QED
    BY <1>1
<1>3. c = [items |-> WithRepetitions(d.items), subs |-> WithRepetitions(d.subs),
           ref |-> WithRepetitions(d.ref), spf |-> d.spf,
           mandatoryItemFRNs |-> d.mandatoryItemFRNs, elementsMap |-> d.elementsMap]
  <2> HIDE DEF b
  <2> QED
    BY <1>2
<1>4. e = [items |-> WithRepetitions(d.items), subs |-> WithRepetitions(d.subs),
           ref |-> WithRepetitions(d.ref), spf |-> WithRepetitions(d.spf),
           mandatoryItemFRNs |-> d.mandatoryItemFRNs, elementsMap |-> d.elementsMap]
  <2> HIDE DEF c
  <2> QED
    BY <1>3
<1> QED
  BY <1>4 DEF Converted

LEMMA SameElementsMap ==
  ASSUME NEW d, NEW e, \A c \in Collections : e[c] = d[c]
  PROVE  ElementsMap(e) = ElementsMap(d)
<1>1. \A c \in Collections : NamesAndPlaces(e, c) = NamesAndPlaces(d, c)
  BY DEF NamesAndPlaces
<1>2. /\ NamesAndPlaces(e, "items") = NamesAndPlaces(d, "items")
      /\ NamesAndPlaces(e, "subs") = NamesAndPlaces(d, "subs")
      /\ NamesAndPlaces(e, "ref") = NamesAndPlaces(d, "ref")
      /\ NamesAndPlaces(e, "spf") = NamesAndPlaces(d, "spf")
  BY <1>1 DEF Collections
<1>3. AllNamesAndPlaces(e) = AllNamesAndPlaces(d)
  BY <1>2 DEF AllNamesAndPlaces
<1> QED
  BY <1>3 DEF ElementsMap

(* Making the repetitions and filling the map.                             *)
LEMMA CompletionDescribes ==
  ASSUME NEW c, NEW d, Described("validate", d, c)
  PROVE  Described("default", Completed(d), c)
<1> DEFINE e == Completed(d)
<1>1. IsDescription(d)
  BY DEF Described
<1>2. e = [items |-> WithRepetitions(d.items), subs |-> WithRepetitions(d.subs),
           ref |-> WithRepetitions(d.ref), spf |-> WithRepetitions(d.spf),
           mandatoryItemFRNs |-> d.mandatoryItemFRNs, elementsMap |-> ElementsMap(Converted(d))]
  BY <1>1, ConvertedDescription DEF Completed
<1>3. \A x \in Collections : e[x] = Converted(d)[x]
  BY <1>1, <1>2, ConvertedDescription DEF Collections
<1> HIDE DEF e
<1>4. /\ e.items = WithRepetitions(d.items) /\ e.subs = WithRepetitions(d.subs)
      /\ e.ref = WithRepetitions(d.ref) /\ e.spf = WithRepetitions(d.spf)
      /\ e.mandatoryItemFRNs = d.mandatoryItemFRNs /\ e.elementsMap = ElementsMap(Converted(d))
      /\ e = [items |-> e.items, subs |-> e.subs, ref |-> e.ref, spf |-> e.spf,
              mandatoryItemFRNs |-> e.mandatoryItemFRNs, elementsMap |-> e.elementsMap]
  BY <1>2
<1>5. AreItems(d.items) /\ AreItems(d.subs) /\ AreItems(d.ref) /\ AreItems(d.spf)
      /\ \A n \in DOMAIN d.subs : d.subs[n].names # <<>>
  BY <1>1 DEF IsDescription
<1>6. /\ AreItems(e.items) /\ DOMAIN e.items = DOMAIN d.items
      /\ \A n \in DOMAIN d.items : KeepsItem(d.items[n], e.items[n])
  BY <1>4, <1>5, RepetitionsKeepItems
<1>7. /\ AreItems(e.subs) /\ DOMAIN e.subs = DOMAIN d.subs /\ Len(e.subs) = Len(d.subs)
      /\ \A n \in DOMAIN d.subs : KeepsItem(d.subs[n], e.subs[n])
  BY <1>4, <1>5, RepetitionsKeepItems
<1>8. /\ AreItems(e.ref) /\ DOMAIN e.ref = DOMAIN d.ref
      /\ \A n \in DOMAIN d.ref : KeepsItem(d.ref[n], e.ref[n])
  BY <1>4, <1>5, RepetitionsKeepItems
<1>9. /\ AreItems(e.spf) /\ DOMAIN e.spf = DOMAIN d.spf
      /\ \A n \in DOMAIN d.spf : KeepsItem(d.spf[n], e.spf[n])
  BY <1>4, <1>5, RepetitionsKeepItems
<1>10. SubsKept(d, e)
  BY <1>5, <1>7 DEF SubsKept
<1>11. IsDescription(e)
  <2>1. \A n \in DOMAIN e.subs : e.subs[n].names # <<>>
    BY <1>5, <1>7 DEF KeepsItem
  <2> QED
    BY <2>1, <1>4, <1>6, <1>7, <1>8, <1>9 DEF IsDescription
<1>12. OwnParts(e, c)
  <2>1. OwnParts(d, c)
    BY DEF Described
  <2>2. OwnField(e, e.ref, c.ref)
    BY <2>1, <1>8, <1>10, OwnFieldKept DEF OwnParts
  <2>3. OwnField(e, e.spf, c.spf)
    BY <2>1, <1>9, <1>10, OwnFieldKept DEF OwnParts
  <2>4. \A frn \in Compounds(e.items) : \E n \in Compounds(d.items) : e.items[frn] = d.items[n]
    BY <1>6, SameShape
  <2>5. OwnCompounds(e, c.items)
    BY <2>1, <2>4, <1>10, OwnCompoundsKept DEF OwnParts
  <2> QED
    BY <2>2, <2>3, <2>5 DEF OwnParts
<1>13. Names(e.items) = PreparedUap(c.uap)
  BY <1>6, SameShape DEF Described
<1>14. MandatoryMatches(e, c)
  <2>1. MandatoryMatches(d, c)
    BY DEF Described
  <2>2. \A n \in DOMAIN d.items : e.items[n].name = d.items[n].name /\ e.items[n].mandatory = d.items[n].mandatory
    BY <1>6 DEF KeepsItem
  <2> QED
    BY <2>1, <2>2, <1>4, <1>6 DEF MandatoryMatches
<1>15. e.elementsMap = ElementsMap(e)
  BY <1>3, <1>4, SameElementsMap
<1>16. Described("default", e, c)
  BY <1>11, <1>12, <1>13, <1>14, <1>15 DEF Described
<1> QED
  BY <1>16 DEF e

LEMMA FieldItemIsItem ==
  ASSUME NEW name, NEW field, AreItems(field)
  PROVE  LET x == FieldItem(name, field) IN IsItem(x) /\ x.name = name /\ x.type = "Explicit"
<1> DEFINE names == [n \in DOMAIN field |-> field[n].name]
           elements == [n \in DOMAIN field |-> n - 1]
           x == FieldItem(name, field)
<1>1. Len(field) \in Nat /\ DOMAIN field = 1 .. Len(field)
  BY SeqFacts DEF AreItems
<1>2. /\ DOMAIN names = 1 .. Len(field) /\ names = [n \in 1 .. Len(field) |-> names[n]]
      /\ DOMAIN elements = 1 .. Len(field) /\ elements = [n \in 1 .. Len(field) |-> elements[n]]
  BY <1>1
<1>3. x = [name |-> name, type |-> "Explicit", length |-> 1, flaws |-> {}, mandatory |-> FALSE,
           names |-> names, elements |-> elements]
  BY DEF FieldItem
<1> HIDE DEF names, elements, x
<1>4. IsSeq(names) /\ IsSeq(elements)
  BY <1>1, <1>2, BuiltIsSeq
<1>5. IsItem(x) /\ x.name = name /\ x.type = "Explicit"
  BY <1>3, <1>4 DEF IsItem
<1> QED
  BY <1>5 DEF x

LEMMA DashItemIsItem ==
  IsItem(DashItem) /\ DashItem.name = "-" /\ DashItem.type = "Fixed"
BY SmallSeqs DEF IsItem, DashItem

(* Putting in order gives each place of the UAP the item it names.         *)
LEMMA OrderedItems ==
  ASSUME NEW d, IsDescription(d), NEW uap, IsSeq(uap), OrderVerdict(uap, d) = "SUCCESS"
  PROVE  LET t == InOrder(uap, d)
         IN /\ AreItems(t) /\ DOMAIN t = DOMAIN uap
            /\ \A frn \in DOMAIN uap :
                 /\ t[frn].name = uap[frn]
                 /\ \/ \E n \in ItemsFor(uap, frn, d.items) : t[frn] = d.items[n]
                    \/ uap[frn] \in {RE, SP, "-"} /\ t[frn].type # "Compound"
<1> DEFINE t == InOrder(uap, d)
           Taken(frn) == \E n \in ItemsFor(uap, frn, d.items) : t[frn] = d.items[n]
           Made(frn) == uap[frn] \in {RE, SP, "-"} /\ t[frn].type # "Compound"
<1>1. Len(uap) \in Nat /\ DOMAIN uap = 1 .. Len(uap)
  BY SeqFacts
<1>2. DOMAIN t = 1 .. Len(uap) /\ t = [n \in 1 .. Len(uap) |-> t[n]]
  BY <1>1 DEF InOrder
<1>3. AreItems(d.items) /\ AreItems(d.ref) /\ AreItems(d.spf)
  BY DEF IsDescription
<1>4. \A frn \in DOMAIN uap : uap[frn] \in {"-", RE, SP} \/ ItemsFor(uap, frn, d.items) # {}
  BY DEF OrderVerdict
<1>5. ASSUME NEW frn \in DOMAIN uap
      PROVE  IsItem(t[frn]) /\ t[frn].name = uap[frn] /\ (Taken(frn) \/ Made(frn))
  <2>1. CASE ItemsFor(uap, frn, d.items) # {}
    <3>1. PICK n \in ItemsFor(uap, frn, d.items) : t[frn] = d.items[n]
      BY <2>1 DEF InOrder
    <3>2. n \in DOMAIN d.items /\ d.items[n].name = uap[frn] /\ IsItem(d.items[n])
      BY <1>3, <3>1 DEF ItemsFor, AreItems
    <3> HIDE DEF t
    <3> QED
      BY <3>1, <3>2
  <2>2. CASE ItemsFor(uap, frn, d.items) = {}
    <3>1. /\ uap[frn] = RE => t[frn] = FieldItem(RE, d.ref)
          /\ uap[frn] = SP => t[frn] = FieldItem(SP, d.spf)
          /\ uap[frn] = "-" => t[frn] = DashItem
      BY <2>2 DEF InOrder, RE, SP
    <3>2. uap[frn] \in {"-", RE, SP}
      BY <1>4, <2>2
    <3> HIDE DEF t
    <3>3. CASE uap[frn] = RE
      <4>1. IsItem(t[frn]) /\ t[frn].name = RE /\ t[frn].type = "Explicit"
        BY <3>1, <3>3, <1>3, FieldItemIsItem
      <4> QED
        BY <4>1, <3>3
    <3>4. CASE uap[frn] = SP
      <4>1. IsItem(t[frn]) /\ t[frn].name = SP /\ t[frn].type = "Explicit"
        BY <3>1, <3>4, <1>3, FieldItemIsItem
      <4> QED
        BY <4>1, <3>4
    <3>5. CASE uap[frn] = "-"
      BY <3>1, <3>5, DashItemIsItem
    <3> QED
      BY <3>2, <3>3, <3>4, <3>5
  <2> QED
    BY <2>1, <2>2
<1> HIDE DEF t
<1>6. IsSeq(t)
  BY <1>1, <1>2, BuiltIsSeq
<1>7. AreItems(t) /\ DOMAIN t = DOMAIN uap
  BY <1>1, <1>2, <1>5, <1>6 DEF AreItems
<1> QED
  BY <1>5, <1>7 DEF t

Ordered(d, uap, mandatory) ==
  [d EXCEPT !.items = InOrder(uap, d), !.mandatoryItemFRNs = MandatoryItemFRNs(uap, mandatory)]

LEMMA OrderDescribes ==
  ASSUME NEW c \in AllCategories, NEW d, Described("order", d, c),
         OrderVerdict(PreparedUap(c.uap), d) = "SUCCESS"
  PROVE  Described("validate", Ordered(d, PreparedUap(c.uap), PreparedMandatory(c.uap)), c)
<1> DEFINE uap == PreparedUap(c.uap)
           mandatory == PreparedMandatory(c.uap)
           t == InOrder(uap, d)
           e == Ordered(d, uap, mandatory)
<1>1. IsDescription(d) /\ Marked(d, mandatory) /\ OwnParts(d, c)
  BY DEF Described
<1>2. IsSeq(uap) /\ IsSeq(mandatory)
  <2>1. c.uap.uap \in Seq(STRING) /\ c.uap.mandatory \in Seq(STRING)
    BY CategoryFacts
  <2> QED
    BY <2>1, UapIsSeq, MandatoryIsSeq
<1> HIDE DEF uap, mandatory
<1>3. OrderVerdict(uap, d) = "SUCCESS"
  BY DEF uap
<1>4. /\ AreItems(t) /\ DOMAIN t = DOMAIN uap
      /\ \A frn \in DOMAIN uap :
           /\ t[frn].name = uap[frn]
           /\ \/ \E n \in ItemsFor(uap, frn, d.items) : t[frn] = d.items[n]
              \/ uap[frn] \in {RE, SP, "-"} /\ t[frn].type # "Compound"
  BY <1>1, <1>2, <1>3, OrderedItems
<1> HIDE DEF t
<1>5. e = [items |-> t, subs |-> d.subs, ref |-> d.ref, spf |-> d.spf,
           mandatoryItemFRNs |-> MandatoryItemFRNs(uap, mandatory), elementsMap |-> d.elementsMap]
  <2> DEFINE a == [d EXCEPT !.items = t]
  <2>1. a = [items |-> t, subs |-> d.subs, ref |-> d.ref, spf |-> d.spf,
             mandatoryItemFRNs |-> d.mandatoryItemFRNs, elementsMap |-> d.elementsMap]
    BY <1>1 DEF IsDescription
  <2>2. e = [a EXCEPT !.mandatoryItemFRNs = MandatoryItemFRNs(uap, mandatory)]
    BY DEF Ordered, t
  <2> HIDE DEF a
  <2> QED
    BY <2>1, <2>2
<1> HIDE DEF e
<1>6. IsDescription(e)
  BY <1>1, <1>4, <1>5 DEF IsDescription
<1>7. OwnParts(e, c)
  <2>1. /\ e.items = t /\ e.subs = d.subs /\ e.ref = d.ref /\ e.spf = d.spf
    BY <1>5
  <2>2. ASSUME NEW frn \in Compounds(e.items) PROVE \E n \in Compounds(d.items) : e.items[frn] = d.items[n]
    <3>1. frn \in DOMAIN uap /\ t[frn].type = "Compound"
      BY <2>1, <2>2, <1>4 DEF Compounds
    <3>2. PICK n \in ItemsFor(uap, frn, d.items) : t[frn] = d.items[n]
      BY <3>1, <1>4
    <3> QED
      BY <2>1, <3>1, <3>2 DEF ItemsFor, Compounds
  <2>3. OwnCompounds(e, c.items)
    BY <2>1, <2>2, <1>1, OwnCompoundsKept DEF OwnParts
  <2>4. ASSUME NEW field, NEW f, OwnField(d, field, f) PROVE OwnField(e, field, f)
    BY <2>1, <2>4 DEF OwnField, LeadsTo
  <2> QED
    BY <2>1, <2>3, <2>4, <1>1 DEF OwnParts
<1>8. Names(e.items) = uap
  <2>1. uap = [n \in DOMAIN uap |-> uap[n]]
    BY <1>2, SeqFacts
  <2> QED
    BY <2>1, <1>4, <1>5 DEF Names
<1>9. MandatoryMatches(e, c)
  <2> SUFFICES ASSUME IsInjective(mandatory), NEW frn \in DOMAIN t, t[frn].name \notin {RE, SP, "-"}
               PROVE  frn \in MandatoryItemFRNs(uap, mandatory) <=> t[frn].mandatory
    BY <1>5 DEF MandatoryMatches, mandatory
  <2> DEFINE name == uap[frn]
             seen == Occurrences(name, uap, frn)
             listed == Occurrences(name, mandatory, Len(mandatory))
  <2>1. PICK n \in ItemsFor(uap, frn, d.items) : t[frn] = d.items[n]
    BY <1>4
  <2>2. /\ n \in DOMAIN d.items /\ d.items[n].name = name
        /\ Occurrences(name, Names(d.items), n) = seen
    BY <2>1 DEF ItemsFor
  <2>3. t[frn].mandatory <=> seen <= listed
    BY <1>1, <2>1, <2>2 DEF Marked
  <2>4. frn \in DOMAIN uap /\ frn \in Nat \ {0}
    BY <1>2, <1>4, SeqFacts
  <2>5. seen \in Nat \ {0} /\ (seen = 1 <=> IsFirst(frn, uap))
    BY <2>4, FirstOccurrence
  <2>6. listed = IF name \in ToSet(mandatory) THEN 1 ELSE 0
    BY <1>2, OccurrencesInInjective
  <2>7. frn \in MandatoryItemFRNs(uap, mandatory) <=> name \in ToSet(mandatory) /\ IsFirst(frn, uap)
    BY <2>4 DEF MandatoryItemFRNs
  <2> HIDE DEF seen, listed, name
  <2>8. seen <= listed <=> name \in ToSet(mandatory) /\ seen = 1
    BY <2>5, <2>6
  <2> QED
    BY <2>3, <2>5, <2>7, <2>8
<1> QED
  BY <1>6, <1>7, <1>8, <1>9 DEF Described, e, uap, mandatory

-----------------------------------------------------------------------------
(* What marshalling makes of an item of a file, and of a list of them.     *)
MadeOf(x, y) ==
  /\ IsItem(y) /\ y.name = x.name /\ y.type = x.type /\ DOMAIN y.elements = DOMAIN x.elements
  /\ Len(y.elements) = Len(x.elements)
  /\ \A n \in DOMAIN x.elements : y.elements[n] = x.elements[n].bits
  /\ x.elements # <<>> => y.names # <<>> /\ y.names[1] = x.elements[1].name

AllMadeOf(file, t) ==
  /\ IsSeq(t) /\ DOMAIN t = DOMAIN file /\ Len(t) = Len(file)
  /\ \A n \in DOMAIN file : MadeOf(file[n], t[n])

LEMMA NotEmpty ==
  ASSUME NEW s, IsSeq(s)
  PROVE  s # <<>> <=> Len(s) # 0
<1>1. s \in Seq(ToSet(s))
  BY DEF IsSeq
<1>2. Len(<<>>) = 0 /\ (s # <<>> => Len(s) \in Nat \ {0})
  BY <1>1, EmptySeq
<1> QED
  BY <1>2

LEMMA MarshalledItem ==
  ASSUME NEW x, IsSeq(x.elements), NEW n, NEW names, NEW mandatory
  PROVE  MadeOf(x, Marshalled(x, n, names, mandatory))
<1> DEFINE own == [e \in DOMAIN x.elements |-> x.elements[e].name]
           bits == [e \in DOMAIN x.elements |-> x.elements[e].bits]
           flaws == {x.elements[e].flaw : e \in DOMAIN x.elements}
           flag == Occurrences(x.name, names, n) <= Occurrences(x.name, mandatory, Len(mandatory))
           y == Marshalled(x, n, names, mandatory)
           k == Len(x.elements)
<1>1. k \in Nat /\ DOMAIN x.elements = 1 .. k
  BY SeqFacts
<1>2. /\ DOMAIN own = 1 .. k /\ own = [e \in 1 .. k |-> own[e]]
      /\ DOMAIN bits = 1 .. k /\ bits = [e \in 1 .. k |-> bits[e]]
      /\ \A e \in 1 .. k : own[e] = x.elements[e].name /\ bits[e] = x.elements[e].bits
  BY <1>1
<1>3. y = [name |-> x.name, type |-> x.type, length |-> x.length, names |-> own, elements |-> bits,
           flaws |-> flaws, mandatory |-> flag]
  BY DEF Marshalled
<1> HIDE DEF own, bits, flaws, flag, y, k
<1>4. IsSeq(own) /\ Len(own) = k /\ IsSeq(bits) /\ Len(bits) = k
  BY <1>1, <1>2, BuiltIsSeq
<1>5. y.names = own /\ y.elements = bits /\ y.name = x.name /\ y.type = x.type
  BY <1>3
<1>6. IsItem(y)
  BY <1>3, <1>4 DEF IsItem
<1>7. x.elements # <<>> => own # <<>> /\ own[1] = x.elements[1].name
  <2>1. x.elements # <<>> => k # 0
    BY NotEmpty DEF k
  <2>2. k # 0 => own # <<>> /\ 1 \in 1 .. k
    BY <1>1, <1>4, NotEmpty
  <2> QED
    BY <2>1, <2>2, <1>2
<1>8. MadeOf(x, y)
  BY <1>1, <1>2, <1>4, <1>5, <1>6, <1>7 DEF MadeOf, k
<1> QED
  BY <1>8 DEF y

LEMMA MarshalledPart ==
  ASSUME NEW file, IsSeq(file), \A n \in DOMAIN file : IsSeq(file[n].elements),
         NEW before, NEW names, NEW mandatory
  PROVE  AllMadeOf(file, [n \in DOMAIN file |-> Marshalled(file[n], Len(before) + n, names, mandatory)])
<1> DEFINE t == [n \in DOMAIN file |-> Marshalled(file[n], Len(before) + n, names, mandatory)]
<1>1. Len(file) \in Nat /\ DOMAIN file = 1 .. Len(file)
  BY SeqFacts
<1>2. \A n \in DOMAIN file : MadeOf(file[n], t[n])
  BY MarshalledItem
<1>3. DOMAIN t = 1 .. Len(file) /\ t = [n \in 1 .. Len(file) |-> t[n]]
  BY <1>1
<1> HIDE DEF t
<1>4. IsSeq(t) /\ Len(t) = Len(file)
  BY <1>1, <1>3, BuiltIsSeq
<1> QED
  BY <1>1, <1>2, <1>3, <1>4 DEF AllMadeOf, t

(* The compound items before one of them are fewer than all.               *)
LEMMA CompoundsAreCounted ==
  ASSUME NEW items, IsSeq(items)
  PROVE  /\ Cardinality(Compounds(items)) \in Nat
         /\ \A n \in Compounds(items) :
              CompoundsBefore(items, n) \in Nat /\ CompoundsBefore(items, n) < Cardinality(Compounds(items))
<1>1. Len(items) \in Nat /\ DOMAIN items = 1 .. Len(items)
  BY SeqFacts
<1>2. IsFiniteSet(Compounds(items))
  <2>1. IsFiniteSet(1 .. Len(items)) /\ Compounds(items) \subseteq 1 .. Len(items)
    BY <1>1, FS_Interval DEF Compounds
  <2> QED
    BY <2>1, FS_Subset
<1>3. Cardinality(Compounds(items)) \in Nat
  BY <1>2, FS_CardinalityType
<1>4. ASSUME NEW n \in Compounds(items)
      PROVE  CompoundsBefore(items, n) \in Nat /\ CompoundsBefore(items, n) < Cardinality(Compounds(items))
  <2> DEFINE S == {c \in Compounds(items) : c < n}
  <2>1. IsFiniteSet(S)
    BY <1>2, FS_Subset
  <2>2. n \notin S /\ S \cup {n} \subseteq Compounds(items)
    BY <1>1 DEF Compounds
  <2> HIDE DEF S
  <2>3. Cardinality(S) \in Nat /\ Cardinality(S \cup {n}) = Cardinality(S) + 1 /\ IsFiniteSet(S \cup {n})
    BY <2>1, <2>2, FS_CardinalityType, FS_AddElement
  <2>4. Cardinality(S \cup {n}) <= Cardinality(Compounds(items))
    BY <1>2, <2>2, FS_Subset
  <2>5. Cardinality(S) \in Nat /\ Cardinality(S) < Cardinality(Compounds(items))
    BY <1>3, <2>3, <2>4
  <2> QED
    BY <2>5 DEF S, CompoundsBefore
<1> QED
  BY <1>3, <1>4

(* The subitems of the compound items of a field, copied for each of them. *)
LEMMA CopiesOfSubitems ==
  ASSUME NEW field, IsSeq(field), NEW subs, IsSeq(subs)
  PROVE  LET u == TimesCompounds(field, subs)
         IN /\ IsSeq(u) /\ ToSet(u) \subseteq ToSet(subs)
            /\ Len(u) = Cardinality(Compounds(field)) * Len(subs)
            /\ \A m \in Compounds(field) : \A n \in 1 .. Len(subs) :
                 LET e == CompoundsBefore(field, m) * Len(subs) + n
                 IN e \in 1 .. Len(u) /\ u[e] = subs[n]
<1> DEFINE k == Cardinality(Compounds(field))
           u == TimesCompounds(field, subs)
<1>1. k \in Nat /\ Len(subs) \in Nat
  BY CompoundsAreCounted, SeqFacts
<1>2. u = FlattenSeq([c \in 1 .. k |-> subs])
  BY DEF TimesCompounds
<1> HIDE DEF k, u
<1>3. /\ IsSeq(u) /\ Len(u) = k * Len(subs) /\ ToSet(u) \subseteq ToSet(subs)
      /\ \A q \in 0 .. k - 1 : \A n \in 1 .. Len(subs) : u[q * Len(subs) + n] = subs[n]
  BY <1>1, <1>2, FlattenCopies
<1>4. ASSUME NEW m \in Compounds(field), NEW n \in 1 .. Len(subs)
      PROVE  LET e == CompoundsBefore(field, m) * Len(subs) + n
             IN e \in 1 .. Len(u) /\ u[e] = subs[n]
  <2> DEFINE q == CompoundsBefore(field, m)
  <2>1. q \in Nat /\ q < k
    BY CompoundsAreCounted DEF k
  <2> HIDE DEF q
  <2>2. q * Len(subs) + n \in 1 .. k * Len(subs)
    BY <1>1, <2>1, InCopy
  <2>3. q \in 0 .. k - 1
    BY <1>1, <2>1
  <2>4. q * Len(subs) + n \in 1 .. Len(u) /\ u[q * Len(subs) + n] = subs[n]
    BY <1>3, <2>2, <2>3
  <2> QED
    BY <2>4 DEF q
<1> QED
  BY <1>3, <1>4 DEF k, u

(* The new indices of a compound item lead into its copy of the subitems.  *)
LEMMA RenumberedItems ==
  ASSUME NEW field, AreItems(field), NEW subs, NEW base
  PROVE  LET t == WithNewIndices(field, subs, base)
         IN /\ AreItems(t) /\ Names(t) = Names(field) /\ Compounds(t) = Compounds(field)
            /\ \A m \in Compounds(field) :
                 LET first == CompoundsBefore(field, m) * Len(subs)
                 IN \A e \in DOMAIN field[m].elements :
                      e \in first + 1 .. first + Len(subs) => t[m].elements[e] = base + e - 1
<1> DEFINE t == WithNewIndices(field, subs, base)
           first(m) == CompoundsBefore(field, m) * Len(subs)
           elements(m) == [e \in DOMAIN field[m].elements |->
                             IF e \in first(m) + 1 .. first(m) + Len(subs) THEN base + e - 1 ELSE 0]
<1>1. Len(field) \in Nat /\ DOMAIN field = 1 .. Len(field)
  BY SeqFacts DEF AreItems
<1>2. DOMAIN t = 1 .. Len(field) /\ t = [n \in 1 .. Len(field) |-> t[n]]
  BY <1>1 DEF WithNewIndices
<1>3. ASSUME NEW n \in DOMAIN field, n \notin Compounds(field)
      PROVE  t[n] = field[n]
  BY <1>3 DEF WithNewIndices
<1>4. ASSUME NEW n \in Compounds(field)
      PROVE  /\ IsItem(t[n]) /\ t[n].name = field[n].name /\ t[n].type = field[n].type
             /\ t[n].elements = elements(n)
  <2> DEFINE x == field[n]
             new == elements(n)
  <2>1. n \in DOMAIN field /\ IsItem(x)
    BY DEF Compounds, AreItems
  <2>2. t[n] = [x EXCEPT !.elements = new]
    BY <2>1 DEF WithNewIndices
  <2>3. Len(x.elements) \in Nat /\ DOMAIN x.elements = 1 .. Len(x.elements)
    BY <2>1, SeqFacts DEF IsItem
  <2>4. DOMAIN new = 1 .. Len(x.elements) /\ new = [e \in 1 .. Len(x.elements) |-> new[e]]
    BY <2>3
  <2> DEFINE y == t[n]
  <2>5. y = [x EXCEPT !.elements = new]
    BY <2>2
  <2> HIDE DEF x, new, t, elements, y
  <2>6. IsSeq(new)
    BY <2>3, <2>4, BuiltIsSeq
  <2>7. x = [name |-> x.name, type |-> x.type, length |-> x.length, flaws |-> x.flaws,
             mandatory |-> x.mandatory, names |-> x.names, elements |-> x.elements]
    BY <2>1 DEF IsItem
  <2>8. y = [name |-> x.name, type |-> x.type, length |-> x.length, flaws |-> x.flaws,
             mandatory |-> x.mandatory, names |-> x.names, elements |-> new]
    BY <2>5, <2>7
  <2>9. IsItem(y) /\ y.name = x.name /\ y.type = x.type /\ y.elements = new
    BY <2>1, <2>6, <2>8 DEF IsItem
  <2> QED
    BY <2>9 DEF x, y, new
<1> HIDE DEF t, elements
<1>5. IsSeq(t)
  BY <1>1, <1>2, BuiltIsSeq
<1>6. \A n \in DOMAIN field : IsItem(t[n]) /\ t[n].name = field[n].name /\ t[n].type = field[n].type
  BY <1>3, <1>4 DEF AreItems
<1>7. AreItems(t) /\ DOMAIN t = DOMAIN field
  BY <1>1, <1>2, <1>5, <1>6 DEF AreItems
<1>8. Names(t) = Names(field) /\ Compounds(t) = Compounds(field)
  BY <1>6, <1>7 DEF Names, Compounds
<1>9. ASSUME NEW m \in Compounds(field), NEW e \in DOMAIN field[m].elements,
             e \in first(m) + 1 .. first(m) + Len(subs)
      PROVE  t[m].elements[e] = base + e - 1
  <2>1. t[m].elements = elements(m)
    BY <1>4
  <2> QED
    BY <2>1, <1>9 DEF elements
<1> QED
  BY <1>7, <1>8, <1>9 DEF t

(* The field of a description leads to the copies behind the subitems that *)
(* were there before.                                                      *)
LEMMA RenumberedField ==
  ASSUME NEW f, NEW field, AllMadeOf(Contents(f).items, field), NEW subs, AllMadeOf(Contents(f).subs, subs),
         \A n \in DOMAIN Contents(f).subs : Contents(f).subs[n].elements # <<>>,
         IndicesFit(field, subs), NEW base \in Nat,
         NEW d, Len(d.subs) \in Nat, base + Len(TimesCompounds(field, subs)) <= Len(d.subs),
         \A n \in 1 .. Len(TimesCompounds(field, subs)) : d.subs[base + n] = TimesCompounds(field, subs)[n]
  PROVE  OwnField(d, WithNewIndices(field, subs, base), f) /\ AreItems(WithNewIndices(field, subs, base))
<1> DEFINE F == Contents(f)
           t == WithNewIndices(field, subs, base)
           u == TimesCompounds(field, subs)
           L == Len(subs)
<1>1. AreItems(field) /\ AreItems(subs)
  BY DEF AllMadeOf, MadeOf, AreItems
<1>2. IsSeq(field) /\ IsSeq(subs) /\ Len(subs) \in Nat /\ DOMAIN subs = 1 .. Len(subs)
  BY <1>1, SeqFacts DEF AreItems
<1>3. /\ AreItems(t) /\ Names(t) = Names(field) /\ Compounds(t) = Compounds(field)
      /\ \A m \in Compounds(field) :
           LET first == CompoundsBefore(field, m) * L
           IN \A e \in DOMAIN field[m].elements :
                e \in first + 1 .. first + L => t[m].elements[e] = base + e - 1
  BY <1>1, RenumberedItems
<1>4. /\ IsSeq(u)
      /\ \A m \in Compounds(field) : \A n \in 1 .. L :
           LET e == CompoundsBefore(field, m) * L + n IN e \in 1 .. Len(u) /\ u[e] = subs[n]
  BY <1>2, CopiesOfSubitems
<1>5. Names(field) = Names(F.items)
  BY DEF AllMadeOf, MadeOf, Names
<1>6. DOMAIN F.subs = 1 .. L /\ Len(F.subs) = L
  BY <1>2 DEF AllMadeOf
<1>7. \A m : CompoundsBefore(t, m) = CompoundsBefore(field, m)
  BY <1>3 DEF CompoundsBefore
<1>8. ASSUME NEW m \in Compounds(t), NEW n \in DOMAIN F.subs
      PROVE  LeadsTo(d, t[m], CompoundsBefore(t, m) * Len(F.subs) + n, F.subs[n])
  <2> DEFINE first == CompoundsBefore(field, m) * L
             e == first + n
  <2>1. m \in Compounds(field) /\ n \in 1 .. L /\ CompoundsBefore(t, m) * Len(F.subs) + n = e
    BY <1>3, <1>6, <1>7
  <2>2. CompoundsBefore(field, m) \in Nat /\ first \in Nat
    BY <2>1, <1>2, CompoundsAreCounted
  <2>3. e \in 1 .. Len(u) /\ u[e] = subs[n]
    BY <2>1, <1>4
  <2>4. e \in DOMAIN field[m].elements /\ e \in first + 1 .. first + L
    <3> DEFINE q == CompoundsBefore(field, m)
               k == Len(field[m].elements)
    <3>1. subs # <<>>
      BY <2>1, <1>2, NotEmpty
    <3>2. (q + 1) * L <= k
      BY <2>1, <3>1 DEF IndicesFit
    <3>3. k \in Nat /\ DOMAIN field[m].elements = 1 .. k
      BY <2>1, <1>1, SeqFacts DEF Compounds, AreItems, IsItem
    <3>4. (q + 1) * L = q * L + L /\ q * L \in Nat
      BY <2>2, <1>2
    <3>5. q * L + n \in 1 .. k /\ q * L + n \in q * L + 1 .. q * L + L
      <4> DEFINE r == q * L
      <4>1. r \in Nat /\ r + L <= k /\ k \in Nat /\ L \in Nat /\ n \in 1 .. L
        BY <2>1, <3>2, <3>3, <3>4, <1>2
      <4> HIDE DEF r, k, L
      <4>2. r + n \in 1 .. k /\ r + n \in r + 1 .. r + L
        BY <4>1
      <4> QED
        BY <4>2 DEF r
    <3> QED
      BY <3>3, <3>5
  <2>5. t[m].elements[e] = base + e - 1
    BY <2>1, <2>4, <1>3
  <2>6. base + e \in 1 .. Len(d.subs) /\ d.subs[base + e] = subs[n]
    <3>1. Len(u) \in Nat /\ \A p \in 1 .. Len(u) : d.subs[base + p] = u[p]
      BY <1>4, SeqFacts
    <3> HIDE DEF e, u
    <3> QED
      BY <2>3, <3>1 DEF u
  <2>7. MadeOf(F.subs[n], subs[n]) /\ F.subs[n].elements # <<>>
    BY <1>8 DEF AllMadeOf
  <2>8. base + e - 1 \in 0 .. Len(d.subs) - 1 /\ base + e - 1 + 1 = base + e
    <3>1. e \in Nat
      BY <2>2, <2>1
    <3> HIDE DEF e
    <3> QED
      BY <2>6, <3>1
  <2> DEFINE index == base + e - 1
  <2>9. t[m].elements[e] = index /\ index \in 0 .. Len(d.subs) - 1 /\ d.subs[index + 1] = subs[n]
    BY <2>5, <2>6, <2>8
  <2> HIDE DEF index, e, t, F
  <2>10. LeadsTo(d, t[m], e, F.subs[n])
    BY <2>7, <2>9 DEF LeadsTo, MadeOf
  <2> QED
    BY <2>1, <2>10
<1> HIDE DEF t, F
<1>9. OwnField(d, t, f)
  BY <1>3, <1>5, <1>8 DEF OwnField, F
<1> QED
  BY <1>3, <1>9 DEF t

(* The description that marshalling makes of the files.                    *)
SubsBehind(m) == m.subs \o TimesCompounds(m.ref, m.refSubs)
MarshalledInto(d, m) ==
  [d EXCEPT !.items = m.items,
            !.subs = SubsBehind(m) \o TimesCompounds(m.spf, m.spfSubs),
            !.ref = WithNewIndices(m.ref, m.refSubs, Len(m.subs)),
            !.spf = WithNewIndices(m.spf, m.spfSubs, Len(SubsBehind(m)))]

LEMMA MarshalledDescription ==
  ASSUME NEW d, IsDescription(d), NEW m
  PROVE  MarshalledInto(d, m) =
           [items |-> m.items, subs |-> SubsBehind(m) \o TimesCompounds(m.spf, m.spfSubs),
            ref |-> WithNewIndices(m.ref, m.refSubs, Len(m.subs)),
            spf |-> WithNewIndices(m.spf, m.spfSubs, Len(SubsBehind(m))),
            mandatoryItemFRNs |-> d.mandatoryItemFRNs, elementsMap |-> d.elementsMap]
<1> DEFINE subs == SubsBehind(m) \o TimesCompounds(m.spf, m.spfSubs)
           ref == WithNewIndices(m.ref, m.refSubs, Len(m.subs))
           spf == WithNewIndices(m.spf, m.spfSubs, Len(SubsBehind(m)))
           a == [d EXCEPT !.items = m.items]
           b == [a EXCEPT !.subs = subs]
           c == [b EXCEPT !.ref = ref]
           e == [c EXCEPT !.spf = spf]
<1>1. MarshalledInto(d, m) = e
  BY DEF MarshalledInto
<1> HIDE DEF subs, ref, spf
<1>2. a = [items |-> m.items, subs |-> d.subs, ref |-> d.ref, spf |-> d.spf,
           mandatoryItemFRNs |-> d.mandatoryItemFRNs, elementsMap |-> d.elementsMap]
  BY DEF IsDescription
<1>3. b = [items |-> m.items, subs |-> subs, ref |-> d.ref, spf |-> d.spf,
           mandatoryItemFRNs |-> d.mandatoryItemFRNs, elementsMap |-> d.elementsMap]
  <2> HIDE DEF a
  <2> QED
    BY <1>2
<1>4. c = [items |-> m.items, subs |-> subs, ref |-> ref, spf |-> d.spf,
           mandatoryItemFRNs |-> d.mandatoryItemFRNs, elementsMap |-> d.elementsMap]
  <2> HIDE DEF b
  <2> QED
    BY <1>3
<1>5. e = [items |-> m.items, subs |-> subs, ref |-> ref, spf |-> spf,
           mandatoryItemFRNs |-> d.mandatoryItemFRNs, elementsMap |-> d.elementsMap]
  <2> HIDE DEF c
  <2> QED
    BY <1>4
<1> QED
  BY <1>1, <1>5 DEF subs, ref, spf

(* The items come first among the files that are marshalled.               *)
LEMMA ItemsComeFirst ==
  ASSUME NEW locals, IsFile(locals.items), IsFile(locals.ref), IsFile(locals.spf)
  PROVE  /\ IsSeq(AllExternal(locals))
         /\ \A n \in 1 .. Len(locals.items.items) :
              n \in DOMAIN AllExternal(locals) /\ AllExternal(locals)[n] = locals.items.items[n]
<1> DEFINE s1 == locals.items.items
           s2 == ItemsAndSubs(locals)
           s3 == s2 \o locals.ref.items
           s4 == UpToRef(locals)
           s5 == s4 \o locals.spf.items
           s6 == AllExternal(locals)
<1>0. /\ IsSeq(s1) /\ IsSeq(locals.items.subs) /\ IsSeq(locals.ref.items) /\ IsSeq(locals.ref.subs)
      /\ IsSeq(locals.spf.items) /\ IsSeq(locals.spf.subs)
  BY DEF IsFile
<1> DEFINE Begins(s, t) == Len(s) <= Len(t) /\ \A n \in 1 .. Len(s) : t[n] = s[n]
<1>1. ASSUME NEW s, IsSeq(s), NEW t, IsSeq(t)
      PROVE  IsSeq(s \o t) /\ Begins(s, s \o t)
  <2>1. Len(s) \in Nat /\ Len(t) \in Nat
    BY <1>1, SeqFacts
  <2> QED
    BY <1>1, <2>1, ConcatIsSeq
<1>5. IsSeq(s2) /\ Begins(s1, s2)
  BY <1>0, <1>1 DEF ItemsAndSubs
<1>6. IsSeq(s3) /\ Begins(s2, s3)
  BY <1>0, <1>1, <1>5
<1>7. IsSeq(s4) /\ Begins(s3, s4)
  BY <1>0, <1>1, <1>6 DEF UpToRef
<1>8. IsSeq(s5) /\ Begins(s4, s5)
  BY <1>0, <1>1, <1>7
<1>9. IsSeq(s6) /\ Begins(s5, s6)
  BY <1>0, <1>1, <1>8 DEF AllExternal
<1>10. /\ Len(s1) \in Nat /\ Len(s2) \in Nat /\ Len(s3) \in Nat /\ Len(s4) \in Nat
       /\ Len(s5) \in Nat /\ Len(s6) \in Nat /\ DOMAIN s6 = 1 .. Len(s6)
  BY <1>0, <1>5, <1>6, <1>7, <1>8, <1>9, SeqFacts
<1> HIDE DEF s1, s2, s3, s4, s5, s6
<1>11. \A n \in 1 .. Len(s1) : n \in DOMAIN s6 /\ s6[n] = s1[n]
  <2> SUFFICES ASSUME NEW n \in 1 .. Len(s1) PROVE n \in DOMAIN s6 /\ s6[n] = s1[n]
    OBVIOUS
  <2>1. n \in 1 .. Len(s2) /\ n \in 1 .. Len(s3) /\ n \in 1 .. Len(s4) /\ n \in 1 .. Len(s5) /\ n \in 1 .. Len(s6)
    BY <1>5, <1>6, <1>7, <1>8, <1>9, <1>10
  <2> QED
    BY <2>1, <1>5, <1>6, <1>7, <1>8, <1>9, <1>10
<1> QED
  BY <1>9, <1>11 DEF s1, s6

LEMMA MarshallingDescribes ==
  ASSUME NEW c, NEW d, IsDescription(d),
         NEW locals, IsFile(locals.items), IsFile(locals.ref), IsFile(locals.spf),
         locals.items = Contents(c.items), locals.ref = Contents(c.ref), locals.spf = Contents(c.spf),
         locals.mandatory = PreparedMandatory(c.uap),
         MarshalVerdict(AllExternal(locals), MarshalledFiles(locals)) = "SUCCESS"
  PROVE  Described("order", MarshalledInto(d, MarshalledFiles(locals)), c)
<1> DEFINE names == Names(AllExternal(locals))
           m == MarshalledFiles(locals)
           e == MarshalledInto(d, m)
           refCopies == TimesCompounds(m.ref, m.refSubs)
           spfCopies == TimesCompounds(m.spf, m.spfSubs)
           behind == SubsBehind(m)
<1>1. /\ AllMadeOf(locals.items.items, m.items) /\ AllMadeOf(locals.items.subs, m.subs)
      /\ AllMadeOf(locals.ref.items, m.ref) /\ AllMadeOf(locals.ref.subs, m.refSubs)
      /\ AllMadeOf(locals.spf.items, m.spf) /\ AllMadeOf(locals.spf.subs, m.spfSubs)
  <2>1. \A f \in {locals.items, locals.ref, locals.spf} :
          /\ IsSeq(f.items) /\ \A n \in DOMAIN f.items : IsSeq(f.items[n].elements)
          /\ IsSeq(f.subs) /\ \A n \in DOMAIN f.subs : IsSeq(f.subs[n].elements)
    BY DEF IsFile
  <2> QED
    BY <2>1, MarshalledPart DEF MarshalledFiles
<1>2. IndicesFit(m.ref, m.refSubs) /\ IndicesFit(m.spf, m.spfSubs)
  BY DEF MarshalVerdict
<1>3. \A n \in DOMAIN m.items :
        m.items[n].mandatory <=>
          Occurrences(m.items[n].name, names, n)
            <= Occurrences(m.items[n].name, locals.mandatory, Len(locals.mandatory))
  <2> SUFFICES ASSUME NEW n \in DOMAIN m.items
               PROVE  m.items[n].mandatory <=>
                        Occurrences(m.items[n].name, names, n)
                          <= Occurrences(m.items[n].name, locals.mandatory, Len(locals.mandatory))
    OBVIOUS
  <2> DEFINE file == locals.items.items
  <2>1. n \in DOMAIN file /\ n \in Nat /\ IsSeq(file)
    BY <1>1, SeqFacts DEF AllMadeOf, IsFile
  <2>2. m.items[n] = Marshalled(file[n], Len(<<>>) + n, names, locals.mandatory)
    BY <2>1 DEF MarshalledFiles
  <2>3. Len(<<>>) + n = n
    BY <2>1
  <2>4. m.items[n] = Marshalled(file[n], n, names, locals.mandatory)
    BY <2>2, <2>3
  <2>5. m.items[n].name = file[n].name
    BY <2>1, <1>1 DEF AllMadeOf, MadeOf
  <2> DEFINE x == file[n]
  <2> HIDE DEF m, names, x
  <2>6. Marshalled(x, n, names, locals.mandatory).mandatory =
          (Occurrences(x.name, names, n) <= Occurrences(x.name, locals.mandatory, Len(locals.mandatory)))
    BY DEF Marshalled
  <2> QED
    BY <2>4, <2>5, <2>6 DEF x
<1> HIDE DEF m
<1>4. \A n \in DOMAIN m.items : \A name :
        Occurrences(name, names, n) = Occurrences(name, Names(m.items), n)
  <2> SUFFICES ASSUME NEW n \in DOMAIN m.items, NEW name
               PROVE  Occurrences(name, names, n) = Occurrences(name, Names(m.items), n)
    OBVIOUS
  <2>1. /\ DOMAIN m.items = 1 .. Len(m.items) /\ Len(m.items) \in Nat
        /\ DOMAIN locals.items.items = DOMAIN m.items /\ Len(locals.items.items) = Len(m.items)
        /\ \A p \in DOMAIN m.items : m.items[p].name = locals.items.items[p].name
    BY <1>1, SeqFacts DEF AllMadeOf, MadeOf
  <2>2. \A p \in 1 .. n : p \in 1 .. Len(m.items)
    BY <2>1
  <2>3. \A p \in 1 .. n : names[p] = m.items[p].name /\ Names(m.items)[p] = m.items[p].name
    BY <2>1, <2>2, ItemsComeFirst DEF Names
  <2> HIDE DEF names
  <2> QED
    BY <2>3 DEF Occurrences
<1> HIDE DEF names
<1>5. e = [items |-> m.items, subs |-> behind \o spfCopies,
           ref |-> WithNewIndices(m.ref, m.refSubs, Len(m.subs)),
           spf |-> WithNewIndices(m.spf, m.spfSubs, Len(behind)),
           mandatoryItemFRNs |-> d.mandatoryItemFRNs, elementsMap |-> d.elementsMap]
  BY MarshalledDescription
<1>6. /\ AreItems(m.items) /\ AreItems(m.subs) /\ AreItems(m.refSubs) /\ AreItems(m.spfSubs)
      /\ IsSeq(m.ref) /\ IsSeq(m.spf)
  BY <1>1 DEF AllMadeOf, MadeOf, AreItems
<1>7. IsSeq(refCopies) /\ ToSet(refCopies) \subseteq ToSet(m.refSubs)
      /\ IsSeq(spfCopies) /\ ToSet(spfCopies) \subseteq ToSet(m.spfSubs)
  BY <1>6, CopiesOfSubitems DEF AreItems
<1>8. behind = m.subs \o refCopies
  BY DEF SubsBehind
<1> HIDE DEF refCopies, spfCopies, behind, e
<1>9. /\ e.items = m.items /\ e.subs = behind \o spfCopies
      /\ e.ref = WithNewIndices(m.ref, m.refSubs, Len(m.subs))
      /\ e.spf = WithNewIndices(m.spf, m.spfSubs, Len(behind))
      /\ e = [items |-> e.items, subs |-> e.subs, ref |-> e.ref, spf |-> e.spf,
              mandatoryItemFRNs |-> e.mandatoryItemFRNs, elementsMap |-> e.elementsMap]
  BY <1>5
<1>10. /\ IsSeq(behind) /\ Len(behind) = Len(m.subs) + Len(refCopies)
       /\ \A n \in 1 .. Len(m.subs) : behind[n] = m.subs[n]
       /\ \A n \in 1 .. Len(refCopies) : behind[Len(m.subs) + n] = refCopies[n]
       /\ ToSet(behind) = ToSet(m.subs) \cup ToSet(refCopies)
  BY <1>6, <1>7, <1>8, ConcatIsSeq DEF AreItems
<1>11. /\ IsSeq(e.subs) /\ Len(e.subs) = Len(behind) + Len(spfCopies)
       /\ \A n \in 1 .. Len(behind) : e.subs[n] = behind[n]
       /\ \A n \in 1 .. Len(spfCopies) : e.subs[Len(behind) + n] = spfCopies[n]
       /\ ToSet(e.subs) = ToSet(behind) \cup ToSet(spfCopies)
  <2>1. e.subs = behind \o spfCopies
    BY <1>9
  <2>2. IsSeq(behind) /\ IsSeq(spfCopies)
    BY <1>7, <1>10
  <2> QED
    BY <2>1, <2>2, ConcatIsSeq
<1>12. /\ Len(m.subs) \in Nat /\ Len(refCopies) \in Nat /\ Len(spfCopies) \in Nat /\ Len(behind) \in Nat
       /\ Len(e.subs) \in Nat
  BY <1>6, <1>7, <1>10, <1>11, SeqFacts DEF AreItems
<1>13. AreItems(e.subs) /\ \A n \in DOMAIN e.subs : e.subs[n].names # <<>>
  <2>1. ASSUME NEW file, NEW t, AllMadeOf(file, t), \A n \in DOMAIN file : file[n].elements # <<>>,
               NEW x \in ToSet(t)
        PROVE  IsItem(x) /\ x.names # <<>>
    BY <2>1 DEF ToSet, AllMadeOf, MadeOf
  <2>2. \A x \in ToSet(m.subs) \cup ToSet(m.refSubs) \cup ToSet(m.spfSubs) : IsItem(x) /\ x.names # <<>>
    BY <1>1, <2>1 DEF IsFile
  <2>3. \A x \in ToSet(e.subs) : IsItem(x) /\ x.names # <<>>
    BY <2>2, <1>7, <1>10, <1>11
  <2> QED
    BY <2>3, <1>11 DEF AreItems, ToSet
<1>14. OwnField(e, e.ref, c.ref) /\ AreItems(e.ref)
  <2>1. Len(m.subs) + Len(refCopies) <= Len(e.subs)
    BY <1>10, <1>11, <1>12
  <2>2. \A n \in 1 .. Len(refCopies) : e.subs[Len(m.subs) + n] = refCopies[n]
    <3> SUFFICES ASSUME NEW n \in 1 .. Len(refCopies) PROVE e.subs[Len(m.subs) + n] = refCopies[n]
      OBVIOUS
    <3>1. Len(m.subs) + n \in 1 .. Len(behind)
      BY <1>10, <1>12
    <3> QED
      BY <3>1, <1>10, <1>11
  <2>3. \A n \in DOMAIN Contents(c.ref).subs : Contents(c.ref).subs[n].elements # <<>>
    BY DEF IsFile
  <2>4. AllMadeOf(Contents(c.ref).items, m.ref) /\ AllMadeOf(Contents(c.ref).subs, m.refSubs)
    BY <1>1
  <2> QED
    BY ONLY <2>1, <2>2, <2>3, <2>4, <1>2, <1>9, <1>12, RenumberedField DEF refCopies
<1>15. OwnField(e, e.spf, c.spf) /\ AreItems(e.spf)
  <2>1. Len(behind) + Len(spfCopies) <= Len(e.subs)
    BY <1>11, <1>12
  <2>2. \A n \in DOMAIN Contents(c.spf).subs : Contents(c.spf).subs[n].elements # <<>>
    BY DEF IsFile
  <2>3. AllMadeOf(Contents(c.spf).items, m.spf) /\ AllMadeOf(Contents(c.spf).subs, m.spfSubs)
    BY <1>1
  <2>4. /\ IndicesFit(m.spf, m.spfSubs) /\ Len(behind) \in Nat /\ Len(e.subs) \in Nat
        /\ \A n \in 1 .. Len(spfCopies) : e.subs[Len(behind) + n] = spfCopies[n]
    BY <1>2, <1>11, <1>12
  <2>5. e.spf = WithNewIndices(m.spf, m.spfSubs, Len(behind))
    BY <1>9
  <2> QED
    BY ONLY <2>1, <2>2, <2>3, <2>4, <2>5, RenumberedField DEF spfCopies
<1>16. OwnCompounds(e, c.items)
  <2> SUFFICES ASSUME NEW frn \in Compounds(m.items)
               PROVE  \E item \in ToSet(Contents(c.items).items) :
                        /\ item.name = m.items[frn].name
                        /\ \A n \in DOMAIN item.elements :
                             item.elements[n].bits \in 0 .. Len(Contents(c.items).subs) - 1
                             => LeadsTo(e, m.items[frn], n, Contents(c.items).subs[item.elements[n].bits + 1])
    BY <1>9 DEF OwnCompounds
  <2> DEFINE file == Contents(c.items)
             item == file.items[frn]
  <2>1. frn \in DOMAIN file.items /\ MadeOf(item, m.items[frn])
    BY <1>1 DEF Compounds, AllMadeOf
  <2>2. item \in ToSet(file.items) /\ item.name = m.items[frn].name
    BY <2>1 DEF ToSet, MadeOf
  <2>3. ASSUME NEW n \in DOMAIN item.elements, item.elements[n].bits \in 0 .. Len(file.subs) - 1
        PROVE  LeadsTo(e, m.items[frn], n, file.subs[item.elements[n].bits + 1])
    <3> DEFINE index == item.elements[n].bits
    <3>1. m.items[frn].elements[n] = index
      BY <2>1, <2>3 DEF MadeOf
    <3>2. /\ Len(file.subs) = Len(m.subs) /\ DOMAIN file.subs = 1 .. Len(m.subs)
          /\ AllMadeOf(file.subs, m.subs)
      BY <1>1, <1>6, SeqFacts DEF AllMadeOf, AreItems
    <3>3. index \in 0 .. Len(file.subs) - 1
      BY <2>3
    <3> HIDE DEF index
    <3>4. index + 1 \in 1 .. Len(m.subs) /\ index + 1 \in 1 .. Len(behind) /\ index \in 0 .. Len(e.subs) - 1
      BY <3>2, <3>3, <1>10, <1>11, <1>12
    <3>5. e.subs[index + 1] = m.subs[index + 1]
      BY <3>4, <1>10, <1>11
    <3>6. MadeOf(file.subs[index + 1], m.subs[index + 1]) /\ file.subs[index + 1].elements # <<>>
      BY <3>2, <3>4 DEF AllMadeOf, IsFile
    <3>7. LeadsTo(e, m.items[frn], n, file.subs[index + 1])
      BY <3>1, <3>4, <3>5, <3>6 DEF LeadsTo, MadeOf
    <3> QED
      BY <3>7 DEF index
  <2> QED
    BY <2>2, <2>3
<1>17. IsDescription(e)
  BY <1>6, <1>9, <1>13, <1>14, <1>15 DEF IsDescription
<1>18. Marked(e, PreparedMandatory(c.uap))
  BY <1>3, <1>4, <1>9 DEF Marked
<1>19. Described("order", e, c)
  BY <1>14, <1>15, <1>16, <1>17, <1>18 DEF Described, OwnParts
<1> QED
  BY <1>19 DEF e, m

-----------------------------------------------------------------------------
(* The locals of the loader hold what the files of the turn's category     *)
(* say, and nothing of the category before.                                *)
Locals(st, e, c) ==
  /\ e = [uap |-> e.uap, mandatory |-> e.mandatory, items |-> e.items, ref |-> e.ref, spf |-> e.spf]
  /\ IsFile(e.items) /\ IsFile(e.ref) /\ IsFile(e.spf)
  /\ st = "category" => e.items = NoItems /\ e.ref = NoItems /\ e.spf = NoItems
  /\ st \in Working =>
       /\ st # "uap" => e.uap = PreparedUap(c.uap) /\ e.mandatory = PreparedMandatory(c.uap)
       /\ e.items = IF st \in {"uap", "items"} THEN NoItems ELSE Contents(c.items)
       /\ e.ref = IF st \in {"uap", "items", "ref"} THEN NoItems ELSE Contents(c.ref)
       /\ e.spf = IF st \in {"uap", "items", "ref", "spf"} THEN NoItems ELSE Contents(c.spf)
LocalsInv == Locals(stage, ext, Category)

LEMMA NoLocalsAreLocals ==
  ASSUME NEW st, st \notin Working, NEW c
  PROVE  Locals(st, NoLocals, c)
<1>1. /\ NoLocals = [uap |-> <<>>, mandatory |-> <<>>, items |-> NoItems, ref |-> NoItems, spf |-> NoItems]
  BY DEF NoLocals
<1> QED
  BY <1>1, NoItemsIsFile DEF Locals

LEMMA LeaveForgets ==
  ASSUME \E v : Leave(v)
  PROVE  LocalsInv' /\ stage' \in {"idle", "threw"} /\ stage' \notin Working
<1>1. stage' \in {"idle", "threw"} /\ ext' = NoLocals
  BY DEF Leave
<1>2. stage' \notin Working
  BY <1>1 DEF Working
<1> QED
  BY <1>1, <1>2, NoLocalsAreLocals DEF LocalsInv

(* Reading a file of items puts its contents in the collection.            *)
LEMMA FileRead ==
  ASSUME NEW f, f.state \in FileStates, f.items \in Seq(ExternalItem), f.subs \in Seq(ExternalItem),
         NEW collection \in {"items", "ref", "spf"}, NEW next,
         Locals(stage, ext, Category), ext[collection] = NoItems,
         LoadDescription(f, collection, next)
  PROVE  \/ \E v : Leave(v)
         \/ /\ stage' = next /\ UNCHANGED <<i, j, status>>
            /\ ext' = [ext EXCEPT ![collection] = Contents(f)]
            /\ IsFile(Contents(f))
<1> DEFINE verdict == IF ReadVerdict(f) = "SUCCESS" THEN DescriptionVerdict(f) ELSE ReadVerdict(f)
<1>1. \/ f.state = "none" /\ stage' = next /\ UNCHANGED <<i, j, ext, status>>
      \/ Leave(verdict)
      \/ /\ verdict = "SUCCESS" /\ ext' = [ext EXCEPT ![collection] = Prepared(f)]
         /\ stage' = next /\ UNCHANGED <<i, j, status>>
  BY DEF LoadDescription, loopVars
<1>2. CASE f.state = "none" /\ stage' = next /\ UNCHANGED <<i, j, ext, status>>
  <2>1. Contents(f) = NoItems
    BY <1>2 DEF Contents
  <2>2. ext = [uap |-> ext.uap, mandatory |-> ext.mandatory, items |-> ext.items, ref |-> ext.ref, spf |-> ext.spf]
    BY DEF Locals
  <2>3. collection \in DOMAIN ext /\ ext = [x \in DOMAIN ext |-> ext[x]]
    BY <2>2
  <2>4. [ext EXCEPT ![collection] = NoItems] = ext
    BY <2>3
  <2> QED
    BY <2>1, <2>4, <1>2, NoItemsIsFile
<1>3. CASE Leave(verdict)
  BY <1>3
<1>4. CASE /\ verdict = "SUCCESS" /\ ext' = [ext EXCEPT ![collection] = Prepared(f)]
           /\ stage' = next /\ UNCHANGED <<i, j, status>>
  <2>1. ReadVerdict(f) = "SUCCESS"
    BY <1>4
  <2>2. DescriptionVerdict(f) = "SUCCESS"
    BY <1>4, <2>1
  <2>3. f.state = "ok"
    BY <2>1 DEF ReadVerdict, FileStates
  <2>4. Contents(f) = Prepared(f)
    BY <2>3 DEF Contents
  <2> QED
    BY <2>2, <2>4, <1>4, PreparedIsFile
<1> QED
  BY <1>1, <1>2, <1>3, <1>4

LEMMA LocalsStep ==
  ASSUME LoaderInv, LocalsInv, [Next]_vars
  PROVE  LocalsInv'
<1>1. CASE Load
  <2>1. PICK c : LoadAsterixConfiguration(c)
    BY <1>1 DEF Load
  <2>2. ext' = NoLocals /\ stage' \in {"category", "threw", "idle"}
    BY <2>1 DEF LoadAsterixConfiguration
  <2>3. stage' \notin Working
    BY <2>2 DEF Working
  <2> QED
    BY <2>2, <2>3, NoLocalsAreLocals DEF LocalsInv
<1>2. CASE BeginCategory
  <2>1. CASE \E v : Leave(v)
    BY <2>1, LeaveForgets
  <2>2. CASE stage' = "uap" /\ UNCHANGED <<ext, i, config>>
    <3>1. stage = "category" /\ stage' \in Working
      BY <1>2, <2>2 DEF BeginCategory, Working
    <3> QED
      BY <2>2, <3>1 DEF LocalsInv, Locals
  <2> QED
    BY <1>2, <2>1, <2>2 DEF BeginCategory, loopVars
<1>3. CASE EndOfConfiguration
  <2>1. ext' = NoLocals /\ stage' = "idle"
    BY <1>3 DEF EndOfConfiguration
  <2> QED
    BY <2>1, NoLocalsAreLocals DEF LocalsInv, Working
<1>w. stage \in Working => Category \in AllCategories
  BY CategoryOfTurn DEF LoaderInv
<1>4. CASE LoadUapAndMandatoryItemsList
  <2>1. CASE \E v : Leave(v)
    BY <2>1, LeaveForgets
  <2>2. CASE /\ ext' = [ext EXCEPT !.uap = PreparedUap(Category.uap), !.mandatory = PreparedMandatory(Category.uap)]
             /\ stage' = "items" /\ UNCHANGED <<i, config>>
    <3>1. stage = "uap" /\ stage \in Working /\ stage' \in Working /\ Category' = Category
      BY <1>4, <2>2 DEF LoadUapAndMandatoryItemsList, Working, Category
    <3> DEFINE a == [ext EXCEPT !.uap = PreparedUap(Category.uap)]
    <3>2. ext = [uap |-> ext.uap, mandatory |-> ext.mandatory, items |-> ext.items, ref |-> ext.ref, spf |-> ext.spf]
      BY DEF LocalsInv, Locals
    <3>3. a = [uap |-> PreparedUap(Category.uap), mandatory |-> ext.mandatory, items |-> ext.items,
               ref |-> ext.ref, spf |-> ext.spf]
      BY <3>2
    <3>4. ext' = [a EXCEPT !.mandatory = PreparedMandatory(Category.uap)]
      BY <2>2
    <3> HIDE DEF a
    <3>5. ext' = [uap |-> PreparedUap(Category.uap), mandatory |-> PreparedMandatory(Category.uap),
                  items |-> ext.items, ref |-> ext.ref, spf |-> ext.spf]
      BY <3>3, <3>4
    <3> QED
      BY <2>2, <3>1, <3>5 DEF LocalsInv, Locals
  <2> QED
    BY <1>4, <2>1, <2>2 DEF LoadUapAndMandatoryItemsList
<1>5. CASE LoadItems \/ LoadRef \/ LoadSpf
  <2>1. CASE \E v : Leave(v)
    BY <2>1, LeaveForgets
  <2>2. /\ stage \in {"items", "ref", "spf"} /\ stage \in Working /\ UNCHANGED config
        /\ stage = "items" => LoadDescription(Category.items, "items", "ref")
        /\ stage = "ref" => LoadDescription(Category.ref, "ref", "spf")
        /\ stage = "spf" => LoadDescription(Category.spf, "spf", "marshal")
    BY <1>5 DEF LoadItems, LoadRef, LoadSpf, Working
  <2>3. \A f \in {Category.items, Category.ref, Category.spf} :
          f.state \in FileStates /\ f.items \in Seq(ExternalItem) /\ f.subs \in Seq(ExternalItem)
    BY <2>2, <1>w, CategoryFacts
  <2>4. /\ ext = [uap |-> ext.uap, mandatory |-> ext.mandatory, items |-> ext.items, ref |-> ext.ref, spf |-> ext.spf]
        /\ Locals(stage, ext, Category)
    BY DEF LocalsInv, Locals
  <2>5. CASE stage = "items" /\ ~ \E v : Leave(v)
    <3>1. ext["items"] = NoItems
      BY <2>4, <2>5, <2>2 DEF Locals
    <3>2. /\ stage' = "ref" /\ UNCHANGED i /\ ext' = [ext EXCEPT !["items"] = Contents(Category.items)]
          /\ IsFile(Contents(Category.items))
      BY <2>2, <2>3, <2>4, <2>5, <3>1, FileRead
    <3>3. ext' = [uap |-> ext.uap, mandatory |-> ext.mandatory, items |-> Contents(Category.items),
                  ref |-> ext.ref, spf |-> ext.spf]
      BY <2>4, <3>2
    <3>4. Category' = Category /\ stage' \in Working
      BY <2>2, <3>2 DEF Category, Working
    <3> QED
      BY <2>2, <2>4, <2>5, <3>2, <3>3, <3>4 DEF LocalsInv, Locals
  <2>6. CASE stage = "ref" /\ ~ \E v : Leave(v)
    <3>1. ext["ref"] = NoItems
      BY <2>4, <2>6, <2>2 DEF Locals
    <3>2. /\ stage' = "spf" /\ UNCHANGED i /\ ext' = [ext EXCEPT !["ref"] = Contents(Category.ref)]
          /\ IsFile(Contents(Category.ref))
      BY <2>2, <2>3, <2>4, <2>6, <3>1, FileRead
    <3>3. ext' = [uap |-> ext.uap, mandatory |-> ext.mandatory, items |-> ext.items,
                  ref |-> Contents(Category.ref), spf |-> ext.spf]
      BY <2>4, <3>2
    <3>4. Category' = Category /\ stage' \in Working
      BY <2>2, <3>2 DEF Category, Working
    <3> QED
      BY <2>2, <2>4, <2>6, <3>2, <3>3, <3>4 DEF LocalsInv, Locals
  <2>7. CASE stage = "spf" /\ ~ \E v : Leave(v)
    <3>1. ext["spf"] = NoItems
      BY <2>4, <2>7, <2>2 DEF Locals
    <3>2. /\ stage' = "marshal" /\ UNCHANGED i /\ ext' = [ext EXCEPT !["spf"] = Contents(Category.spf)]
          /\ IsFile(Contents(Category.spf))
      BY <2>2, <2>3, <2>4, <2>7, <3>1, FileRead
    <3>3. ext' = [uap |-> ext.uap, mandatory |-> ext.mandatory, items |-> ext.items,
                  ref |-> ext.ref, spf |-> Contents(Category.spf)]
      BY <2>4, <3>2
    <3>4. Category' = Category /\ stage' \in Working
      BY <2>2, <3>2 DEF Category, Working
    <3> QED
      BY <2>2, <2>4, <2>7, <3>2, <3>3, <3>4 DEF LocalsInv, Locals
  <2> QED
    BY <2>1, <2>2, <2>5, <2>6, <2>7
<1>6. ASSUME NEW next \in {"order", "validate", "default", "sources"},
             stage \in {"marshal", "order", "validate", "default", "sources"},
             \/ \E v : Leave(v)
             \/ stage' = next /\ UNCHANGED <<i, ext, config>>
      PROVE  LocalsInv'
  <2>1. CASE \E v : Leave(v)
    BY <2>1, LeaveForgets
  <2>2. CASE stage' = next /\ UNCHANGED <<i, ext, config>>
    <3>1. /\ stage \in Working /\ stage' \in Working /\ Category' = Category
          /\ stage \notin {"uap", "items", "ref", "spf"} /\ stage' \notin {"uap", "items", "ref", "spf", "category"}
      BY <1>6, <2>2 DEF Working, Category
    <3>2. Locals(stage, ext, Category) => Locals(stage', ext, Category)
      BY <3>1 DEF Locals
    <3> QED
      BY <2>2, <3>1, <3>2 DEF LocalsInv
  <2> QED
    BY <1>6, <2>1, <2>2
<1>7. CASE PerformMarshalling
  <2>1. (\E v : Leave(v)) \/ (stage' = "order" /\ UNCHANGED <<i, ext, config>>)
    BY <1>7 DEF PerformMarshalling, loopVars
  <2> QED
    BY <2>1, <1>6, <1>7 DEF PerformMarshalling
<1>8. CASE PutInOrder
  <2>1. (\E v : Leave(v)) \/ (stage' = "validate" /\ UNCHANGED <<i, ext, config>>)
    BY <1>8 DEF PutInOrder, loopVars
  <2> QED
    BY <2>1, <1>6, <1>8 DEF PutInOrder
<1>9. CASE Validate
  <2>1. (\E v : Leave(v)) \/ (stage' = "default" /\ UNCHANGED <<i, ext, config>>)
    BY <1>9 DEF Validate, loopVars
  <2> QED
    BY <2>1, <1>6, <1>9 DEF Validate
<1>10. CASE AddDefault
  <2>1. (\E v : Leave(v)) \/ (stage' = "sources" /\ UNCHANGED <<i, ext, config>>)
    BY <1>10 DEF AddDefault
  <2> QED
    BY <2>1, <1>6, <1>10 DEF AddDefault
<1>11. CASE AddDataSource
  <2>1. (\E v : Leave(v)) \/ (stage' = "sources" /\ UNCHANGED <<i, ext, config>>)
    BY <1>11 DEF AddDataSource
  <2> QED
    BY <2>1, <1>6, <1>11 DEF AddDataSource
<1>12. CASE EndCategory
  <2>1. /\ stage' = "category"
        /\ ext' = [ext EXCEPT !.items = NoItems, !.ref = NoItems, !.spf = NoItems]
    BY <1>12 DEF EndCategory
  <2>2. ext = [uap |-> ext.uap, mandatory |-> ext.mandatory, items |-> ext.items, ref |-> ext.ref, spf |-> ext.spf]
    BY DEF LocalsInv, Locals
  <2> DEFINE a == [ext EXCEPT !.items = NoItems]
             b == [a EXCEPT !.ref = NoItems]
  <2>3. a = [uap |-> ext.uap, mandatory |-> ext.mandatory, items |-> NoItems, ref |-> ext.ref, spf |-> ext.spf]
    BY <2>2
  <2>4. b = [uap |-> ext.uap, mandatory |-> ext.mandatory, items |-> NoItems, ref |-> NoItems, spf |-> ext.spf]
    <3> HIDE DEF a
    <3> QED
      BY <2>3
  <2>5. ext' = [b EXCEPT !.spf = NoItems]
    BY <2>1
  <2> HIDE DEF b
  <2>6. ext' = [uap |-> ext.uap, mandatory |-> ext.mandatory, items |-> NoItems, ref |-> NoItems, spf |-> NoItems]
    BY <2>4, <2>5
  <2> QED
    BY <2>1, <2>6, NoItemsIsFile DEF LocalsInv, Locals, Working
<1>13. CASE ReleaseMemory
  <2>1. stage' = "released" /\ UNCHANGED ext
    BY <1>13 DEF ReleaseMemory, loopVars
  <2> QED
    BY <2>1 DEF LocalsInv, Locals, Working
<1>14. CASE UNCHANGED vars
  BY <1>14 DEF vars, loopVars, LocalsInv, Category
<1> QED
  BY <1>1, <1>2, <1>3, <1>4, <1>5, <1>7, <1>8, <1>9, <1>10, <1>11, <1>12, <1>13, <1>14 DEF Next

-----------------------------------------------------------------------------
(* The description under construction is described as far as the turn has  *)
(* come, every one the map leads to completely.                            *)
DescriptionsInv ==
  /\ stage \in Working => Described(stage, This, Category)
  /\ \A h \in Accepted : Described("sources", heap[h], made[h])

LEMMA NothingDescribedYet ==
  ASSUME NEW st \in {"uap", "items", "ref", "spf", "marshal"}, NEW d, NEW c
  PROVE  Described(st, d, c) <=> IsDescription(d)
BY DEF Described

LEMMA NewIsDescription == IsDescription(NewDescription)
<1>1. AreItems(<<>>)
  BY SmallSeqs DEF AreItems
<1>2. NewDescription = [items |-> <<>>, subs |-> <<>>, ref |-> <<>>, spf |-> <<>>,
                        mandatoryItemFRNs |-> {}, elementsMap |-> <<>>]
  BY DEF NewDescription
<1> QED
  BY <1>1, <1>2, SmallSeqs DEF IsDescription

(* What the map leads to stays as it is.                                   *)
LEMMA AcceptedStay ==
  ASSUME LoaderInv, DescriptionsInv, UNCHANGED uapMap,
         \A h \in Accepted : heap'[h] = heap[h] /\ made'[h] = made[h]
  PROVE  \A h \in Accepted' : Described("sources", heap'[h], made'[h])
<1>1. Accepted' = Accepted
  BY DEF Accepted
<1>2. \A h \in Accepted : Described("sources", heap[h], made[h])
  BY DEF DescriptionsInv
<1> QED
  BY <1>1, <1>2

LEMMA AcceptedInHeap ==
  ASSUME LoaderInv
  PROVE  /\ Accepted \subseteq 1 .. Len(heap)
         /\ stage \in Working \ {"sources"} => Accepted \subseteq 1 .. Len(heap) - 1
         /\ Len(heap) \in Nat
<1>1. Len(heap) \in Nat
  BY SeqFacts DEF LoaderInv
<1>2. \A h \in Accepted : h \in 1 .. Len(heap)
  BY DEF LoaderInv, Accepted
<1>3. stage \in Working \ {"sources"} => \A h \in Accepted : h # Len(heap)
  BY DEF LoaderInv, Accepted
<1> QED
  BY <1>1, <1>2, <1>3

(* The steps that write into the description under construction.           *)
LEMMA WritingStep ==
  ASSUME LoaderInv, LocalsInv, DescriptionsInv, PerformMarshalling \/ PutInOrder \/ Validate
  PROVE  stage' \in Working => Described(stage', This', Category)
<1>1. stage \in Working /\ Category \in AllCategories /\ Len(heap) >= 1 /\ IsSeq(heap)
  <2>1. stage \in Working
    BY DEF PerformMarshalling, PutInOrder, Validate, Working
  <2> QED
    BY <2>1, CategoryOfTurn DEF LoaderInv
<1>2. Described(stage, This, Category) /\ IsDescription(This)
  BY <1>1 DEF DescriptionsInv, Described
<1>3. ASSUME NEW d, UpdateThis(d) PROVE This' = d
  <2>1. heap' = Replaced(heap, d)
    BY <1>3 DEF UpdateThis, Replaced
  <2>2. Len(heap') = Len(heap) /\ heap'[Len(heap)] = d
    BY <2>1, <1>1, ReplaceIsSeq
  <2> QED
    BY <2>2 DEF This
<1>4. \/ stage' \in {"idle", "threw"}
      \/ stage = "marshal" /\ stage' = "order"
           /\ This' = MarshalledInto(This, MarshalledFiles(ext))
           /\ MarshalVerdict(AllExternal(ext), MarshalledFiles(ext)) = "SUCCESS"
      \/ stage = "order" /\ stage' = "validate"
           /\ This' = Ordered(This, ext.uap, ext.mandatory)
           /\ OrderVerdict(ext.uap, This) = "SUCCESS"
      \/ stage = "validate" /\ stage' = "default" /\ This' = Completed(This)
  <2>1. ASSUME \E v : Leave(v) PROVE stage' \in {"idle", "threw"}
    BY <2>1, LeaveForgets
  <2>2. CASE PerformMarshalling
    <3>1. \/ \E v : Leave(v)
          \/ /\ stage' = "order" /\ MarshalVerdict(AllExternal(ext), MarshalledFiles(ext)) = "SUCCESS"
             /\ UpdateThis(MarshalledInto(This, MarshalledFiles(ext)))
      BY <2>2 DEF PerformMarshalling, MarshalledInto, SubsBehind
    <3> QED
      BY <2>1, <2>2, <3>1, <1>3 DEF PerformMarshalling
  <2>3. CASE PutInOrder
    <3>1. \/ \E v : Leave(v)
          \/ /\ stage' = "validate" /\ OrderVerdict(ext.uap, This) = "SUCCESS"
             /\ UpdateThis(Ordered(This, ext.uap, ext.mandatory))
      BY <2>3 DEF PutInOrder, Ordered
    <3> QED
      BY <2>1, <2>3, <3>1, <1>3 DEF PutInOrder
  <2>4. CASE Validate
    <3>1. (\E v : Leave(v)) \/ (stage' = "default" /\ UpdateThis(Completed(This)))
      BY <2>4 DEF Validate
    <3> QED
      BY <2>1, <2>4, <3>1, <1>3 DEF Validate
  <2> QED
    BY <2>2, <2>3, <2>4
<1>5. /\ IsFile(ext.items) /\ IsFile(ext.ref) /\ IsFile(ext.spf)
      /\ stage \in {"marshal", "order"} =>
           ext.uap = PreparedUap(Category.uap) /\ ext.mandatory = PreparedMandatory(Category.uap)
      /\ stage = "marshal" => /\ ext.items = Contents(Category.items)
                              /\ ext.ref = Contents(Category.ref) /\ ext.spf = Contents(Category.spf)
  BY <1>1 DEF LocalsInv, Locals
<1>6. CASE stage' \in {"idle", "threw"}
  BY <1>6 DEF Working
<1>7. CASE stage = "marshal" /\ stage' = "order"
             /\ This' = MarshalledInto(This, MarshalledFiles(ext))
             /\ MarshalVerdict(AllExternal(ext), MarshalledFiles(ext)) = "SUCCESS"
  BY <1>2, <1>5, <1>7, MarshallingDescribes
<1>8. CASE stage = "order" /\ stage' = "validate"
             /\ This' = Ordered(This, ext.uap, ext.mandatory)
             /\ OrderVerdict(ext.uap, This) = "SUCCESS"
  BY <1>1, <1>2, <1>5, <1>8, OrderDescribes
<1>9. CASE stage = "validate" /\ stage' = "default" /\ This' = Completed(This)
  BY <1>2, <1>9, CompletionDescribes
<1> QED
  BY <1>4, <1>6, <1>7, <1>8, <1>9

LEMMA DescriptionsStep ==
  ASSUME LoaderInv, LoaderInv', LocalsInv, DescriptionsInv, [Next]_vars
  PROVE  DescriptionsInv'
<1>1. /\ Len(heap) \in Nat /\ Accepted \subseteq 1 .. Len(heap)
      /\ stage \in Working \ {"sources"} => Accepted \subseteq 1 .. Len(heap) - 1
      /\ Len(made) = Len(heap)
  BY AcceptedInHeap DEF LoaderInv
<1>2. ASSUME UNCHANGED <<heap, made, uapMap>> PROVE \A h \in Accepted' : Described("sources", heap'[h], made'[h])
  BY <1>2, AcceptedStay
<1>3. ASSUME UNCHANGED <<heap, made, uapMap>>, stage' \notin Working PROVE DescriptionsInv'
  BY <1>2, <1>3 DEF DescriptionsInv
<1>4. CASE Load
  <2>1. PICK c : LoadAsterixConfiguration(c)
    BY <1>4 DEF Load
  <2>2. UNCHANGED mapVars /\ stage' \in {"category", "threw", "idle"}
    BY <2>1 DEF LoadAsterixConfiguration
  <2> QED
    BY <2>2, <1>3 DEF mapVars, Working
<1>5. CASE BeginCategory
  <2>1. /\ heap' = Append(heap, NewDescription) /\ made' = Append(made, Category) /\ UNCHANGED uapMap
        /\ (\E v : Leave(v)) \/ stage' = "uap"
    BY <1>5 DEF BeginCategory
  <2>2. /\ Len(heap') = Len(heap) + 1 /\ heap'[Len(heap) + 1] = NewDescription
        /\ \A h \in 1 .. Len(heap) : heap'[h] = heap[h]
    BY <2>1, AppendIsSeq DEF LoaderInv
  <2>3. \A h \in 1 .. Len(heap) : made'[h] = made[h]
    BY <2>1, <1>1, SeqIsSeq, AppendIsSeq DEF LoaderInv
  <2>4. \A h \in Accepted' : Described("sources", heap'[h], made'[h])
    BY <1>1, <2>1, <2>2, <2>3, AcceptedStay
  <2>5. stage' \in Working => stage' = "uap"
    BY <2>1, LeaveForgets
  <2>6. Described("uap", This', Category')
    BY <2>2, NewIsDescription, NothingDescribedYet DEF This
  <2> QED
    BY <2>4, <2>5, <2>6 DEF DescriptionsInv
<1>6. CASE EndOfConfiguration
  <2>1. UNCHANGED mapVars /\ stage' = "idle"
    BY <1>6 DEF EndOfConfiguration
  <2> QED
    BY <2>1, <1>3 DEF mapVars, Working
<1>7. CASE LoadUapAndMandatoryItemsList \/ LoadItems \/ LoadRef \/ LoadSpf
  <2>1. /\ UNCHANGED <<heap, made, uapMap, config>>
        /\ stage \in {"uap", "items", "ref", "spf"}
        /\ (\E v : Leave(v)) \/ (stage' \in {"items", "ref", "spf", "marshal"} /\ UNCHANGED i)
    BY <1>7 DEF LoadUapAndMandatoryItemsList, LoadItems, LoadRef, LoadSpf, LoadDescription, mapVars, loopVars
  <2>2. CASE \E v : Leave(v)
    BY <2>1, <2>2, <1>3, LeaveForgets
  <2>3. CASE stage' \in {"items", "ref", "spf", "marshal"} /\ UNCHANGED i
    <3>1. stage \in Working
      BY <2>1 DEF Working
    <3>2. IsDescription(This)
      BY <3>1 DEF DescriptionsInv, Described
    <3>3. Described(stage', This', Category')
      BY <2>1, <2>3, <3>2, NothingDescribedYet DEF This
    <3> QED
      BY <2>1, <3>3, <1>2 DEF DescriptionsInv
  <2> QED
    BY <2>1, <2>2, <2>3
<1>8. CASE PerformMarshalling \/ PutInOrder \/ Validate
  <2>1. stage' \in Working => Described(stage', This', Category)
    BY <1>8, WritingStep
  <2>2. /\ stage \in Working \ {"sources"} /\ UNCHANGED <<config, made, uapMap, i>>
        /\ \A h \in 1 .. Len(heap) - 1 : heap'[h] = heap[h]
    BY <1>8, ReadStep DEF Reads
  <2>3. \A h \in Accepted' : Described("sources", heap'[h], made'[h])
    BY <1>1, <2>2, AcceptedStay
  <2>4. Category' = Category
    BY <2>2 DEF Category
  <2> QED
    BY <2>1, <2>3, <2>4 DEF DescriptionsInv
<1>9. ASSUME stage \in {"default", "sources"}, UNCHANGED <<config, heap, made>>,
             \/ (\E v : Leave(v)) /\ UNCHANGED uapMap
             \/ stage' = "sources" /\ UNCHANGED i /\ (UNCHANGED uapMap \/ \E key : AddKey(key))
      PROVE  DescriptionsInv'
  <2>1. CASE (\E v : Leave(v)) /\ UNCHANGED uapMap
    BY <1>9, <2>1, <1>3, LeaveForgets
  <2>2. CASE stage' = "sources" /\ UNCHANGED i /\ (UNCHANGED uapMap \/ \E key : AddKey(key))
    <3>1. Described("sources", This, Category) /\ made[Len(heap)] = Category
      <4>1. stage \in Working
        BY <1>9 DEF Working
      <4>2. Described(stage, This, Category) /\ made[Len(heap)] = Category
        BY <4>1 DEF DescriptionsInv, LoaderInv
      <4> QED
        BY <4>2, <1>9 DEF Described
    <3>2. Described("sources", This', Category')
      BY <3>1, <1>9, <2>2 DEF This, Category
    <3>3. Accepted' \subseteq Accepted \cup {Len(heap)}
      <4>1. CASE UNCHANGED uapMap
        BY <4>1 DEF Accepted
      <4>2. ASSUME NEW key, AddKey(key), NEW h \in Accepted' PROVE h \in Accepted \cup {Len(heap)}
        <5>1. PICK k \in DOMAIN uapMap' : h = uapMap'[k]
          BY <4>2 DEF Accepted
        <5>2. /\ DOMAIN uapMap' = DOMAIN uapMap \cup {key}
              /\ uapMap'[key] = Len(heap)
              /\ \A x \in DOMAIN uapMap \ {key} : uapMap'[x] = uapMap[x]
          BY <4>2, KeyEntered
        <5>3. k # key => k \in DOMAIN uapMap /\ uapMap'[k] = uapMap[k]
          BY <5>1, <5>2
        <5> QED
          BY <5>1, <5>2, <5>3 DEF Accepted
      <4> QED
        BY <2>2, <4>1, <4>2
    <3>4. \A h \in Accepted : Described("sources", heap[h], made[h])
      BY DEF DescriptionsInv
    <3>5. \A h \in Accepted' : Described("sources", heap'[h], made'[h])
      <4>1. Described("sources", heap[Len(heap)], made[Len(heap)])
        BY <3>1 DEF This
      <4> QED
        BY <4>1, <3>3, <3>4, <1>9
    <3> QED
      BY <2>2, <3>2, <3>5 DEF DescriptionsInv
  <2> QED
    BY <1>9, <2>1, <2>2
<1>10. CASE AddDefault
  <2>1. /\ stage \in {"default", "sources"} /\ UNCHANGED <<config, heap, made>>
        /\ \/ (\E v : Leave(v)) /\ UNCHANGED uapMap
           \/ stage' = "sources" /\ UNCHANGED i /\ (UNCHANGED uapMap \/ \E key : AddKey(key))
    BY <1>10 DEF AddDefault
  <2> QED
    BY <2>1, <1>9
<1>11. CASE AddDataSource
  <2>1. /\ stage \in {"default", "sources"} /\ UNCHANGED <<config, heap, made>>
        /\ \/ (\E v : Leave(v)) /\ UNCHANGED uapMap
           \/ stage' = "sources" /\ UNCHANGED i /\ (UNCHANGED uapMap \/ \E key : AddKey(key))
    BY <1>11 DEF AddDataSource
  <2> QED
    BY <2>1, <1>9
<1>12. CASE EndCategory
  <2>1. UNCHANGED mapVars /\ stage' = "category"
    BY <1>12 DEF EndCategory
  <2> QED
    BY <2>1, <1>3 DEF mapVars, Working
<1>13. CASE ReleaseMemory
  <2>1. UNCHANGED <<heap, made, uapMap>> /\ stage' = "released"
    BY <1>13 DEF ReleaseMemory
  <2> QED
    BY <2>1, <1>3 DEF Working
<1>14. CASE UNCHANGED vars
  <2>1. UNCHANGED <<stage, heap, made, uapMap, config, i>>
    BY <1>14 DEF vars, mapVars, loopVars
  <2>2. This' = This /\ Category' = Category
    BY <2>1 DEF This, Category
  <2> QED
    BY <2>1, <2>2, <1>2 DEF DescriptionsInv
<1> QED
  BY <1>4, <1>5, <1>6, <1>7, <1>8, <1>10, <1>11, <1>12, <1>13, <1>14 DEF Next

LEMMA DescriptionsInvariant == Spec => [](LoaderInv /\ LocalsInv /\ DescriptionsInv)
<1>1. Init => LocalsInv /\ DescriptionsInv
  <2> SUFFICES ASSUME Init PROVE LocalsInv /\ DescriptionsInv
    OBVIOUS
  <2>1. stage = "idle" /\ ext = NoLocals /\ uapMap = <<>>
    BY DEF Init
  <2>2. stage \notin Working
    BY <2>1 DEF Working
  <2>3. Accepted = {}
    BY <2>1, SmallSeqs DEF Accepted
  <2>4. LocalsInv
    BY <2>1, <2>2, NoLocalsAreLocals DEF LocalsInv
  <2> QED
    BY <2>2, <2>3, <2>4 DEF DescriptionsInv
<1>2. LoaderInv /\ LoaderInv' /\ LocalsInv /\ DescriptionsInv /\ [Next]_vars => LocalsInv' /\ DescriptionsInv'
  BY LocalsStep, DescriptionsStep
<1> QED
  BY <1>1, <1>2, LoaderInvariant, PTL DEF Spec

(* The names of a collection, with their places.                           *)
LEMMA NamesOfCollection ==
  ASSUME NEW d, IsDescription(d), NEW x \in Collections
  PROVE  /\ IsSeq(NamesAndPlaces(d, x)) /\ IsSeq(d[x])
         /\ \A q \in ToSet(NamesAndPlaces(d, x)) :
              \E n \in DOMAIN d[x] : \E name \in ToSet(d[x][n].names) : q = <<name, x, n>>
         /\ \A n \in DOMAIN d[x] : d[x][n].type \in WithElements =>
              \A name \in ToSet(d[x][n].names) : <<name, x, n>> \in ToSet(NamesAndPlaces(d, x))
<1> DEFINE named(n) == [e \in DOMAIN d[x][n].names |-> <<d[x][n].names[e], x, n>>]
           left(n) == x # "subs" /\ d[x][n].type \notin WithElements
           s == [n \in DOMAIN d[x] |-> IF left(n) THEN <<>> ELSE named(n)]
<1>1. AreItems(d[x])
  BY DEF IsDescription, Collections
<1>2. IsSeq(d[x]) /\ Len(d[x]) \in Nat /\ DOMAIN d[x] = 1 .. Len(d[x])
  BY <1>1, SeqFacts DEF AreItems
<1>3. \A n \in DOMAIN d[x] : IsSeq(named(n)) /\ ToSet(named(n)) = {<<name, x, n>> : name \in ToSet(d[x][n].names)}
  <2> SUFFICES ASSUME NEW n \in DOMAIN d[x]
               PROVE  IsSeq(named(n)) /\ ToSet(named(n)) = {<<name, x, n>> : name \in ToSet(d[x][n].names)}
    OBVIOUS
  <2> DEFINE names == d[x][n].names
             t == named(n)
  <2>1. IsSeq(names)
    BY <1>1 DEF AreItems, IsItem
  <2>2. Len(names) \in Nat /\ DOMAIN names = 1 .. Len(names)
    BY <2>1, SeqFacts
  <2>t. t = [e \in DOMAIN names |-> <<names[e], x, n>>]
    OBVIOUS
  <2> HIDE DEF names, t
  <2>3. DOMAIN t = 1 .. Len(names) /\ t = [e \in 1 .. Len(names) |-> t[e]]
    BY <2>2, <2>t
  <2>4. IsSeq(t)
    BY <2>2, <2>3, BuiltIsSeq
  <2>5. ToSet(t) = {<<name, x, n>> : name \in ToSet(names)}
    BY <2>t DEF ToSet
  <2> QED
    BY <2>4, <2>5 DEF names, t
<1>4. NamesAndPlaces(d, x) = FlattenSeq(s)
  BY DEF NamesAndPlaces
<1>s. DOMAIN s = DOMAIN d[x] /\ \A n \in DOMAIN d[x] : s[n] = IF left(n) THEN <<>> ELSE named(n)
  OBVIOUS
<1> HIDE DEF named, s
<1>5. IsSeq(s)
  <2>1. s = [n \in 1 .. Len(d[x]) |-> s[n]]
    BY <1>2 DEF s
  <2> QED
    BY <1>2, <1>s, <2>1, BuiltIsSeq
<1>6. \A n \in DOMAIN s : IsSeq(s[n])
  BY <1>3, <1>s, SmallSeqs
<1>7. IsSeq(FlattenSeq(s)) /\ ToSet(FlattenSeq(s)) = UNION {ToSet(s[n]) : n \in DOMAIN s}
  BY <1>5, <1>6, FlattenFacts
<1>8. ToSet(<<>>) = {}
  BY SmallSeqs DEF ToSet
<1>9. ASSUME NEW q \in ToSet(FlattenSeq(s))
      PROVE  \E n \in DOMAIN d[x] : \E name \in ToSet(d[x][n].names) : q = <<name, x, n>>
  <2>1. PICK n \in DOMAIN d[x] : q \in ToSet(s[n])
    BY <1>7, <1>9, <1>s
  <2>2. q \in ToSet(named(n))
    BY <2>1, <1>s, <1>8
  <2> QED
    BY <2>2, <1>3
<1>10. ASSUME NEW n \in DOMAIN d[x], d[x][n].type \in WithElements, NEW name \in ToSet(d[x][n].names)
       PROVE  <<name, x, n>> \in ToSet(FlattenSeq(s))
  <2>1. s[n] = named(n)
    BY <1>10, <1>s
  <2>2. <<name, x, n>> \in ToSet(named(n))
    BY <1>3
  <2> QED
    BY <2>1, <2>2, <1>7, <1>s
<1> QED
  BY <1>2, <1>4, <1>7, <1>9, <1>10

LEMMA AllNames ==
  ASSUME NEW d, IsDescription(d)
  PROVE  /\ IsSeq(AllNamesAndPlaces(d))
         /\ ToSet(AllNamesAndPlaces(d)) = UNION {ToSet(NamesAndPlaces(d, x)) : x \in Collections}
<1> DEFINE items == NamesAndPlaces(d, "items")
           subs == NamesAndPlaces(d, "subs")
           refs == NamesAndPlaces(d, "ref")
           spfs == NamesAndPlaces(d, "spf")
           two == items \o subs
           three == two \o refs
<1>1. IsSeq(items) /\ IsSeq(subs) /\ IsSeq(refs) /\ IsSeq(spfs)
  BY NamesOfCollection DEF Collections
<1>2. AllNamesAndPlaces(d) = three \o spfs
  BY DEF AllNamesAndPlaces
<1>3. UNION {ToSet(NamesAndPlaces(d, x)) : x \in Collections}
        = ToSet(items) \cup ToSet(subs) \cup ToSet(refs) \cup ToSet(spfs)
  BY DEF Collections
<1> HIDE DEF items, subs, refs, spfs
<1>4. IsSeq(two) /\ ToSet(two) = ToSet(items) \cup ToSet(subs)
  BY <1>1, ConcatIsSeq
<1> HIDE DEF two
<1>5. IsSeq(three) /\ ToSet(three) = ToSet(two) \cup ToSet(refs)
  BY <1>1, <1>4, ConcatIsSeq
<1> HIDE DEF three
<1>6. IsSeq(three \o spfs) /\ ToSet(three \o spfs) = ToSet(three) \cup ToSet(spfs)
  BY <1>1, <1>5, ConcatIsSeq
<1> QED
  BY <1>2, <1>3, <1>4, <1>5, <1>6

(* A name leads to a place that has it.                                    *)
LEMMA NameIsFound ==
  ASSUME NEW d, IsDescription(d), NEW x \in Collections, NEW n \in DOMAIN d[x],
         d[x][n].type \in WithElements, NEW name \in ToSet(d[x][n].names)
  PROVE  /\ name \in DOMAIN ElementsMap(d)
         /\ \E y \in Collections : \E p \in DOMAIN d[y] :
              ElementsMap(d)[name] = <<y, p>> /\ name \in ToSet(d[y][p].names)
<1> DEFINE all == AllNamesAndPlaces(d)
           S == {k \in DOMAIN all : all[k][1] = name}
           IsTheFirst(k) == all[k][1] = name /\ \A p \in 1 .. k - 1 : all[p][1] # name
           k0 == CHOOSE k \in DOMAIN all : IsTheFirst(k)
<1>1. IsSeq(all) /\ ToSet(all) = UNION {ToSet(NamesAndPlaces(d, y)) : y \in Collections}
  BY AllNames
<1>2. Len(all) \in Nat /\ DOMAIN all = 1 .. Len(all)
  BY <1>1, SeqFacts
<1>3. <<name, x, n>> \in ToSet(all)
  BY <1>1, NamesOfCollection
<1>4. /\ DOMAIN ElementsMap(d) = {all[k][1] : k \in DOMAIN all}
      /\ name \in DOMAIN ElementsMap(d) => ElementsMap(d)[name] = <<all[k0][2], all[k0][3]>>
  BY DEF ElementsMap
<1> HIDE DEF all
<1>5. PICK k1 \in DOMAIN all : all[k1] = <<name, x, n>>
  BY <1>3 DEF ToSet
<1>6. k1 \in S /\ S \subseteq Nat
  BY <1>2, <1>5
<1>7. PICK m \in S : \A k \in S : m <= k
  <2> HIDE DEF S
  <2> QED
    BY <1>6, LeastElement
<1>8. m \in DOMAIN all /\ IsTheFirst(m)
  <2>1. ASSUME NEW p \in 1 .. m - 1, all[p][1] = name PROVE FALSE
    <3>1. p \in DOMAIN all /\ ~ (m <= p)
      BY <1>2, <1>7
    <3> QED
      BY <2>1, <3>1, <1>7
  <2> QED
    BY <1>7, <2>1
<1>9. k0 \in DOMAIN all /\ IsTheFirst(k0)
  <2> HIDE DEF IsTheFirst
  <2> QED
    BY <1>8
<1> HIDE DEF k0, S
<1>10. all[k0][1] = name /\ all[k0] \in ToSet(all)
  BY <1>9 DEF ToSet
<1>11. PICK y \in Collections : all[k0] \in ToSet(NamesAndPlaces(d, y))
  BY <1>1, <1>10
<1>12. PICK p \in DOMAIN d[y] : \E other \in ToSet(d[y][p].names) : all[k0] = <<other, y, p>>
  BY <1>11, NamesOfCollection
<1>13. name \in ToSet(d[y][p].names) /\ all[k0][2] = y /\ all[k0][3] = p
  BY <1>10, <1>12
<1>14. name \in DOMAIN ElementsMap(d)
  BY <1>4, <1>10, <1>9
<1> QED
  BY <1>4, <1>13, <1>14

-----------------------------------------------------------------------------
(* An item of a well-formed file, as it is read and as it is marshalled.   *)
GoodItem(x) ==
  /\ IsSeq(x.elements) /\ x.length \in Nat /\ SizeIsDescribed(x)
  /\ x.type # "Explicit" /\ \A e \in DOMAIN x.elements : x.elements[e].flaw = "none"

CopyOf(x, y) ==
  /\ IsItem(y) /\ y.name = x.name /\ y.type = x.type /\ y.length = x.length
  /\ y.names = Names(x.elements)
  /\ y.elements = [e \in DOMAIN x.elements |-> x.elements[e].bits]
  /\ y.flaws = {x.elements[e].flaw : e \in DOMAIN x.elements}

GoodCopy(x, y) == GoodItem(x) /\ CopyOf(x, y)
GoodCopies(file, t) ==
  /\ IsSeq(file) /\ IsSeq(t) /\ DOMAIN t = DOMAIN file /\ Len(t) = Len(file)
  /\ \A n \in DOMAIN file : GoodCopy(file[n], t[n])

(* A file that can be read, or none.                                       *)
GoodFile(f) ==
  /\ IsFile(f) /\ \A n \in DOMAIN f.items : GoodItem(f.items[n])
  /\ \A n \in DOMAIN f.subs : GoodItem(f.subs[n]) /\ f.subs[n].type # "Compound"

LEMMA NothingTotal == Total(<<>>) = 0
BY SmallSeqs DEF Total, FoldLeft, MapThenFoldSet

LEMMA BytesOfBits ==
  ASSUME NEW n \in Nat
  PROVE  (ByteBits * n) % ByteBits = 0 /\ (ByteBits * n) \div ByteBits = n
BY DescriptionAssumption

(* Reading keeps what an item is described by: only names change.          *)
LEMMA ItemIsRead ==
  ASSUME NEW x \in ExternalItem, WellDescribed(x), NEW name
  PROVE  LET y == PreparedItem(x, name)
         IN GoodItem(y) /\ y.name = name /\ y.type = x.type /\ y.elements # <<>>
<1> DEFINE k == Len(x.elements)
           e == [n \in DOMAIN x.elements |-> PreparedElement(x.elements[n])]
           y == PreparedItem(x, name)
<1>1. /\ k \in Nat /\ DOMAIN x.elements = 1 .. k /\ x.elements # <<>> /\ x.length \in Nat
      /\ \A n \in 1 .. k : x.elements[n] \in [name : STRING, bits : Int, flaw : STRING]
  <2> DEFINE Element == [name : STRING, bits : Int, flaw : STRING]
             s == x.elements
  <2>1. s \in Seq(Element) /\ x.length \in Nat
    BY DEF ExternalItem
  <2>2. s # <<>>
    BY DEF WellDescribed
  <2> HIDE DEF s, Element
  <2>3. Len(s) \in Nat /\ DOMAIN s = 1 .. Len(s) /\ \A n \in 1 .. Len(s) : s[n] \in Element
    BY <2>1, ElementOfSeq, LenProperties
  <2> QED
    BY <2>1, <2>2, <2>3 DEF s, Element
<1>2. k # 0
  BY <1>1 DEF ExternalItem
<1>3. y = [name |-> name, type |-> x.type, length |-> x.length, elements |-> e]
  <2>1. y = [x EXCEPT !.name = name, !.elements = e]
    BY DEF PreparedItem
  <2>2. x = [name |-> x.name, type |-> x.type, length |-> x.length, elements |-> x.elements]
    BY DEF ExternalItem
  <2> HIDE DEF e, y
  <2> QED
    BY <2>1, <2>2
<1>4. \A n \in 1 .. k : e[n].bits = x.elements[n].bits /\ e[n].flaw = x.elements[n].flaw
  <2> SUFFICES ASSUME NEW n \in 1 .. k
               PROVE  e[n].bits = x.elements[n].bits /\ e[n].flaw = x.elements[n].flaw
    OBVIOUS
  <2> DEFINE z == x.elements[n]
             own == CASE Upper(z.name) = "FX" -> "FX" [] Upper(z.name) = "SPARE" -> "Spare"
                      [] OTHER -> z.name
  <2>1. e[n] = [z EXCEPT !.name = own]
    BY <1>1 DEF PreparedElement
  <2>2. z = [name |-> z.name, bits |-> z.bits, flaw |-> z.flaw]
    BY <1>1
  <2> HIDE DEF e, z, own
  <2>3. e[n].bits = z.bits /\ e[n].flaw = z.flaw
    BY <2>1, <2>2
  <2> QED
    BY <2>3 DEF z
<1>5. DOMAIN e = 1 .. k /\ e = [n \in 1 .. k |-> e[n]]
  BY <1>1
<1>6. \A n \in 1 .. k : x.elements[n].flaw = "none"
  BY <1>1 DEF WellDescribed, ToSet
<1>7. SizeIsDescribed(x) /\ x.type # "Explicit"
  BY DEF WellDescribed
<1> HIDE DEF e, y
<1>8. IsSeq(e) /\ Len(e) = k
  BY <1>1, <1>5, BuiltIsSeq
<1>9. [n \in DOMAIN e |-> e[n].bits] = [n \in DOMAIN x.elements |-> x.elements[n].bits]
  BY <1>1, <1>4, <1>5
<1>10. y.name = name /\ y.type = x.type /\ y.length = x.length /\ y.elements = e
  BY <1>3
<1>11. SizeIsDescribed(y)
  BY <1>7, <1>9, <1>10 DEF SizeIsDescribed
<1>12. e # <<>>
  BY <1>2, <1>8
<1>13. \A n \in DOMAIN e : e[n].flaw = "none"
  BY <1>4, <1>5, <1>6
<1> QED
  BY <1>1, <1>7, <1>8, <1>10, <1>11, <1>12, <1>13 DEF GoodItem, y

(* So a well-formed file is accepted, and its contents are good.           *)
LEMMA FileIsGood ==
  ASSUME NEW f, f.items \in Seq(ExternalItem), f.subs \in Seq(ExternalItem), FileWellFormed(f)
  PROVE  /\ f.state = "ok" => DescriptionVerdict(f) = "SUCCESS"
         /\ GoodFile(Contents(f))
<1>1. CASE f.state # "ok"
  <2>1. DOMAIN NoItems.items = {} /\ DOMAIN NoItems.subs = {}
    BY SmallSeqs DEF NoItems
  <2> QED
    BY <1>1, <2>1, NoItemsIsFile DEF Contents, GoodFile
<1>2. CASE f.state = "ok"
  <2>1. /\ f.items # <<>>
        /\ \A x \in ToSet(f.items) \cup ToSet(f.subs) : WellDescribed(x)
        /\ \A x \in ToSet(f.subs) : x.type # "Compound"
    BY <1>2 DEF FileWellFormed
  <2>2. ToSet(f.items \o f.subs) = ToSet(f.items) \cup ToSet(f.subs)
    <3>1. IsSeq(f.items) /\ IsSeq(f.subs)
      BY SeqIsSeq
    <3> QED
      BY <3>1, ConcatIsSeq
  <2>3. \A x \in ToSet(f.items) \cup ToSet(f.subs) :
          x.name # "" /\ x.elements # <<>> /\ \A e \in ToSet(x.elements) : e.flaw # "short"
    BY <2>1 DEF WellDescribed
  <2>4. DescriptionVerdict(f) = "SUCCESS"
    BY <2>1, <2>2, <2>3 DEF DescriptionVerdict
  <2>5. Contents(f) = Prepared(f)
    BY <1>2 DEF Contents
  <2>6. IsFile(Prepared(f))
    BY <2>4, PreparedIsFile
  <2>7. /\ Prepared(f).items = [n \in DOMAIN f.items |-> PreparedItem(f.items[n], Upper(f.items[n].name))]
        /\ Prepared(f).subs = [n \in DOMAIN f.subs |-> PreparedItem(f.subs[n], f.subs[n].name)]
    BY DEF Prepared
  <2>8. /\ \A n \in DOMAIN f.items : f.items[n] \in ExternalItem /\ f.items[n] \in ToSet(f.items)
        /\ \A n \in DOMAIN f.subs : f.subs[n] \in ExternalItem /\ f.subs[n] \in ToSet(f.subs)
    BY DEF ToSet
  <2>9. \A n \in DOMAIN f.items : GoodItem(PreparedItem(f.items[n], Upper(f.items[n].name)))
    BY <2>1, <2>8, ItemIsRead
  <2>10. \A n \in DOMAIN f.subs : GoodItem(PreparedItem(f.subs[n], f.subs[n].name))
                                  /\ PreparedItem(f.subs[n], f.subs[n].name).type # "Compound"
    BY <2>1, <2>8, ItemIsRead
  <2> QED
    BY <2>4, <2>5, <2>6, <2>7, <2>9, <2>10 DEF GoodFile
<1> QED
  BY <1>1, <1>2

(* Marshalling an item of a well-formed file makes a good copy of it.      *)
LEMMA ItemIsCopied ==
  ASSUME NEW x, GoodItem(x), NEW n, NEW names, NEW mandatory
  PROVE  GoodCopy(x, Marshalled(x, n, names, mandatory))
<1> DEFINE own == [e \in DOMAIN x.elements |-> x.elements[e].name]
           bits == [e \in DOMAIN x.elements |-> x.elements[e].bits]
           flaws == {x.elements[e].flaw : e \in DOMAIN x.elements}
           flag == Occurrences(x.name, names, n) <= Occurrences(x.name, mandatory, Len(mandatory))
           y == Marshalled(x, n, names, mandatory)
<1>1. y = [name |-> x.name, type |-> x.type, length |-> x.length, names |-> own, elements |-> bits,
           flaws |-> flaws, mandatory |-> flag]
  BY DEF Marshalled
<1>2. own = Names(x.elements)
  BY DEF Names
<1> HIDE DEF own, bits, flaws, flag, y
<1>3. /\ y.name = x.name /\ y.type = x.type /\ y.length = x.length
      /\ y.names = own /\ y.elements = bits /\ y.flaws = flaws
  BY <1>1
<1>4. IsItem(y)
  BY MarshalledItem DEF GoodItem, MadeOf, y
<1> QED
  BY <1>2, <1>3, <1>4 DEF GoodCopy, CopyOf, bits, flaws, y

LEMMA PartIsCopied ==
  ASSUME NEW file, IsSeq(file), \A n \in DOMAIN file : GoodItem(file[n]),
         NEW before, NEW names, NEW mandatory
  PROVE  GoodCopies(file, [n \in DOMAIN file |-> Marshalled(file[n], Len(before) + n, names, mandatory)])
<1> DEFINE t == [n \in DOMAIN file |-> Marshalled(file[n], Len(before) + n, names, mandatory)]
<1>1. Len(file) \in Nat /\ DOMAIN file = 1 .. Len(file)
  BY SeqFacts
<1>2. DOMAIN t = 1 .. Len(file) /\ t = [n \in 1 .. Len(file) |-> t[n]]
  BY <1>1
<1>3. \A n \in DOMAIN file : t[n] = Marshalled(file[n], Len(before) + n, names, mandatory)
  OBVIOUS
<1> HIDE DEF t
<1>4. \A n \in DOMAIN file : GoodCopy(file[n], t[n])
  BY <1>3, ItemIsCopied
<1>5. IsSeq(t) /\ Len(t) = Len(file)
  BY <1>1, <1>2, BuiltIsSeq
<1> QED
  BY <1>1, <1>2, <1>4, <1>5 DEF GoodCopies, t

(* A good copy passes the validation of its elements.                      *)
LEMMA CopyIsValid ==
  ASSUME NEW x, NEW y, GoodCopy(x, y), NEW d
  PROVE  /\ y.type # "Explicit"
         /\ y.type # "Compound" => ItemIsValid(y, d)
<1>1. /\ GoodItem(x) /\ y.type = x.type /\ y.length = x.length
      /\ y.elements = [e \in DOMAIN x.elements |-> x.elements[e].bits]
      /\ y.flaws = {x.elements[e].flaw : e \in DOMAIN x.elements}
  BY DEF GoodCopy, CopyOf
<1>2. SupportsElements(y)
  <2>1. y.flaws \subseteq {"none"}
    BY <1>1 DEF GoodItem
  <2> QED
    BY <2>1 DEF SupportsElements
<1>3. CASE y.type \in WithElements
  <2> DEFINE bits == Total(y.elements)
             bytes == y.length
  <2>1. /\ bits \in 0 .. SizeLimit - 1
        /\ y.type = "Extended" => bits % ByteBits = 0
        /\ y.type # "Extended" => bits = ByteBits * bytes
    <3>1. x.type \in WithElements /\ SizeIsDescribed(x)
      BY <1>1, <1>3 DEF GoodItem
    <3> QED
      BY <1>1, <3>1 DEF SizeIsDescribed
  <2>2. bytes \in Nat
    BY <1>1 DEF GoodItem
  <2>3. (ByteBits * bytes) % ByteBits = 0 /\ (ByteBits * bytes) \div ByteBits = bytes
    BY <2>2, BytesOfBits
  <2> HIDE DEF bits, bytes
  <2>4. bits % SizeLimit = bits
    BY <2>1, DescriptionAssumption
  <2>5. (bits % SizeLimit) % ByteBits = 0 /\ (y.type = "Extended" \/ (bits % SizeLimit) \div ByteBits = bytes)
    BY <2>1, <2>3, <2>4
  <2>6. SizeIsRight(y)
    BY <2>5 DEF SizeIsRight, bits, bytes
  <2> QED
    BY <1>1, <1>2, <1>3, <2>6 DEF ItemIsValid, WithElements, GoodItem
<1>4. CASE y.type \notin WithElements
  BY <1>1, <1>4 DEF ItemIsValid, GoodItem
<1> QED
  BY <1>3, <1>4, <1>1 DEF GoodItem

-----------------------------------------------------------------------------
(* The file of a field has one compound item for all its subitems.         *)
OneCompound(f) ==
  /\ Cardinality(Compounds(f.items)) = IF f.subs = <<>> THEN 0 ELSE 1
  /\ \A n \in Compounds(f.items) : SameNames(f.items[n].elements, f.subs)

LEMMA SubitemsOnce ==
  ASSUME NEW field, IsSeq(field), NEW subs, IsSeq(subs),
         Cardinality(Compounds(field)) = IF subs = <<>> THEN 0 ELSE 1
  PROVE  /\ TimesCompounds(field, subs) = subs
         /\ \A m \in Compounds(field) : CompoundsBefore(field, m) = 0
<1> DEFINE k == Cardinality(Compounds(field))
           u == FlattenSeq([c \in 1 .. k |-> subs])
           L == Len(subs)
<1>1. k \in {0, 1} /\ (k = 0 <=> L = 0) /\ L \in Nat
  <2>1. L \in Nat /\ (subs # <<>> <=> L # 0)
    BY SeqFacts, NotEmpty
  <2> QED
    BY <2>1
<1>2. k \in Nat
  BY <1>1
<1> HIDE DEF k
<1>3. /\ IsSeq(u) /\ Len(u) = k * L
      /\ \A q \in 0 .. k - 1 : \A n \in 1 .. L : u[q * L + n] = subs[n]
  BY <1>2, FlattenCopies
<1>4. TimesCompounds(field, subs) = u
  BY DEF TimesCompounds, k
<1> HIDE DEF u, L
<1>5. Len(u) = L
  BY <1>1, <1>3
<1>6. \A n \in 1 .. L : u[n] = subs[n]
  <2> SUFFICES ASSUME NEW n \in 1 .. L PROVE u[n] = subs[n]
    OBVIOUS
  <2>1. k = 1
    BY <1>1
  <2>2. 0 \in 0 .. k - 1 /\ 0 * L + n = n
    BY <1>1, <2>1
  <2> QED
    BY <1>3, <2>2
<1>7. u = [n \in 1 .. L |-> u[n]] /\ subs = [n \in 1 .. L |-> subs[n]]
  BY <1>3, <1>5, SeqFacts DEF L
<1>8. u = subs
  BY <1>6, <1>7
<1>9. \A m \in Compounds(field) : CompoundsBefore(field, m) \in Nat /\ CompoundsBefore(field, m) < k
  BY CompoundsAreCounted DEF k
<1> QED
  BY <1>1, <1>4, <1>8, <1>9

(* The renumbered items of a field are valid when the subitems of its file *)
(* stand together in the description.                                      *)
LEMMA RenumberedIsValid ==
  ASSUME NEW f, OneCompound(f), NEW field, GoodCopies(f.items, field),
         NEW subs, GoodCopies(f.subs, subs), NEW base \in Nat,
         NEW d, Len(d.subs) \in Nat, base + Len(subs) <= Len(d.subs),
         \A n \in 1 .. Len(subs) : d.subs[base + n] = subs[n]
  PROVE  LET t == WithNewIndices(field, subs, base)
         IN /\ IndicesFit(field, subs) /\ TimesCompounds(field, subs) = subs
            /\ DOMAIN t = DOMAIN field /\ FieldIsValid(t, d)
            /\ \A n \in DOMAIN field : t[n].type = field[n].type /\ t[n].names = field[n].names
<1> DEFINE t == WithNewIndices(field, subs, base)
           k == Len(subs)
<1>1. /\ IsSeq(field) /\ DOMAIN field = DOMAIN f.items /\ IsSeq(subs) /\ DOMAIN subs = DOMAIN f.subs
      /\ k = Len(f.subs) /\ IsSeq(f.subs)
      /\ \A n \in DOMAIN field : GoodCopy(f.items[n], field[n])
      /\ \A n \in DOMAIN subs : subs[n].name = f.subs[n].name
  BY DEF GoodCopies, GoodCopy, CopyOf
<1>2. k \in Nat /\ DOMAIN subs = 1 .. k
  BY <1>1, SeqFacts
<1>3. Compounds(field) = Compounds(f.items)
  BY <1>1 DEF Compounds, GoodCopy, CopyOf
<1>4. Cardinality(Compounds(field)) = IF subs = <<>> THEN 0 ELSE 1
  <2>1. subs = <<>> <=> f.subs = <<>>
    BY <1>1, NotEmpty
  <2> QED
    BY <1>3, <2>1 DEF OneCompound
<1>5. /\ TimesCompounds(field, subs) = subs
      /\ \A m \in Compounds(field) : CompoundsBefore(field, m) = 0
  BY <1>1, <1>4, SubitemsOnce
<1>6. ASSUME NEW m \in Compounds(field)
      PROVE  /\ m \in DOMAIN field /\ GoodCopy(f.items[m], field[m])
             /\ Len(field[m].elements) = k /\ DOMAIN field[m].elements = 1 .. k
             /\ \A n \in 1 .. k : field[m].names[n] = subs[n].name
  <2> DEFINE elements == f.items[m].elements
  <2>1. m \in DOMAIN field /\ GoodCopy(f.items[m], field[m])
    BY <1>1 DEF Compounds
  <2>2. /\ field[m].names = Names(elements)
        /\ field[m].elements = [e \in DOMAIN elements |-> elements[e].bits] /\ IsSeq(elements)
    BY <2>1 DEF GoodCopy, CopyOf, GoodItem
  <2>3. SameNames(elements, f.subs)
    BY <1>3 DEF OneCompound
  <2> HIDE DEF elements
  <2>4. DOMAIN elements = DOMAIN f.subs /\ \A n \in DOMAIN elements : elements[n].name = f.subs[n].name
    BY <2>3 DEF SameNames
  <2>5. DOMAIN elements = 1 .. k
    BY <1>1, <1>2, <2>4
  <2>6. \A n \in 1 .. k : field[m].names[n] = subs[n].name
    BY <1>1, <1>2, <2>2, <2>4, <2>5 DEF Names
  <2>7. DOMAIN field[m].elements = 1 .. k /\ field[m].elements = [e \in 1 .. k |-> field[m].elements[e]]
    BY <2>2, <2>5
  <2>8. Len(field[m].elements) = k
    BY <1>2, <2>7, BuiltIsSeq
  <2> QED
    BY <2>1, <2>6, <2>7, <2>8
<1>7. IndicesFit(field, subs)
  <2> SUFFICES ASSUME NEW m \in Compounds(field)
               PROVE  (CompoundsBefore(field, m) + 1) * k <= Len(field[m].elements)
    BY DEF IndicesFit
  <2>1. CompoundsBefore(field, m) = 0 /\ Len(field[m].elements) = k
    BY <1>5, <1>6
  <2> QED
    BY <1>2, <2>1
<1>8. DOMAIN t = DOMAIN field
  BY DEF WithNewIndices
<1>9. \A n \in DOMAIN field : n \notin Compounds(field) => t[n] = field[n]
  BY DEF WithNewIndices
<1>10. ASSUME NEW m \in Compounds(field)
       PROVE  /\ t[m].type = "Compound" /\ t[m].names = field[m].names
              /\ IndicesMatch(t[m], d.subs)
  <2> DEFINE x == field[m]
             elements == [e \in DOMAIN x.elements |-> IF e \in 0 + 1 .. 0 + k THEN base + e - 1 ELSE 0]
             y == t[m]
  <2>1. m \in DOMAIN field /\ GoodCopy(f.items[m], x) /\ CompoundsBefore(field, m) * k = 0
    BY <1>2, <1>5, <1>6
  <2>2. y = [x EXCEPT !.elements = elements]
    BY <2>1 DEF WithNewIndices
  <2>3. x.type = "Compound"
    BY DEF Compounds
  <2>4. DOMAIN x.elements = 1 .. k /\ \A n \in 1 .. k : x.names[n] = subs[n].name
    BY <1>6
  <2>5. DOMAIN elements = 1 .. k /\ \A e \in 1 .. k : elements[e] = base + e - 1
    BY <1>2, <2>4
  <2>6. IsItem(x)
    BY <2>1 DEF GoodCopy, CopyOf
  <2> HIDE DEF x, elements, y
  <2>7. y.type = x.type /\ y.names = x.names /\ y.elements = elements
    BY <2>2, <2>6 DEF IsItem
  <2>8. ASSUME NEW n \in 1 .. k
        PROVE  base + n - 1 \in 0 .. Len(d.subs) - 1 /\ d.subs[(base + n - 1) + 1].name = x.names[n]
    <3>1. base + n - 1 \in 0 .. Len(d.subs) - 1 /\ (base + n - 1) + 1 = base + n
      BY <1>2
    <3> QED
      BY <2>4, <3>1
  <2>9. IndicesMatch(y, d.subs)
    BY <2>5, <2>7, <2>8 DEF IndicesMatch
  <2> QED
    BY <2>3, <2>7, <2>9 DEF x, y
<1> HIDE DEF t
<1>11. \A n \in DOMAIN field : t[n].type = field[n].type /\ t[n].names = field[n].names
  BY <1>9, <1>10 DEF Compounds
<1>12. FieldIsValid(t, d)
  <2> SUFFICES ASSUME NEW n \in DOMAIN field
               PROVE  ItemIsValid(t[n], d) /\ t[n].type # "Explicit"
    BY <1>8 DEF FieldIsValid, ToSet
  <2>1. CASE n \in Compounds(field)
    BY <1>10, <2>1 DEF ItemIsValid, WithElements
  <2>2. CASE n \notin Compounds(field)
    <3>1. t[n] = field[n] /\ field[n].type # "Compound" /\ GoodCopy(f.items[n], field[n])
      BY <1>1, <1>9, <2>2 DEF Compounds
    <3> QED
      BY <3>1, CopyIsValid
  <2> QED
    BY <2>1, <2>2
<1> QED
  BY <1>5, <1>7, <1>8, <1>11, <1>12 DEF t

(* No flaw stops the marshalling of well-formed files.                     *)
LEMMA GoodItemsAreMarshalled ==
  ASSUME NEW external, IsSeq(external), \A n \in DOMAIN external : GoodItem(external[n]),
         NEW m, IndicesFit(m.ref, m.refSubs), IndicesFit(m.spf, m.spfSubs)
  PROVE  MarshalVerdict(external, m) = "SUCCESS"
<1> DEFINE lists == [n \in DOMAIN external |-> external[n].elements]
           all == FlattenSeq(lists)
<1>1. Len(external) \in Nat /\ DOMAIN external = 1 .. Len(external)
  BY SeqFacts
<1>2. /\ DOMAIN lists = 1 .. Len(external) /\ lists = [n \in 1 .. Len(external) |-> lists[n]]
      /\ \A n \in 1 .. Len(external) : lists[n] = external[n].elements
  BY <1>1
<1> HIDE DEF lists
<1>3. IsSeq(lists) /\ \A n \in DOMAIN lists : IsSeq(lists[n])
  BY <1>1, <1>2, BuiltIsSeq DEF GoodItem
<1>4. ToSet(all) = UNION {ToSet(lists[n]) : n \in DOMAIN lists}
  BY <1>3, FlattenFacts
<1>5. \A n \in DOMAIN lists : \A e \in ToSet(lists[n]) : e.flaw = "none"
  BY <1>1, <1>2 DEF GoodItem, ToSet
<1> HIDE DEF all
<1>6. \A e \in ToSet(all) : e.flaw = "none"
  BY <1>4, <1>5
<1>7. \A n \in DOMAIN all : all[n].flaw = "none"
  BY <1>6 DEF ToSet
<1> QED
  BY <1>7 DEF MarshalVerdict, all, lists

-----------------------------------------------------------------------------
(* Names that differ still do when their lists are moved, each to a place  *)
(* of its own.                                                             *)
CameFrom(home, old, new) ==
  \A a \in DOMAIN new : \A n \in DOMAIN new[a] :
    \/ new[a][n] = <<>>
    \/ /\ home[a][n][1] \in DOMAIN old /\ home[a][n][2] \in DOMAIN old[home[a][n][1]]
       /\ old[home[a][n][1]][home[a][n][2]] = new[a][n]
OwnHomes(home, new) ==
  \A a, b \in DOMAIN new : \A n \in DOMAIN new[a], m \in DOMAIN new[b] :
    /\ new[a][n] # <<>> /\ new[b][m] # <<>>
    /\ home[a][n][1] = home[b][m][1] /\ home[a][n][2] = home[b][m][2]
    => a = b /\ n = m

LEMMA NamesStayDifferent ==
  ASSUME NEW old, NamesDiffer(old), NEW new, NEW home, CameFrom(home, old, new), OwnHomes(home, new)
  PROVE  NamesDiffer(new)
<1> SUFFICES ASSUME NEW a \in DOMAIN new, NEW b \in DOMAIN new,
                    NEW n \in DOMAIN new[a], NEW m \in DOMAIN new[b],
                    NEW e \in DOMAIN new[a][n], NEW f \in DOMAIN new[b][m],
                    new[a][n][e] = new[b][m][f], new[a][n][e] \notin {"Spare", "FX"}
             PROVE  a = b /\ n = m /\ e = f
  BY DEF NamesDiffer
<1>1. new[a][n] # <<>> /\ new[b][m] # <<>>
  BY SmallSeqs
<1> DEFINE k == home[a][n][1]
           p == home[a][n][2]
           l == home[b][m][1]
           q == home[b][m][2]
<1>2. /\ k \in DOMAIN old /\ p \in DOMAIN old[k] /\ old[k][p] = new[a][n]
      /\ l \in DOMAIN old /\ q \in DOMAIN old[l] /\ old[l][q] = new[b][m]
  BY <1>1 DEF CameFrom
<1> HIDE DEF k, p, l, q
<1>3. k = l /\ p = q /\ e = f
  BY <1>2 DEF NamesDiffer
<1> QED
  BY <1>1, <1>3 DEF OwnHomes, k, p, l, q

(* The parts of a description, in the order they are marshalled in: items, *)
(* subitems, items and subitems of RE, items and subitems of SP.           *)
LEMMA MarshalledNames ==
  ASSUME NEW files, NEW parts, \A p \in 1 .. 6 : GoodCopies(files[p], parts[p]),
         NamesDiffer([p \in 1 .. 6 |-> NamesOfElements(files[p])]),
         NEW d, d.items = parts[1], d.subs = (parts[2] \o parts[4]) \o parts[6],
         DOMAIN d.ref = DOMAIN parts[3], DOMAIN d.spf = DOMAIN parts[5],
         \A n \in DOMAIN parts[3] : d.ref[n].type = parts[3][n].type /\ d.ref[n].names = parts[3][n].names,
         \A n \in DOMAIN parts[5] : d.spf[n].type = parts[5][n].type /\ d.spf[n].names = parts[5][n].names
  PROVE  NamesAreUnique(d)
<1> DEFINE A == Len(parts[2])
           B == Len(parts[4])
           C == Len(parts[6])
           place(a, n) == CASE a = "items" -> <<1, n>>
                            [] a = "ref"   -> <<3, n>>
                            [] a = "spf"   -> <<5, n>>
                            [] OTHER -> IF n <= A THEN <<2, n>>
                                        ELSE IF n <= A + B THEN <<4, n - A>> ELSE <<6, n - (A + B)>>
           home == [a \in Collections |-> [n \in DOMAIN d[a] |-> place(a, n)]]
           old == [p \in 1 .. 6 |-> NamesOfElements(files[p])]
           new == [a \in Collections |-> ElementNames(d[a])]
           Same(x, y) == x.type = y.type /\ x.names = y.names
<1>1. ASSUME NEW p \in 1 .. 6, NEW q \in DOMAIN parts[p]
      PROVE  /\ q \in DOMAIN files[p]
             /\ NamesOfElements(files[p])[q]
                  = IF parts[p][q].type \in WithElements THEN parts[p][q].names ELSE <<>>
  <2>1. q \in DOMAIN files[p] /\ GoodCopy(files[p][q], parts[p][q])
    BY <1>1 DEF GoodCopies
  <2>2. parts[p][q].type = files[p][q].type /\ parts[p][q].names = Names(files[p][q].elements)
    BY <2>1 DEF GoodCopy, CopyOf
  <2> QED
    BY <2>1, <2>2 DEF NamesOfElements
<1>2. /\ DOMAIN new = Collections /\ \A a \in Collections : DOMAIN new[a] = DOMAIN d[a]
      /\ \A a \in Collections : \A n \in DOMAIN d[a] :
           /\ new[a][n] = IF d[a][n].type \in WithElements THEN d[a][n].names ELSE <<>>
           /\ home[a][n] = place(a, n)
  BY DEF ElementNames
<1>3. DOMAIN old = 1 .. 6 /\ \A p \in 1 .. 6 : old[p] = NamesOfElements(files[p]) /\ DOMAIN old[p] = DOMAIN files[p]
  BY DEF NamesOfElements
<1>4. /\ IsSeq(parts[2]) /\ IsSeq(parts[4]) /\ IsSeq(parts[6])
      /\ A \in Nat /\ B \in Nat /\ C \in Nat
      /\ DOMAIN parts[2] = 1 .. A /\ DOMAIN parts[4] = 1 .. B /\ DOMAIN parts[6] = 1 .. C
  <2>1. \A p \in 1 .. 6 : IsSeq(parts[p])
    BY DEF GoodCopies
  <2>2. IsSeq(parts[2]) /\ IsSeq(parts[4]) /\ IsSeq(parts[6])
    BY <2>1
  <2> QED
    BY <2>2, SeqFacts
<1>5. /\ DOMAIN d.subs = 1 .. (A + B) + C
      /\ \A n \in 1 .. A : d.subs[n] = parts[2][n]
      /\ \A n \in 1 .. B : d.subs[A + n] = parts[4][n]
      /\ \A n \in 1 .. C : d.subs[(A + B) + n] = parts[6][n]
  <2> DEFINE r == parts[2]
             s == parts[4]
             u == parts[6]
             t == r \o s
             subs == d.subs
  <2>a. IsSeq(r) /\ IsSeq(s) /\ IsSeq(u) /\ subs = t \o u /\ A = Len(r) /\ B = Len(s) /\ C = Len(u)
    BY <1>4
  <2> HIDE DEF r, s, u, subs
  <2>1. /\ IsSeq(t) /\ Len(t) = Len(r) + Len(s)
        /\ \A n \in 1 .. Len(r) : t[n] = r[n]
        /\ \A n \in 1 .. Len(s) : t[Len(r) + n] = s[n]
    <3>1. IsSeq(r) /\ IsSeq(s)
      BY ONLY <2>a
    <3> QED
      BY ONLY <3>1, ConcatIsSeq
  <2> HIDE DEF t
  <2>2. /\ IsSeq(t \o u) /\ Len(t \o u) = Len(t) + Len(u)
        /\ \A n \in 1 .. Len(t) : (t \o u)[n] = t[n]
        /\ \A n \in 1 .. Len(u) : (t \o u)[Len(t) + n] = u[n]
    <3>1. IsSeq(t) /\ IsSeq(u)
      BY ONLY <2>a, <2>1
    <3> QED
      BY ONLY <3>1, ConcatIsSeq
  <2>3. /\ IsSeq(subs) /\ Len(subs) = Len(t) + Len(u)
        /\ \A n \in 1 .. Len(t) : subs[n] = t[n]
        /\ \A n \in 1 .. Len(u) : subs[Len(t) + n] = u[n]
    BY ONLY <2>a, <2>2
  <2>4. DOMAIN subs = 1 .. (Len(r) + Len(s)) + Len(u)
    BY ONLY <2>1, <2>3, SeqFacts
  <2> HIDE DEF A, B, C
  <2>5. \A n \in 1 .. A : n \in 1 .. A + B
    BY <1>4
  <2>6. \A n \in 1 .. B : A + n \in 1 .. A + B
    BY <1>4
  <2>7. /\ DOMAIN subs = 1 .. (A + B) + C
        /\ \A n \in 1 .. A : subs[n] = r[n]
        /\ \A n \in 1 .. B : subs[A + n] = s[n]
        /\ \A n \in 1 .. C : subs[(A + B) + n] = u[n]
    BY ONLY <1>4, <2>a, <2>1, <2>3, <2>4, <2>5, <2>6
  <2> QED
    BY ONLY <2>7 DEF subs, r, s, u
<1> HIDE DEF A, B, C, home, old, new
<1>6. ASSUME NEW a \in Collections, NEW n \in DOMAIN d[a]
      PROVE  \E p \in 1 .. 6 : \E q \in DOMAIN parts[p] : place(a, n) = <<p, q>> /\ Same(d[a][n], parts[p][q])
  <2>0. ASSUME NEW p \in 1 .. 6, NEW q \in DOMAIN parts[p], place(a, n) = <<p, q>>, d[a][n] = parts[p][q]
        PROVE  \E x \in 1 .. 6 : \E y \in DOMAIN parts[x] : place(a, n) = <<x, y>> /\ Same(d[a][n], parts[x][y])
    <3> HIDE DEF place
    <3> QED
      BY <2>0
  <2>1. CASE a = "items"
    BY <2>1
  <2>2. CASE a = "ref"
    BY <2>2
  <2>3. CASE a = "spf"
    BY <2>3
  <2>4. CASE a = "subs"
    <3>1. n \in 1 .. (A + B) + C
      BY <1>5, <2>4
    <3>2. place(a, n) = IF n <= A THEN <<2, n>> ELSE IF n <= A + B THEN <<4, n - A>> ELSE <<6, n - (A + B)>>
      BY <2>4
    <3> HIDE DEF place
    <3>3. CASE n <= A
      <4>1. n \in 1 .. A
        BY <1>4, <3>1, <3>3
      <4>2. 2 \in 1 .. 6 /\ n \in DOMAIN parts[2] /\ place(a, n) = <<2, n>>
        BY ONLY <1>4, <3>2, <3>3, <4>1
      <4>3. d[a][n] = parts[2][n]
        BY ONLY <1>5, <2>4, <4>1
      <4> QED
        BY <2>0, <4>2, <4>3
    <3>4. CASE ~ (n <= A) /\ n <= A + B
      <4> DEFINE q == n - A
      <4>1. q \in 1 .. B /\ A + q = n
        BY <1>4, <3>1, <3>4
      <4>2. place(a, n) = <<4, q>>
        BY <3>2, <3>4
      <4> HIDE DEF q
      <4>3. 4 \in 1 .. 6 /\ q \in DOMAIN parts[4]
        BY ONLY <1>4, <4>1
      <4>4. d[a][n] = parts[4][q]
        BY ONLY <1>5, <2>4, <4>1
      <4> QED
        BY <2>0, <4>2, <4>3, <4>4
    <3>5. CASE ~ (n <= A) /\ ~ (n <= A + B)
      <4> DEFINE q == n - (A + B)
      <4>1. q \in 1 .. C /\ (A + B) + q = n
        BY <1>4, <3>1, <3>5
      <4>2. place(a, n) = <<6, q>>
        BY <3>2, <3>5
      <4> HIDE DEF q
      <4>3. 6 \in 1 .. 6 /\ q \in DOMAIN parts[6]
        BY ONLY <1>4, <4>1
      <4>4. d[a][n] = parts[6][q]
        BY ONLY <1>5, <2>4, <4>1
      <4> QED
        BY <2>0, <4>2, <4>3, <4>4
    <3> QED
      BY <3>3, <3>4, <3>5
  <2> QED
    BY <2>1, <2>2, <2>3, <2>4 DEF Collections
<1>7. ASSUME NEW a \in Collections, NEW n \in DOMAIN d[a]
      PROVE  LET p == home[a][n][1]
                 q == home[a][n][2]
             IN p \in DOMAIN old /\ q \in DOMAIN old[p] /\ old[p][q] = new[a][n]
  <2>0. PICK p \in 1 .. 6 :
          \E q \in DOMAIN parts[p] : place(a, n) = <<p, q>> /\ Same(d[a][n], parts[p][q])
    BY <1>6
  <2>1. PICK q \in DOMAIN parts[p] : place(a, n) = <<p, q>> /\ Same(d[a][n], parts[p][q])
    BY <2>0
  <2>2. home[a][n] = <<p, q>> /\ new[a][n] = IF d[a][n].type \in WithElements THEN d[a][n].names ELSE <<>>
    BY <1>2, <2>1
  <2>3. home[a][n][1] = p /\ home[a][n][2] = q
    BY <2>2
  <2>4. /\ p \in DOMAIN old /\ q \in DOMAIN old[p]
        /\ old[p][q] = IF parts[p][q].type \in WithElements THEN parts[p][q].names ELSE <<>>
    BY <1>1, <1>3
  <2>5. old[p][q] = new[a][n]
    BY <2>1, <2>2, <2>4
  <2> QED
    BY <2>3, <2>4, <2>5
<1>8. ASSUME NEW a \in Collections, NEW b \in Collections, NEW n \in DOMAIN d[a], NEW m \in DOMAIN d[b],
             home[a][n][1] = home[b][m][1], home[a][n][2] = home[b][m][2]
      PROVE  a = b /\ n = m
  <2>1. home[a][n] = place(a, n) /\ home[b][m] = place(b, m)
    BY <1>2
  <2>2. place(a, n)[1] = place(b, m)[1] /\ place(a, n)[2] = place(b, m)[2]
    BY <1>8, <2>1
  <2>3. \A x \in Collections : \A k :
          /\ x = "items" => place(x, k)[1] = 1 /\ place(x, k)[2] = k
          /\ x = "ref" => place(x, k)[1] = 3 /\ place(x, k)[2] = k
          /\ x = "spf" => place(x, k)[1] = 5 /\ place(x, k)[2] = k
          /\ x = "subs" =>
               \/ k <= A /\ place(x, k)[1] = 2 /\ place(x, k)[2] = k
               \/ ~ (k <= A) /\ k <= A + B /\ place(x, k)[1] = 4 /\ place(x, k)[2] = k - A
               \/ ~ (k <= A) /\ ~ (k <= A + B) /\ place(x, k)[1] = 6 /\ place(x, k)[2] = k - (A + B)
    OBVIOUS
  <2> HIDE DEF place
  <2>4. CASE a = "subs" /\ b = "subs"
    <3>1. DOMAIN d[a] = 1 .. (A + B) + C /\ DOMAIN d[b] = 1 .. (A + B) + C
      BY <1>5, <2>4
    <3>2. n \in Nat /\ m \in Nat /\ A \in Nat /\ B \in Nat
      BY <1>4, <3>1
    <3> DEFINE first(k) == place(a, k)[1]
               second(k) == place(a, k)[2]
    <3>3. first(n) = first(m) /\ second(n) = second(m)
      BY <2>2, <2>4
    <3>4. \A k \in {n, m} :
            \/ k <= A /\ first(k) = 2 /\ second(k) = k
            \/ ~ (k <= A) /\ k <= A + B /\ first(k) = 4 /\ second(k) = k - A
            \/ ~ (k <= A) /\ ~ (k <= A + B) /\ first(k) = 6 /\ second(k) = k - (A + B)
      BY <2>3, <2>4
    <3> HIDE DEF first, second
    <3>5. n = m
      BY ONLY <3>2, <3>3, <3>4
    <3> QED
      BY <2>4, <3>5
  <2>5. CASE ~ (a = "subs" /\ b = "subs")
    BY <2>2, <2>3, <2>5 DEF Collections
  <2> QED
    BY <2>4, <2>5
<1>9. NamesDiffer(old)
  BY DEF old
<1>10. CameFrom(home, old, new)
  BY <1>2, <1>7 DEF CameFrom
<1>11. OwnHomes(home, new)
  BY <1>2, <1>8 DEF OwnHomes
<1>12. NamesDiffer(new)
  BY ONLY <1>9, <1>10, <1>11, NamesStayDifferent
<1> QED
  BY <1>12 DEF NamesAreUnique, new

-----------------------------------------------------------------------------
(* What the marshalled files of a well-formed category are: valid, but for *)
(* their order.                                                            *)
Draft(d, c) ==
  /\ SubitemsAreValid(d) /\ FieldIsValid(d.ref, d) /\ FieldIsValid(d.spf, d)
  /\ \A n \in DOMAIN d.items : ItemIsValid(d.items[n], d) /\ d.items[n].type # "Explicit"
  /\ NamesAreUnique(d) /\ Names(d.items) = Names(Contents(c.items).items)

LEMMA SubitemsTaken ==
  ASSUME NEW f, OneCompound(f), NEW field, GoodCopies(f.items, field), NEW subs, GoodCopies(f.subs, subs)
  PROVE  TimesCompounds(field, subs) = subs
<1>1. /\ IsSeq(field) /\ DOMAIN field = DOMAIN f.items /\ IsSeq(subs)
      /\ Len(subs) = Len(f.subs) /\ IsSeq(f.subs)
      /\ \A n \in DOMAIN field : field[n].type = f.items[n].type
  BY DEF GoodCopies, GoodCopy, CopyOf
<1>2. Compounds(field) = Compounds(f.items)
  BY <1>1 DEF Compounds
<1>3. subs = <<>> <=> f.subs = <<>>
  BY <1>1, NotEmpty
<1>4. Cardinality(Compounds(field)) = IF subs = <<>> THEN 0 ELSE 1
  BY <1>2, <1>3 DEF OneCompound
<1> QED
  BY <1>1, <1>4, SubitemsOnce

(* All files together are good.                                            *)
GoodList(s) == IsSeq(s) /\ \A n \in DOMAIN s : GoodItem(s[n])

LEMMA GoodLists ==
  ASSUME NEW s, GoodList(s), NEW t, GoodList(t)
  PROVE  GoodList(s \o t)
<1>1. IsSeq(s \o t) /\ ToSet(s \o t) = ToSet(s) \cup ToSet(t)
  BY ConcatIsSeq DEF GoodList
<1>2. \A x \in ToSet(s) \cup ToSet(t) : GoodItem(x)
  BY DEF GoodList, ToSet
<1> QED
  BY <1>1, <1>2 DEF GoodList, ToSet

LEMMA AllAreGood ==
  ASSUME NEW locals, GoodFile(locals.items), GoodFile(locals.ref), GoodFile(locals.spf)
  PROVE  GoodList(AllExternal(locals))
<1>1. /\ GoodList(locals.items.items) /\ GoodList(locals.items.subs)
      /\ GoodList(locals.ref.items) /\ GoodList(locals.ref.subs)
      /\ GoodList(locals.spf.items) /\ GoodList(locals.spf.subs)
  BY DEF GoodList, GoodFile, IsFile
<1>2. GoodList(ItemsAndSubs(locals))
  BY <1>1, GoodLists DEF ItemsAndSubs
<1>3. GoodList(ItemsAndSubs(locals) \o locals.ref.items)
  BY <1>1, <1>2, GoodLists
<1>4. GoodList(UpToRef(locals))
  BY <1>1, <1>3, GoodLists DEF UpToRef
<1>5. GoodList(UpToRef(locals) \o locals.spf.items)
  BY <1>1, <1>4, GoodLists
<1> QED
  BY <1>1, <1>5, GoodLists DEF AllExternal

LEMMA SubitemsKeepNames ==
  ASSUME NEW f, f.state = "ok", f.subs \in Seq(ExternalItem)
  PROVE  /\ DOMAIN Contents(f).subs = DOMAIN f.subs
         /\ \A n \in DOMAIN f.subs : Contents(f).subs[n].name = f.subs[n].name
<1>1. Contents(f).subs = [n \in DOMAIN f.subs |-> PreparedItem(f.subs[n], f.subs[n].name)]
  BY DEF Contents, Prepared
<1>2. ASSUME NEW n \in DOMAIN f.subs PROVE PreparedItem(f.subs[n], f.subs[n].name).name = f.subs[n].name
  <2> DEFINE x == f.subs[n]
             e == [k \in DOMAIN x.elements |-> PreparedElement(x.elements[k])]
             y == PreparedItem(x, x.name)
  <2>1. x \in ExternalItem
    OBVIOUS
  <2>2. y = [x EXCEPT !.name = x.name, !.elements = e]
    BY DEF PreparedItem
  <2>3. x = [name |-> x.name, type |-> x.type, length |-> x.length, elements |-> x.elements]
    BY <2>1 DEF ExternalItem
  <2> HIDE DEF e, y, x
  <2>4. y.name = x.name
    BY <2>2, <2>3
  <2> QED
    BY <2>4 DEF x, y
<1> QED
  BY <1>1, <1>2

LEMMA MarshallingDrafts ==
  ASSUME NEW c, c.items.state = "ok", c.items.subs \in Seq(ExternalItem),
         SubitemsAreNamed(c), ElementsDiffer(c),
         NEW locals, GoodFile(locals.items), GoodFile(locals.ref), GoodFile(locals.spf),
         locals.items = Contents(c.items), locals.ref = Contents(c.ref), locals.spf = Contents(c.spf),
         NEW d, IsDescription(d)
  PROVE  /\ MarshalVerdict(AllExternal(locals), MarshalledFiles(locals)) = "SUCCESS"
         /\ Draft(MarshalledInto(d, MarshalledFiles(locals)), c)
<1> DEFINE m == MarshalledFiles(locals)
           e == MarshalledInto(d, m)
           A == Len(m.subs)
           B == Len(m.refSubs)
           C == Len(m.spfSubs)
<1>1. /\ GoodCopies(locals.items.items, m.items) /\ GoodCopies(locals.items.subs, m.subs)
      /\ GoodCopies(locals.ref.items, m.ref) /\ GoodCopies(locals.ref.subs, m.refSubs)
      /\ GoodCopies(locals.spf.items, m.spf) /\ GoodCopies(locals.spf.subs, m.spfSubs)
  <2>1. \A f \in {locals.items, locals.ref, locals.spf} :
          /\ IsSeq(f.items) /\ \A n \in DOMAIN f.items : GoodItem(f.items[n])
          /\ IsSeq(f.subs) /\ \A n \in DOMAIN f.subs : GoodItem(f.subs[n])
    BY DEF GoodFile, IsFile
  <2> QED
    BY <2>1, PartIsCopied DEF MarshalledFiles
<1>2. OneCompound(locals.ref) /\ OneCompound(locals.spf)
  BY DEF SubitemsAreNamed, OneCompound
<1> HIDE DEF m
<1>3. TimesCompounds(m.ref, m.refSubs) = m.refSubs /\ TimesCompounds(m.spf, m.spfSubs) = m.spfSubs
  BY <1>1, <1>2, SubitemsTaken
<1>4. SubsBehind(m) = m.subs \o m.refSubs
  BY <1>3 DEF SubsBehind
<1>5. /\ e.items = m.items /\ e.subs = (m.subs \o m.refSubs) \o m.spfSubs
      /\ e.ref = WithNewIndices(m.ref, m.refSubs, A)
      /\ e.spf = WithNewIndices(m.spf, m.spfSubs, Len(m.subs \o m.refSubs))
  <2> DEFINE subs == SubsBehind(m) \o TimesCompounds(m.spf, m.spfSubs)
             ref == WithNewIndices(m.ref, m.refSubs, Len(m.subs))
             spf == WithNewIndices(m.spf, m.spfSubs, Len(SubsBehind(m)))
  <2>1. e = [items |-> m.items, subs |-> subs, ref |-> ref, spf |-> spf,
             mandatoryItemFRNs |-> d.mandatoryItemFRNs, elementsMap |-> d.elementsMap]
    BY MarshalledDescription
  <2> HIDE DEF subs, ref, spf, e
  <2>2. e.items = m.items /\ e.subs = subs /\ e.ref = ref /\ e.spf = spf
    BY <2>1
  <2> QED
    BY <2>2, <1>3, <1>4 DEF subs, ref, spf
<1>6. /\ IsSeq(m.subs) /\ IsSeq(m.refSubs) /\ IsSeq(m.spfSubs)
      /\ A \in Nat /\ B \in Nat /\ C \in Nat
      /\ DOMAIN m.subs = 1 .. A /\ DOMAIN m.refSubs = 1 .. B /\ DOMAIN m.spfSubs = 1 .. C
  BY <1>1, SeqFacts DEF GoodCopies
<1> DEFINE t == m.subs \o m.refSubs
<1>7. /\ IsSeq(t) /\ Len(t) = A + B /\ ToSet(t) = ToSet(m.subs) \cup ToSet(m.refSubs)
      /\ \A n \in 1 .. A : t[n] = m.subs[n]
      /\ \A n \in 1 .. B : t[A + n] = m.refSubs[n]
  <2> DEFINE u == m.subs
             v == m.refSubs
  <2>1. IsSeq(u) /\ IsSeq(v)
    BY <1>6
  <2> HIDE DEF u, v
  <2>2. /\ IsSeq(u \o v) /\ Len(u \o v) = Len(u) + Len(v) /\ ToSet(u \o v) = ToSet(u) \cup ToSet(v)
        /\ \A n \in 1 .. Len(u) : (u \o v)[n] = u[n]
        /\ \A n \in 1 .. Len(v) : (u \o v)[Len(u) + n] = v[n]
    BY ONLY <2>1, ConcatIsSeq
  <2> QED
    BY <2>2 DEF u, v
<1>8. e.subs = t \o m.spfSubs /\ e.spf = WithNewIndices(m.spf, m.spfSubs, Len(t))
  BY <1>5
<1> HIDE DEF e, t
<1>9. /\ Len(e.subs) = Len(t) + C /\ ToSet(e.subs) = ToSet(t) \cup ToSet(m.spfSubs)
      /\ \A n \in 1 .. Len(t) : e.subs[n] = t[n]
      /\ \A n \in 1 .. C : e.subs[Len(t) + n] = m.spfSubs[n]
  <2> DEFINE v == m.spfSubs
             w == e.subs
  <2>1. IsSeq(t) /\ IsSeq(v) /\ w = t \o v
    BY <1>6, <1>7, <1>8
  <2> HIDE DEF v, w
  <2>2. /\ Len(w) = Len(t) + Len(v) /\ ToSet(w) = ToSet(t) \cup ToSet(v)
        /\ \A n \in 1 .. Len(t) : w[n] = t[n]
        /\ \A n \in 1 .. Len(v) : w[Len(t) + n] = v[n]
    BY ONLY <2>1, ConcatIsSeq
  <2> QED
    BY <2>2 DEF v, w
<1> HIDE DEF A, B, C
<1>10. /\ Len(e.subs) = (A + B) + C /\ Len(e.subs) \in Nat
       /\ \A n \in 1 .. A : e.subs[n] = m.subs[n]
       /\ \A n \in 1 .. B : e.subs[A + n] = m.refSubs[n]
       /\ \A n \in 1 .. C : e.subs[(A + B) + n] = m.spfSubs[n]
  <2>1. \A n \in 1 .. A : n \in 1 .. A + B
    BY <1>6
  <2>2. \A n \in 1 .. B : A + n \in 1 .. A + B
    BY <1>6
  <2> QED
    BY <1>6, <1>7, <1>9, <2>1, <2>2
<1>11. LET r == WithNewIndices(m.ref, m.refSubs, A)
       IN /\ IndicesFit(m.ref, m.refSubs) /\ DOMAIN r = DOMAIN m.ref /\ FieldIsValid(r, e)
          /\ \A n \in DOMAIN m.ref : r[n].type = m.ref[n].type /\ r[n].names = m.ref[n].names
  <2>1. A + Len(m.refSubs) <= Len(e.subs) /\ \A n \in 1 .. Len(m.refSubs) : e.subs[A + n] = m.refSubs[n]
    BY <1>6, <1>10 DEF B
  <2>2. OneCompound(locals.ref)
    BY <1>2
  <2>3. GoodCopies(locals.ref.items, m.ref) /\ GoodCopies(locals.ref.subs, m.refSubs)
    BY <1>1
  <2>4. A \in Nat /\ Len(e.subs) \in Nat
    BY <1>6, <1>10
  <2> DEFINE f == locals.ref
             u == m.ref
             v == m.refSubs
             b == A
             r == WithNewIndices(u, v, b)
  <2>5. /\ OneCompound(f) /\ GoodCopies(f.items, u) /\ GoodCopies(f.subs, v)
        /\ b \in Nat /\ b + Len(v) <= Len(e.subs)
        /\ \A n \in 1 .. Len(v) : e.subs[b + n] = v[n]
    BY <1>6, <2>1, <2>2, <2>3, <2>4
  <2> HIDE DEF f, u, v, b
  <2>6. /\ IndicesFit(u, v) /\ DOMAIN r = DOMAIN u /\ FieldIsValid(r, e)
        /\ \A n \in DOMAIN u : r[n].type = u[n].type /\ r[n].names = u[n].names
    BY ONLY <2>4, <2>5, RenumberedIsValid
  <2> QED
    BY <2>6 DEF f, u, v, b
<1>12. LET r == WithNewIndices(m.spf, m.spfSubs, A + B)
       IN /\ IndicesFit(m.spf, m.spfSubs) /\ DOMAIN r = DOMAIN m.spf /\ FieldIsValid(r, e)
          /\ \A n \in DOMAIN m.spf : r[n].type = m.spf[n].type /\ r[n].names = m.spf[n].names
  <2>1. /\ A + B \in Nat /\ (A + B) + Len(m.spfSubs) <= Len(e.subs)
        /\ \A n \in 1 .. Len(m.spfSubs) : e.subs[(A + B) + n] = m.spfSubs[n]
    BY <1>6, <1>10 DEF C
  <2>2. OneCompound(locals.spf)
    BY <1>2
  <2>3. GoodCopies(locals.spf.items, m.spf) /\ GoodCopies(locals.spf.subs, m.spfSubs)
    BY <1>1
  <2>4. Len(e.subs) \in Nat
    BY <1>10
  <2> DEFINE f == locals.spf
             u == m.spf
             v == m.spfSubs
             b == A + B
             r == WithNewIndices(u, v, b)
  <2>5. /\ OneCompound(f) /\ GoodCopies(f.items, u) /\ GoodCopies(f.subs, v)
        /\ b \in Nat /\ b + Len(v) <= Len(e.subs)
        /\ \A n \in 1 .. Len(v) : e.subs[b + n] = v[n]
    BY <1>6, <2>1, <2>2, <2>3, <2>4
  <2> HIDE DEF f, u, v, b
  <2>6. /\ IndicesFit(u, v) /\ DOMAIN r = DOMAIN u /\ FieldIsValid(r, e)
        /\ \A n \in DOMAIN u : r[n].type = u[n].type /\ r[n].names = u[n].names
    BY ONLY <2>4, <2>5, RenumberedIsValid
  <2> QED
    BY <2>6 DEF f, u, v, b
<1>13. e.spf = WithNewIndices(m.spf, m.spfSubs, A + B) /\ e.ref = WithNewIndices(m.ref, m.refSubs, A)
  BY <1>5, <1>7, <1>8 DEF A
<1>14. MarshalVerdict(AllExternal(locals), m) = "SUCCESS"
  BY <1>11, <1>12, AllAreGood, GoodItemsAreMarshalled DEF GoodList
<1>15. SubitemsAreValid(e)
  <2>1. ASSUME NEW f \in {locals.items, locals.ref, locals.spf}, NEW subs, GoodCopies(f.subs, subs),
               NEW x \in ToSet(subs)
        PROVE  ItemIsValid(x, e) /\ x.type # "Compound"
    <3>1. PICK n \in DOMAIN f.subs : x = subs[n] /\ GoodCopy(f.subs[n], x)
      BY <2>1 DEF GoodCopies, ToSet
    <3>2. f.subs[n].type # "Compound"
      BY DEF GoodFile
    <3>3. x.type # "Compound"
      BY <3>1, <3>2 DEF GoodCopy, CopyOf
    <3> QED
      BY <3>1, <3>3, CopyIsValid
  <2>2. \A x \in ToSet(m.subs) \cup ToSet(m.refSubs) \cup ToSet(m.spfSubs) :
          ItemIsValid(x, e) /\ x.type # "Compound"
    BY <1>1, <2>1
  <2> QED
    BY <1>7, <1>9, <2>2 DEF SubitemsAreValid
<1>16. ASSUME NEW n \in DOMAIN m.items
       PROVE  ItemIsValid(m.items[n], e) /\ m.items[n].type # "Explicit"
  <2> DEFINE x == locals.items.items[n]
             y == m.items[n]
  <2>1. n \in DOMAIN locals.items.items /\ GoodCopy(x, y)
    BY <1>1 DEF GoodCopies
  <2>2. y.type # "Compound" => ItemIsValid(y, e)
    BY <2>1, CopyIsValid
  <2>3. y.type # "Explicit"
    BY <2>1, CopyIsValid
  <2>4. CASE y.type = "Compound"
    <3>1. /\ x.type = "Compound" /\ y.names = Names(x.elements)
          /\ y.elements = [k \in DOMAIN x.elements |-> x.elements[k].bits]
      BY <2>1, <2>4 DEF GoodCopy, CopyOf
    <3>2. \A k \in ToSet(x.elements) :
            k.bits \in 0 .. Len(c.items.subs) - 1 /\ c.items.subs[k.bits + 1].name = k.name
      <4>1. x \in ToSet(Contents(c.items).items) /\ x.type = "Compound"
        BY <2>1, <3>1 DEF ToSet
      <4> HIDE DEF x, y
      <4> QED
        BY <4>1 DEF SubitemsAreNamed
    <3>3. /\ DOMAIN c.items.subs = DOMAIN m.subs
          /\ \A k \in DOMAIN m.subs : m.subs[k].name = c.items.subs[k].name
      <4> DEFINE f == c.items
                 u == locals.items.subs
                 v == m.subs
      <4>1. /\ DOMAIN u = DOMAIN v /\ \A k \in DOMAIN u : v[k].name = u[k].name
        BY <1>1 DEF GoodCopies, GoodCopy, CopyOf
      <4>2. f.state = "ok" /\ f.subs \in Seq(ExternalItem) /\ u = Contents(f).subs
        OBVIOUS
      <4> HIDE DEF f, u, v
      <4>3. /\ DOMAIN u = DOMAIN f.subs
            /\ \A k \in DOMAIN f.subs : u[k].name = f.subs[k].name
        BY ONLY <4>2, SubitemsKeepNames
      <4>4. DOMAIN f.subs = DOMAIN v /\ \A k \in DOMAIN v : v[k].name = f.subs[k].name
        BY ONLY <4>1, <4>3
      <4> QED
        BY <4>4 DEF f, v
    <3>4. Len(c.items.subs) = A
      <4>1. Len(c.items.subs) \in Nat /\ DOMAIN c.items.subs = 1 .. Len(c.items.subs)
        OBVIOUS
      <4>2. 1 .. Len(c.items.subs) = 1 .. A
        BY <1>6, <3>3, <4>1
      <4> DEFINE k == Len(c.items.subs)
      <4>3. k \in Nat /\ 1 .. k = 1 .. A
        BY <4>1, <4>2
      <4> HIDE DEF k
      <4>4. k = A
        BY ONLY <1>6, <4>3
      <4> QED
        BY <4>4 DEF k
    <3>5. ASSUME NEW k \in DOMAIN x.elements
          PROVE  /\ y.elements[k] \in 0 .. Len(e.subs) - 1
                 /\ e.subs[y.elements[k] + 1].name = y.names[k]
      <4> DEFINE b == x.elements[k].bits
      <4>1. b \in 0 .. A - 1 /\ c.items.subs[b + 1].name = x.elements[k].name
        BY <3>2, <3>4 DEF ToSet
      <4>2. y.elements[k] = b /\ y.names[k] = x.elements[k].name
        BY <3>1 DEF Names
      <4> HIDE DEF b, x, y
      <4>3. b + 1 \in 1 .. A /\ b \in 0 .. Len(e.subs) - 1
        BY <1>6, <1>10, <4>1
      <4>4. e.subs[b + 1] = m.subs[b + 1] /\ m.subs[b + 1].name = c.items.subs[b + 1].name
        BY <1>6, <1>10, <3>3, <4>3
      <4> QED
        BY <4>1, <4>2, <4>3, <4>4
    <3>6. DOMAIN y.elements = DOMAIN x.elements
      BY <3>1
    <3> HIDE DEF x, y
    <3>7. IndicesMatch(y, e.subs)
      BY <3>5, <3>6 DEF IndicesMatch
    <3> QED
      BY <2>3, <2>4, <3>7 DEF ItemIsValid, WithElements, y
  <2> QED
    BY <2>2, <2>3, <2>4
<1>17. Names(m.items) = Names(locals.items.items)
  BY <1>1 DEF Names, GoodCopies, GoodCopy, CopyOf
<1>18. NamesAreUnique(e)
  <2> DEFINE files == <<locals.items.items, locals.items.subs, locals.ref.items,
                        locals.ref.subs, locals.spf.items, locals.spf.subs>>
             parts == <<m.items, m.subs, m.ref, m.refSubs, m.spf, m.spfSubs>>
  <2>1. \A p \in 1 .. 6 : GoodCopies(files[p], parts[p])
    BY <1>1
  <2>2. NamesDiffer([p \in 1 .. 6 |-> NamesOfElements(files[p])])
    <3>1. [p \in 1 .. 6 |-> NamesOfElements(files[p])]
            = <<NamesOfElements(files[1]), NamesOfElements(files[2]), NamesOfElements(files[3]),
                NamesOfElements(files[4]), NamesOfElements(files[5]), NamesOfElements(files[6])>>
      OBVIOUS
    <3> QED
      BY <3>1 DEF ElementsDiffer
  <2>3. /\ parts[1] = m.items /\ parts[2] = m.subs /\ parts[3] = m.ref /\ parts[4] = m.refSubs
        /\ parts[5] = m.spf /\ parts[6] = m.spfSubs
    OBVIOUS
  <2>4. /\ e.items = parts[1] /\ e.subs = (parts[2] \o parts[4]) \o parts[6]
        /\ DOMAIN e.ref = DOMAIN parts[3] /\ DOMAIN e.spf = DOMAIN parts[5]
        /\ \A n \in DOMAIN parts[3] : e.ref[n].type = parts[3][n].type /\ e.ref[n].names = parts[3][n].names
        /\ \A n \in DOMAIN parts[5] : e.spf[n].type = parts[5][n].type /\ e.spf[n].names = parts[5][n].names
    <3>1. e.items = m.items /\ e.subs = (m.subs \o m.refSubs) \o m.spfSubs
      BY <1>5
    <3> HIDE DEF parts
    <3> QED
      BY <2>3, <3>1, <1>11, <1>12, <1>13
  <2> HIDE DEF files, parts
  <2> QED
    BY <2>1, <2>2, <2>4, MarshalledNames
<1>19. Draft(e, c)
  BY <1>5, <1>11, <1>12, <1>13, <1>15, <1>16, <1>17, <1>18 DEF Draft
<1> QED
  BY <1>14, <1>19 DEF e, m

-----------------------------------------------------------------------------
(* Putting in order keeps a draft valid.                                   *)
LEMMA OccurrencesGrow ==
  ASSUME NEW names, NEW p \in Nat \ {0}, NEW q \in Nat \ {0}, p < q, names[p] = names[q]
  PROVE  Occurrences(names[p], names, p) # Occurrences(names[q], names, q)
<1> DEFINE P == {n \in 1 .. p : names[n] = names[q]}
           Q == {n \in 1 .. q : names[n] = names[q]}
<1>1. P \subseteq Q /\ q \in Q /\ q \notin P
  OBVIOUS
<1>2. IsFiniteSet(Q)
  BY FiniteOccurrences
<1>3. Occurrences(names[p], names, p) = Cardinality(P) /\ Occurrences(names[q], names, q) = Cardinality(Q)
  BY DEF Occurrences
<1> HIDE DEF P, Q
<1>4. Cardinality(P) # Cardinality(Q)
  BY <1>1, <1>2, FS_Subset
<1> QED
  BY <1>3, <1>4

LEMMA ItemIsThere ==
  ASSUME NEW items, IsSeq(items), NEW uap, IsSeq(uap), NEW frn \in DOMAIN uap,
         IsFirst(frn, uap), uap[frn] \in ToSet(Names(items))
  PROVE  ItemsFor(uap, frn, items) # {}
<1> DEFINE names == Names(items)
           S == {n \in DOMAIN items : names[n] = uap[frn]}
<1>1. DOMAIN items = 1 .. Len(items) /\ Len(items) \in Nat /\ DOMAIN uap = 1 .. Len(uap) /\ Len(uap) \in Nat
  BY SeqFacts
<1>2. DOMAIN names = DOMAIN items /\ \A n \in DOMAIN items : names[n] = items[n].name
  BY DEF Names
<1> HIDE DEF names
<1>3. S # {} /\ S \subseteq Nat
  BY <1>1, <1>2 DEF ToSet, names
<1>4. PICK m \in S : \A k \in S : m <= k
  BY <1>3, LeastElement
<1>5. m \in Nat \ {0} /\ m \in DOMAIN items /\ names[m] = uap[frn] /\ frn \in Nat \ {0}
  BY <1>1, <1>4
<1>6. IsFirst(m, names)
  <2> SUFFICES ASSUME NEW g \in 1 .. m - 1, names[g] = names[m] PROVE FALSE
    BY DEF IsFirst
  <2>1. g \in DOMAIN items /\ g < m
    BY <1>1, <1>5
  <2>2. g \in S
    BY <1>5, <2>1
  <2> QED
    BY <1>4, <1>5, <2>1, <2>2
<1>7. Occurrences(names[m], names, m) = 1
  BY <1>5, <1>6, FirstOccurrence
<1>8. Occurrences(uap[frn], uap, frn) = 1
  BY <1>5, FirstOccurrence
<1>9. m \in ItemsFor(uap, frn, items)
  BY <1>2, <1>5, <1>7, <1>8 DEF ItemsFor, names
<1> QED
  BY <1>9

(* The UAP of a well-formed category: every item it names is described.    *)
UapMatches(uap, names) ==
  \A frn \in DOMAIN uap :
    uap[frn] \in {"-", RE, SP} \cup ToSet(names) /\ (uap[frn] # "-" => IsFirst(frn, uap))

LEMMA OrderAccepts ==
  ASSUME NEW d, IsDescription(d), NEW uap, IsSeq(uap), UapMatches(uap, Names(d.items))
  PROVE  OrderVerdict(uap, d) = "SUCCESS"
<1>1. IsSeq(d.items)
  BY DEF IsDescription, AreItems
<1>2. ASSUME NEW frn \in DOMAIN uap, uap[frn] \notin {"-", RE, SP} PROVE ItemsFor(uap, frn, d.items) # {}
  BY <1>1, <1>2, ItemIsThere DEF UapMatches
<1> QED
  BY <1>2 DEF OrderVerdict

LEMMA OwnFieldMatches ==
  ASSUME NEW name, NEW field, IsSeq(field)
  PROVE  /\ IndicesMatch(FieldItem(name, field), field)
         /\ FieldItem(name, field).type = "Explicit" /\ FieldItem(name, field).name = name
<1> DEFINE x == FieldItem(name, field)
           names == [n \in DOMAIN field |-> field[n].name]
           elements == [n \in DOMAIN field |-> n - 1]
<1>1. Len(field) \in Nat /\ DOMAIN field = 1 .. Len(field)
  BY SeqFacts
<1>2. x.elements = elements /\ x.names = names /\ x.type = "Explicit" /\ x.name = name
  BY DEF FieldItem
<1> HIDE DEF x
<1>3. ASSUME NEW n \in DOMAIN field
      PROVE  elements[n] \in 0 .. Len(field) - 1 /\ field[elements[n] + 1].name = names[n]
  <2>1. elements[n] = n - 1 /\ names[n] = field[n].name /\ n \in 1 .. Len(field)
    BY <1>1
  <2> HIDE DEF elements, names
  <2>2. n - 1 \in 0 .. Len(field) - 1 /\ (n - 1) + 1 = n
    BY <1>1, <2>1
  <2> QED
    BY <2>1, <2>2
<1>4. DOMAIN elements = DOMAIN field
  OBVIOUS
<1> HIDE DEF elements, names
<1> QED
  BY <1>2, <1>3, <1>4 DEF IndicesMatch, x

LEMMA DashIsValid == ASSUME NEW d PROVE ItemIsValid(DashItem, d)
<1>1. /\ DashItem.elements = <<>> /\ DashItem.length = 0 /\ DashItem.flaws = {} /\ DashItem.type = "Fixed"
  BY DEF DashItem
<1>2. 0 % SizeLimit = 0 /\ 0 % ByteBits = 0 /\ 0 \div ByteBits = 0
  BY DescriptionAssumption
<1>3. SizeIsRight(DashItem)
  BY <1>1, <1>2, NothingTotal DEF SizeIsRight
<1>4. SupportsElements(DashItem)
  BY <1>1 DEF SupportsElements
<1> QED
  BY <1>1, <1>3, <1>4 DEF ItemIsValid, WithElements

LEMMA OrderKeepsNames ==
  ASSUME NEW d, IsDescription(d), NamesAreUnique(d), NEW uap, IsSeq(uap),
         NEW e, e.items = InOrder(uap, d), e.subs = d.subs, e.ref = d.ref, e.spf = d.spf,
         \A frn \in DOMAIN uap : ItemsFor(uap, frn, d.items) = {} =>
           e.items[frn].type \notin WithElements \/ e.items[frn].names = <<>>
  PROVE  NamesAreUnique(e)
<1> DEFINE old == [collection \in Collections |-> ElementNames(d[collection])]
           new == [collection \in Collections |-> ElementNames(e[collection])]
           taken(frn) == CHOOSE n \in ItemsFor(uap, frn, d.items) : TRUE
           home == [collection \in Collections |-> [n \in DOMAIN new[collection] |->
                      IF collection = "items" THEN <<"items", taken(n)>> ELSE <<collection, n>>]]
<1>1. /\ DOMAIN uap = 1 .. Len(uap) /\ Len(uap) \in Nat
  BY SeqFacts
<1>2. /\ DOMAIN old = Collections /\ DOMAIN new = Collections
      /\ \A a \in Collections : old[a] = ElementNames(d[a]) /\ new[a] = ElementNames(e[a])
  OBVIOUS
<1>3. DOMAIN e.items = DOMAIN uap /\ DOMAIN new["items"] = DOMAIN uap
  BY DEF InOrder, ElementNames, Collections
<1>4. \A a \in Collections \ {"items"} : new[a] = old[a]
  BY DEF Collections
<1>5. \A n \in DOMAIN uap : home["items"][n] = <<"items", taken(n)>>
  BY <1>3 DEF Collections
<1>6. \A a \in Collections \ {"items"} : \A n \in DOMAIN new[a] : home[a][n] = <<a, n>>
  OBVIOUS
<1> HIDE DEF home
<1>7. ASSUME NEW frn \in DOMAIN uap, new["items"][frn] # <<>>
      PROVE  /\ taken(frn) \in ItemsFor(uap, frn, d.items)
             /\ new["items"][frn] = old["items"][taken(frn)]
             /\ taken(frn) \in DOMAIN old["items"]
  <2>1. new["items"][frn] = IF e.items[frn].type \in WithElements THEN e.items[frn].names ELSE <<>>
    BY <1>3 DEF ElementNames, Collections
  <2>2. ItemsFor(uap, frn, d.items) # {}
    BY <1>7, <2>1
  <2>3. e.items[frn] = d.items[taken(frn)]
    BY <2>2 DEF InOrder
  <2>4. taken(frn) \in ItemsFor(uap, frn, d.items)
    BY <2>2
  <2> HIDE DEF taken
  <2>5. taken(frn) \in DOMAIN d.items
    BY <2>4 DEF ItemsFor
  <2>6. /\ DOMAIN old["items"] = DOMAIN d.items
        /\ old["items"][taken(frn)]
             = IF d.items[taken(frn)].type \in WithElements THEN d.items[taken(frn)].names ELSE <<>>
    BY <2>5 DEF ElementNames, Collections
  <2> HIDE DEF old, new
  <2> QED
    BY <2>1, <2>3, <2>4, <2>5, <2>6
<1> HIDE DEF taken, old, new
<1>8. CameFrom(home, old, new)
  <2> SUFFICES ASSUME NEW a \in Collections, NEW n \in DOMAIN new[a], new[a][n] # <<>>
               PROVE  /\ home[a][n][1] \in DOMAIN old /\ home[a][n][2] \in DOMAIN old[home[a][n][1]]
                      /\ old[home[a][n][1]][home[a][n][2]] = new[a][n]
    BY <1>2 DEF CameFrom
  <2>1. CASE a = "items"
    <3>1. home[a][n] = <<"items", taken(n)>> /\ n \in DOMAIN uap
      BY <1>3, <1>5, <2>1
    <3>2. "items" \in DOMAIN old
      BY <1>2 DEF Collections
    <3> QED
      BY <2>1, <3>1, <3>2, <1>7
  <2>2. CASE a # "items"
    BY <2>2, <1>2, <1>4, <1>6
  <2> QED
    BY <2>1, <2>2
<1>9. OwnHomes(home, new)
  <2> SUFFICES ASSUME NEW a \in Collections, NEW b \in Collections,
                      NEW n \in DOMAIN new[a], NEW m \in DOMAIN new[b],
                      new[a][n] # <<>>, new[b][m] # <<>>,
                      home[a][n][1] = home[b][m][1], home[a][n][2] = home[b][m][2]
               PROVE  a = b /\ n = m
    BY <1>2 DEF OwnHomes
  <2>1. home[a][n][1] = a /\ home[b][m][1] = b
    BY <1>3, <1>5, <1>6
  <2>2. CASE a = "items"
    <3>1. n \in DOMAIN uap /\ m \in DOMAIN uap /\ taken(n) = taken(m) /\ b = "items"
      <4>1. b = "items"
        BY <2>1, <2>2
      <4>2. n \in DOMAIN uap /\ m \in DOMAIN uap
        BY <1>3, <2>2, <4>1
      <4>3. home[a][n] = <<"items", taken(n)>> /\ home[b][m] = <<"items", taken(m)>>
        BY <1>5, <2>2, <4>1, <4>2
      <4> QED
        BY <4>1, <4>2, <4>3
    <3>2. taken(n) \in ItemsFor(uap, n, d.items) /\ taken(n) \in ItemsFor(uap, m, d.items)
      BY <2>2, <3>1, <1>7
    <3>3. uap[n] = uap[m] /\ Occurrences(uap[n], uap, n) = Occurrences(uap[m], uap, m)
      BY <3>2 DEF ItemsFor
    <3>4. n \in Nat \ {0} /\ m \in Nat \ {0}
      BY <1>1, <3>1
    <3>5. ~ (n < m) /\ ~ (m < n)
      BY <3>3, <3>4, OccurrencesGrow
    <3> QED
      BY <2>2, <3>1, <3>4, <3>5
  <2>3. CASE a # "items"
    <3>1. home[a][n] = <<a, n>> /\ home[b][m] = <<b, m>>
      BY <2>1, <2>3, <1>6
    <3> QED
      BY <3>1
  <2> QED
    BY <2>2, <2>3
<1>10. NamesDiffer(old)
  BY DEF NamesAreUnique, old
<1>11. NamesDiffer(new)
  BY ONLY <1>8, <1>9, <1>10, NamesStayDifferent
<1> QED
  BY <1>11 DEF NamesAreUnique, new

LEMMA OrderingKeepsValid ==
  ASSUME NEW c, NEW d, IsDescription(d), Draft(d, c), NEW uap, IsSeq(uap),
         OrderVerdict(uap, d) = "SUCCESS", NEW mandatory
  PROVE  IsValid(Ordered(d, uap, mandatory))
<1> DEFINE e == Ordered(d, uap, mandatory)
           t == InOrder(uap, d)
<1>1. /\ e.items = t /\ e.subs = d.subs /\ e.ref = d.ref /\ e.spf = d.spf
  <2> DEFINE a == [d EXCEPT !.items = t]
  <2>1. a = [items |-> t, subs |-> d.subs, ref |-> d.ref, spf |-> d.spf,
             mandatoryItemFRNs |-> d.mandatoryItemFRNs, elementsMap |-> d.elementsMap]
    BY DEF IsDescription
  <2>2. e = [a EXCEPT !.mandatoryItemFRNs = MandatoryItemFRNs(uap, mandatory)]
    BY DEF Ordered
  <2> HIDE DEF a, t, e
  <2> QED
    BY <2>1, <2>2
<1> HIDE DEF e
<1>2. \A x : ItemIsValid(x, e) <=> ItemIsValid(x, d)
  BY <1>1 DEF ItemIsValid
<1>3. SubitemsAreValid(e) /\ FieldIsValid(e.ref, e) /\ FieldIsValid(e.spf, e)
  BY <1>1, <1>2 DEF Draft, SubitemsAreValid, FieldIsValid
<1>4. IsSeq(d.ref) /\ IsSeq(d.spf) /\ IsSeq(d.items)
  BY DEF IsDescription, AreItems
<1>5. DOMAIN t = DOMAIN uap
  BY DEF InOrder
<1>6. \A frn \in DOMAIN uap : ItemsFor(uap, frn, d.items) = {} =>
        \/ uap[frn] = RE /\ t[frn] = FieldItem(RE, d.ref)
        \/ uap[frn] = SP /\ t[frn] = FieldItem(SP, d.spf)
        \/ t[frn] = DashItem
  <2>1. \A frn \in DOMAIN uap : uap[frn] \in {"-", RE, SP} \/ ItemsFor(uap, frn, d.items) # {}
    BY DEF OrderVerdict
  <2> QED
    BY <2>1 DEF InOrder, RE, SP
<1>7. ASSUME NEW frn \in DOMAIN uap, ItemsFor(uap, frn, d.items) # {}
      PROVE  \E n \in DOMAIN d.items : t[frn] = d.items[n]
  <2>1. t[frn] = d.items[CHOOSE n \in ItemsFor(uap, frn, d.items) : TRUE]
    BY <1>7 DEF InOrder
  <2>2. PICK n \in ItemsFor(uap, frn, d.items) : t[frn] = d.items[n]
    BY <1>7, <2>1
  <2> QED
    BY <2>2 DEF ItemsFor
<1> HIDE DEF t
<1>8. ASSUME NEW frn \in DOMAIN uap
      PROVE  /\ ItemIsValid(t[frn], e)
             /\ t[frn].type = "Explicit" /\ t[frn].name = RE => IndicesMatch(t[frn], e.ref)
             /\ t[frn].type = "Explicit" /\ t[frn].name = SP => IndicesMatch(t[frn], e.spf)
  <2>1. CASE ItemsFor(uap, frn, d.items) # {}
    BY <1>2, <1>7, <2>1 DEF Draft
  <2>2. CASE t[frn] = FieldItem(RE, d.ref)
    <3>1. IndicesMatch(t[frn], d.ref) /\ t[frn].type = "Explicit" /\ t[frn].name = RE
      BY <1>4, <2>2, OwnFieldMatches
    <3> QED
      BY <1>1, <3>1 DEF ItemIsValid, WithElements, RE, SP
  <2>3. CASE t[frn] = FieldItem(SP, d.spf)
    <3>1. IndicesMatch(t[frn], d.spf) /\ t[frn].type = "Explicit" /\ t[frn].name = SP
      BY <1>4, <2>3, OwnFieldMatches
    <3> QED
      BY <1>1, <3>1 DEF ItemIsValid, WithElements, RE, SP
  <2>4. CASE t[frn] = DashItem
    BY <2>4, DashIsValid, DashItemIsItem
  <2> QED
    BY <1>6, <2>1, <2>2, <2>3, <2>4
<1>9. NamesAreUnique(e)
  <2>1. ASSUME NEW frn \in DOMAIN uap, ItemsFor(uap, frn, d.items) = {}
        PROVE  e.items[frn].type \notin WithElements \/ e.items[frn].names = <<>>
    <3>1. FieldItem(RE, d.ref).type = "Explicit" /\ FieldItem(SP, d.spf).type = "Explicit"
      BY <1>4, OwnFieldMatches
    <3>2. DashItem.names = <<>> /\ "Explicit" \notin WithElements
      BY DEF DashItem, WithElements
    <3> QED
      BY <1>1, <1>6, <2>1, <3>1, <3>2
  <2>2. NamesAreUnique(d) /\ e.items = InOrder(uap, d)
    BY <1>1 DEF Draft, t
  <2> QED
    BY <1>1, <2>1, <2>2, OrderKeepsNames
<1> QED
  BY <1>1, <1>3, <1>5, <1>8, <1>9 DEF IsValid, ToSet, e

-----------------------------------------------------------------------------
(* The first load of a good configuration: nothing fails, so there is one  *)
(* description for each turn, and every key in the map is claimed by a     *)
(* category of an earlier turn or was entered in this one.                 *)
Good ==
  /\ config.state = "ok" /\ KeysAreFree(config.categories)
  /\ \A n \in DOMAIN config.categories : WellFormed(config.categories[n])

OfEarlierTurn(key) == \E p \in 1 .. i - 1 : key \in KeysOf(config.categories[p])
OfThisTurn(key) ==
  /\ stage = "sources"
  /\ \/ Category.default /\ key = Category.number
     \/ \E q \in 1 .. j - 1 : key = SourceKey(Category.number, Category.sources[q])

Loading ==
  /\ stage # "threw" /\ status = "SUCCESS" /\ i <= Len(config.categories) + 1
  /\ Len(heap) = IF stage \in Working THEN i ELSE i - 1
  /\ stage \in {"idle", "released"} => i = Len(config.categories) + 1
  /\ stage = "sources" => j <= Len(Category.sources) + 1
  /\ \A key \in DOMAIN uapMap : OfEarlierTurn(key) \/ OfThisTurn(key)
  /\ stage = "order" => Draft(This, Category)
  /\ stage = "validate" => IsValid(This)
LoadingInv == loads = 1 /\ Good => Loading

LEMMA GoodTurn ==
  ASSUME LoaderInv, Good, stage \in Working
  PROVE  /\ Category \in AllCategories /\ WellFormed(Category)
         /\ i \in DOMAIN config.categories /\ config.categories[i] = Category
<1>1. i <= Len(config.categories) /\ i \in Nat \ {0} /\ config \in Configurations
  BY DEF LoaderInv
<1>2. DOMAIN config.categories = 1 .. Len(config.categories) /\ Len(config.categories) \in Nat
  BY <1>1, CategoriesAreSeq
<1>3. i \in DOMAIN config.categories
  BY <1>1, <1>2
<1> QED
  BY <1>1, <1>3, CategoryOfTurn DEF Good, Category

LEMMA GoodFilesOfTurn ==
  ASSUME NEW c \in AllCategories, WellFormed(c)
  PROVE  /\ GoodFile(Contents(c.items)) /\ GoodFile(Contents(c.ref)) /\ GoodFile(Contents(c.spf))
         /\ \A f \in {c.items, c.ref, c.spf} : f.state = "ok" => DescriptionVerdict(f) = "SUCCESS"
<1>1. \A f \in {c.items, c.ref, c.spf} : f.items \in Seq(ExternalItem) /\ f.subs \in Seq(ExternalItem)
  BY CategoryFacts
<1>2. \A f \in {c.items, c.ref, c.spf} : FileWellFormed(f)
  BY DEF WellFormed
<1>3. ASSUME NEW f \in {c.items, c.ref, c.spf}
      PROVE  GoodFile(Contents(f)) /\ (f.state = "ok" => DescriptionVerdict(f) = "SUCCESS")
  BY <1>1, <1>2, FileIsGood
<1> QED
  BY <1>3

LEMMA ThisIsWritten ==
  ASSUME LoaderInv, stage \in Working, NEW d, UpdateThis(d)
  PROVE  This' = d
<1>1. Len(heap) >= 1 /\ IsSeq(heap)
  BY DEF LoaderInv
<1>2. heap' = Replaced(heap, d)
  BY DEF UpdateThis, Replaced
<1>3. Len(heap') = Len(heap) /\ heap'[Len(heap)] = d
  BY <1>1, <1>2, ReplaceIsSeq
<1> QED
  BY <1>3 DEF This

(* A step of a turn that goes on to the next stage.                        *)
LEMMA TurnGoesOn ==
  ASSUME LoaderInv, Loading, Reads, stage' \in Working,
         stage' = "order" => Draft(This', Category), stage' = "validate" => IsValid(This')
  PROVE  Loading'
<1>1. /\ stage \in Working \ {"default", "sources"}
      /\ stage' \in (Working \ {"uap", "sources"}) \cup {"idle", "threw"}
      /\ UNCHANGED <<config, uapMap, i>> /\ Len(heap') = Len(heap) /\ status' = status
  BY ReadStep
<1>2. stage' \notin {"sources", "idle", "threw", "released"} /\ stage # "sources"
  BY <1>1 DEF Working
<1>3. \A key \in DOMAIN uapMap : OfEarlierTurn(key)
  BY <1>2 DEF Loading, OfThisTurn
<1>4. \A key \in DOMAIN uapMap' : OfEarlierTurn(key)'
  BY <1>1, <1>3 DEF OfEarlierTurn
<1>5. Category' = Category
  BY <1>1 DEF Category
<1> QED
  BY <1>1, <1>2, <1>4, <1>5 DEF Loading

LEMMA FilesAreLoaded ==
  ASSUME LoaderInv, Good, Loading,
         LoadUapAndMandatoryItemsList \/ LoadItems \/ LoadRef \/ LoadSpf
  PROVE  Loading'
<1>1. stage \in Working
  BY DEF LoadUapAndMandatoryItemsList, LoadItems, LoadRef, LoadSpf, Working
<1>2. WellFormed(Category) /\ Category \in AllCategories
  BY <1>1, GoodTurn
<1>3. /\ \A f \in {Category.items, Category.ref, Category.spf} : f.state = "ok" => DescriptionVerdict(f) = "SUCCESS"
      /\ Category.uap.state = "ok" /\ Category.items.state = "ok" /\ UapVerdict(Category.uap) = "SUCCESS"
      /\ Category.ref.state \in {"ok", "none"} /\ Category.spf.state \in {"ok", "none"}
  <2>1. \A f \in {Category.items, Category.ref, Category.spf} : f.state = "ok" => DescriptionVerdict(f) = "SUCCESS"
    BY <1>2, GoodFilesOfTurn
  <2> QED
    BY <2>1, <1>2 DEF WellFormed, ReadableFiles
<1>4. ASSUME NEW v, Leave(v) PROVE v # "SUCCESS"
  BY <1>4 DEF Leave
<1>5. \A f : f.state = "ok" => ReadVerdict(f) = "SUCCESS"
  BY DEF ReadVerdict
<1>6. ASSUME NEW f, f.state \in {"ok", "none"}, f.state = "ok" => DescriptionVerdict(f) = "SUCCESS",
             NEW collection, f.state = "ok" \/ collection # "items",
             NEW next, LoadDescription(f, collection, next)
      PROVE  stage' = next
  <2> DEFINE verdict == IF ReadVerdict(f) = "SUCCESS" THEN DescriptionVerdict(f) ELSE ReadVerdict(f)
  <2>1. f.state = "ok" => verdict = "SUCCESS"
    BY <1>5, <1>6
  <2>2. \/ stage' = next
        \/ ~ (f.state = "none" /\ collection # "items") /\ Leave(verdict)
    BY <1>6 DEF LoadDescription
  <2> QED
    BY <2>1, <2>2, <1>4, <1>6
<1>7. stage' \in {"items", "ref", "spf", "marshal"}
  <2>1. CASE LoadUapAndMandatoryItemsList
    <3> DEFINE f == Category.uap
               verdict == IF ReadVerdict(f) = "SUCCESS" THEN UapVerdict(f) ELSE ReadVerdict(f)
    <3>1. verdict = "SUCCESS"
      BY <1>3, <1>5
    <3>2. Leave(verdict) \/ stage' = "items"
      BY <2>1 DEF LoadUapAndMandatoryItemsList
    <3> QED
      BY <3>1, <3>2, <1>4
  <2>2. CASE LoadItems
    <3>1. LoadDescription(Category.items, "items", "ref")
      BY <2>2 DEF LoadItems
    <3> QED
      BY <3>1, <1>3, <1>6
  <2>3. CASE LoadRef
    <3>1. LoadDescription(Category.ref, "ref", "spf")
      BY <2>3 DEF LoadRef
    <3> QED
      BY <3>1, <1>3, <1>6
  <2>4. CASE LoadSpf
    <3>1. LoadDescription(Category.spf, "spf", "marshal")
      BY <2>4 DEF LoadSpf
    <3> QED
      BY <3>1, <1>3, <1>6
  <2> QED
    BY <2>1, <2>2, <2>3, <2>4
<1>8. stage' \in Working /\ stage' \notin {"order", "validate"}
  BY <1>7 DEF Working
<1> QED
  BY <1>8, TurnGoesOn DEF Reads

LEMMA DescriptionIsMade ==
  ASSUME LoaderInv, LocalsInv, DescriptionsInv, Good, Loading,
         PerformMarshalling \/ PutInOrder \/ Validate
  PROVE  Loading'
<1>1. stage \in Working
  BY DEF PerformMarshalling, PutInOrder, Validate, Working
<1>2. WellFormed(Category) /\ Category \in AllCategories
  BY <1>1, GoodTurn
<1>3. IsDescription(This)
  BY <1>1 DEF DescriptionsInv, Described
<1>4. ASSUME NEW v, Leave(v) PROVE v # "SUCCESS"
  BY <1>4 DEF Leave
<1>5. CASE PerformMarshalling
  <2>1. stage = "marshal"
    BY <1>5 DEF PerformMarshalling
  <2>2. ext.items = Contents(Category.items) /\ ext.ref = Contents(Category.ref) /\ ext.spf = Contents(Category.spf)
    BY <1>1, <2>1 DEF LocalsInv, Locals
  <2>3. /\ GoodFile(ext.items) /\ GoodFile(ext.ref) /\ GoodFile(ext.spf)
        /\ Category.items.subs \in Seq(ExternalItem)
    BY <1>2, <2>2, GoodFilesOfTurn, CategoryFacts
  <2>4. Category.items.state = "ok" /\ SubitemsAreNamed(Category) /\ ElementsDiffer(Category)
    BY <1>2 DEF WellFormed, ReadableFiles
  <2> DEFINE m == MarshalledFiles(ext)
             c == Category
             d == This
             verdict == MarshalVerdict(AllExternal(ext), m)
  <2>5. verdict = "SUCCESS" /\ Draft(MarshalledInto(d, m), c)
    <3>1. /\ c.items.state = "ok" /\ c.items.subs \in Seq(ExternalItem)
          /\ SubitemsAreNamed(c) /\ ElementsDiffer(c) /\ IsDescription(d)
          /\ GoodFile(ext.items) /\ GoodFile(ext.ref) /\ GoodFile(ext.spf)
          /\ ext.items = Contents(c.items) /\ ext.ref = Contents(c.ref) /\ ext.spf = Contents(c.spf)
      BY <1>3, <2>2, <2>3, <2>4
    <3> HIDE DEF c, d
    <3> QED
      BY ONLY <3>1, MarshallingDrafts
  <2>6. \/ Leave(verdict)
        \/ stage' = "order" /\ UpdateThis(MarshalledInto(This, m))
    BY <1>5 DEF PerformMarshalling, MarshalledInto, SubsBehind
  <2> HIDE DEF m
  <2>7. stage' = "order" /\ This' = MarshalledInto(This, m)
    BY <1>1, <1>4, <2>5, <2>6, ThisIsWritten
  <2>8. Draft(This', Category)
    BY <2>5, <2>7
  <2>9. stage' \in Working /\ stage' # "validate" /\ Reads
    BY <1>5, <2>7 DEF Working, Reads
  <2> QED
    BY <2>8, <2>9, TurnGoesOn
<1>6. CASE PutInOrder
  <2>1. stage = "order"
    BY <1>6 DEF PutInOrder
  <2>2. Draft(This, Category) /\ ext.uap = PreparedUap(Category.uap)
    BY <1>1, <2>1 DEF Loading, LocalsInv, Locals
  <2>3. IsSeq(ext.uap)
    <3>1. Category.uap.uap \in Seq(STRING)
      BY <1>2, CategoryFacts
    <3> QED
      BY <2>2, <3>1, UapIsSeq
  <2>4. UapMatches(ext.uap, Names(This.items))
    <3>1. Names(This.items) = Names(Contents(Category.items).items)
      BY <2>2 DEF Draft
    <3> QED
      BY <1>2, <2>2, <3>1 DEF WellFormed, UapMatches
  <2>5. OrderVerdict(ext.uap, This) = "SUCCESS"
    BY <1>3, <2>3, <2>4, OrderAccepts
  <2>6. IsValid(Ordered(This, ext.uap, ext.mandatory))
    BY <1>3, <2>2, <2>3, <2>5, OrderingKeepsValid
  <2>7. \/ Leave(OrderVerdict(ext.uap, This))
        \/ stage' = "validate" /\ UpdateThis(Ordered(This, ext.uap, ext.mandatory))
    BY <1>6 DEF PutInOrder, Ordered
  <2>8. stage' = "validate" /\ This' = Ordered(This, ext.uap, ext.mandatory)
    BY <1>1, <1>4, <2>5, <2>7, ThisIsWritten
  <2>9. IsValid(This')
    BY <2>6, <2>8
  <2>10. stage' \in Working /\ stage' # "order" /\ Reads
    BY <1>6, <2>8 DEF Working, Reads
  <2> QED
    BY <2>9, <2>10, TurnGoesOn
<1>7. CASE Validate
  <2>1. stage = "validate"
    BY <1>7 DEF Validate
  <2>2. IsValid(This)
    BY <2>1 DEF Loading
  <2>3. stage' = "default"
    BY <1>7, <2>2 DEF Validate
  <2>4. stage' \in Working /\ stage' \notin {"order", "validate"} /\ Reads
    BY <1>7, <2>3 DEF Working, Reads
  <2> QED
    BY <2>4, TurnGoesOn
<1> QED
  BY <1>5, <1>6, <1>7

(* No key of the turn's category is taken: not by an earlier category, and *)
(* not by the key of the turn that was entered before it.                  *)
LEMMA KeysOfTurnAreFree ==
  ASSUME LoaderInv, Good, Loading, stage \in Working
  PROVE  /\ Category.default => \A p \in DOMAIN Category.sources :
              SourceKey(Category.number, Category.sources[p]) # Category.number
         /\ \A p \in DOMAIN Category.sources : \A q \in 1 .. p - 1 :
              SourceKey(Category.number, Category.sources[q]) # SourceKey(Category.number, Category.sources[p])
         /\ \A s \in ToSet(Category.sources) : ~ s.wrong /\ s.sac <= 255 /\ s.sic <= 255
         /\ \A key \in KeysOf(Category) : ~ OfEarlierTurn(key)
<1>1. i \in DOMAIN config.categories /\ config.categories[i] = Category
  BY GoodTurn
<1>2. KeysAreFree(config.categories)
  BY DEF Good
<1>3. /\ \A s \in ToSet(Category.sources) : ~ s.wrong /\ s.sac <= 255 /\ s.sic <= 255
      /\ \A p \in DOMAIN Category.sources :
           /\ Category.default => SourceKey(Category.number, Category.sources[p]) # Category.number
           /\ \A q \in 1 .. p - 1 :
                SourceKey(Category.number, Category.sources[q]) # SourceKey(Category.number, Category.sources[p])
      /\ \A m \in 1 .. i - 1 : KeysOf(Category) \cap KeysOf(config.categories[m]) = {}
  BY <1>1, <1>2 DEF KeysAreFree
<1> QED
  BY <1>3 DEF OfEarlierTurn

(* A step that enters a key of the turn, or none.                          *)
LEMMA KeysAreAdded ==
  ASSUME LoaderInv, Good, Loading, AddDefault \/ AddDataSource
  PROVE  Loading'
<1>1. stage \in Working /\ stage \in {"default", "sources"}
  BY DEF AddDefault, AddDataSource, Working
<1>2. Category \in AllCategories /\ Category.sources \in Seq(DataSource)
  BY <1>1, GoodTurn, CategoryFacts
<1>3. /\ DOMAIN Category.sources = 1 .. Len(Category.sources) /\ Len(Category.sources) \in Nat
      /\ j \in Nat \ {0} /\ i \in Nat \ {0}
  BY <1>2 DEF LoaderInv
<1>4. CASE AddDefault
  <2>1. stage = "default"
    BY <1>4 DEF AddDefault
  <2>2. Category.default => Category.number \notin DOMAIN uapMap
    <3>1. Category.default => Category.number \in KeysOf(Category)
      BY DEF KeysOf
    <3>2. \A key \in DOMAIN uapMap : OfEarlierTurn(key)
      BY <2>1 DEF Loading, OfThisTurn
    <3> QED
      BY <1>1, <3>1, <3>2, KeysOfTurnAreFree
  <2>3. /\ IF Category.default THEN AddKey(Category.number) ELSE UNCHANGED uapMap
        /\ stage' = "sources" /\ j' = 1 /\ UNCHANGED <<i, status, config, heap>>
    BY <1>4, <2>2 DEF AddDefault
  <2>4. Category' = Category /\ stage' \in Working
    BY <2>3 DEF Category, Working
  <2>5. \A key \in DOMAIN uapMap : OfEarlierTurn(key)'
    BY <2>1, <2>3 DEF Loading, OfThisTurn, OfEarlierTurn
  <2>6. \A key \in DOMAIN uapMap' : OfEarlierTurn(key)' \/ OfThisTurn(key)'
    <3>1. CASE Category.default
      <4>1. DOMAIN uapMap' = DOMAIN uapMap \cup {Category.number}
        BY <2>3, <3>1, KeyEntered
      <4>2. OfThisTurn(Category.number)'
        BY <2>3, <2>4, <3>1 DEF OfThisTurn
      <4> QED
        BY <4>1, <4>2, <2>4, <2>5
    <3>2. CASE ~ Category.default
      BY <2>3, <2>5, <3>2
    <3> QED
      BY <3>1, <3>2
  <2>7. j' <= Len(Category.sources) + 1
    BY <1>3, <2>3
  <2> QED
    BY <1>1, <2>3, <2>4, <2>6, <2>7 DEF Loading
<1>5. CASE AddDataSource
  <2>s. PICK s : s = Category.sources[j]
    OBVIOUS
  <2>k. PICK key : key = SourceKey(Category.number, s)
    OBVIOUS
  <2>1. stage = "sources" /\ j <= Len(Category.sources)
    BY <1>5 DEF AddDataSource
  <2>2. j \in DOMAIN Category.sources /\ s \in ToSet(Category.sources)
    BY <1>3, <2>1, <2>s DEF ToSet
  <2>3. key \in KeysOf(Category)
    BY <2>2, <2>k DEF KeysOf
  <2>4. ~ s.wrong /\ s.sac <= 255 /\ s.sic <= 255
    BY <1>1, <2>2, KeysOfTurnAreFree
  <2>5. ~ OfEarlierTurn(key) /\ ~ OfThisTurn(key)
    <3>1. ~ OfEarlierTurn(key)
      BY <1>1, <2>3, KeysOfTurnAreFree
    <3>2. /\ Category.default => key # Category.number
          /\ \A q \in 1 .. j - 1 : SourceKey(Category.number, Category.sources[q]) # key
      BY <1>1, <2>2, <2>s, <2>k, KeysOfTurnAreFree
    <3> QED
      BY <3>1, <3>2 DEF OfThisTurn
  <2>6. key \notin DOMAIN uapMap
    BY <2>5 DEF Loading
  <2>7. /\ AddKey(key) /\ j' = j + 1 /\ UNCHANGED <<stage, i, status, config, heap>>
    <3>1. s.sac \in Nat /\ s.sic \in Nat
      <4>1. s \in DataSource
        BY <1>2, <1>3, <2>2, <2>s, ElementOfSeq
      <4> QED
        BY <4>1 DEF DataSource
    <3>2. ~ (s.wrong \/ s.sac > 255 \/ s.sic > 255 \/ key \in DOMAIN uapMap)
      BY <2>4, <2>6, <3>1
    <3> QED
      BY <1>5, <2>s, <2>k, <3>2 DEF AddDataSource
  <2>8. Category' = Category
    BY <2>7 DEF Category
  <2>9. key = SourceKey(Category.number, Category.sources[j])
    BY <2>s, <2>k
  <2>10. DOMAIN uapMap' = DOMAIN uapMap \cup {key}
    BY <2>7, KeyEntered
  <2>11. OfThisTurn(key)'
    <3>1. j \in 1 .. j' - 1
      BY <1>3, <2>7
    <3> QED
      BY <2>1, <2>7, <2>8, <2>9, <3>1 DEF OfThisTurn
  <2>12. ASSUME NEW k \in DOMAIN uapMap PROVE OfEarlierTurn(k)' \/ OfThisTurn(k)'
    <3>1. OfEarlierTurn(k) \/ OfThisTurn(k)
      BY DEF Loading
    <3>2. OfEarlierTurn(k) => OfEarlierTurn(k)'
      BY <2>7 DEF OfEarlierTurn
    <3>3. OfThisTurn(k) => OfThisTurn(k)'
      <4>1. \A q \in 1 .. j - 1 : q \in 1 .. j' - 1
        BY <1>3, <2>7
      <4> QED
        BY <2>7, <2>8, <4>1 DEF OfThisTurn
    <3> QED
      BY <3>1, <3>2, <3>3
  <2>13. \A k \in DOMAIN uapMap' : OfEarlierTurn(k)' \/ OfThisTurn(k)'
    BY <2>10, <2>11, <2>12
  <2>14. j' <= Len(Category.sources) + 1
    BY <1>3, <2>1, <2>7
  <2> QED
    BY <2>1, <2>7, <2>8, <2>13, <2>14 DEF Loading
<1> QED
  BY <1>4, <1>5

(* The turn ends: its keys are those of an earlier turn from here on.      *)
LEMMA TurnEnds ==
  ASSUME LoaderInv, Good, Loading, EndCategory
  PROVE  Loading'
<1>1. /\ stage = "sources" /\ j > Len(Category.sources) /\ i' = i + 1 /\ stage' = "category"
      /\ UNCHANGED <<config, heap, uapMap, status>>
  BY DEF EndCategory, mapVars
<1>2. stage \in Working /\ stage' \notin Working /\ i \in Nat \ {0}
  BY <1>1 DEF Working, LoaderInv
<1>3. /\ Category.sources \in Seq(DataSource) /\ config.categories[i] = Category
      /\ i <= Len(config.categories) /\ Len(config.categories) \in Nat
  <2>1. Category \in AllCategories /\ i \in DOMAIN config.categories /\ config.categories[i] = Category
    BY <1>2, GoodTurn
  <2>2. config.categories \in Seq(AllCategories)
    BY CategoriesAreSeq DEF LoaderInv
  <2> QED
    BY <2>1, <2>2, CategoryFacts
<1>4. \A q \in 1 .. j - 1 : q \in DOMAIN Category.sources
  BY <1>1, <1>3 DEF Loading, LoaderInv
<1>5. ASSUME NEW key \in DOMAIN uapMap PROVE OfEarlierTurn(key)'
  <2>1. OfEarlierTurn(key) \/ OfThisTurn(key)
    BY DEF Loading
  <2>2. \A p \in 1 .. i - 1 : p \in 1 .. i' - 1
    BY <1>1, <1>2
  <2>3. i \in 1 .. i' - 1
    BY <1>1, <1>2
  <2>4. CASE OfEarlierTurn(key)
    BY <1>1, <2>2, <2>4 DEF OfEarlierTurn
  <2>5. CASE OfThisTurn(key)
    <3>1. key \in KeysOf(Category)
      BY <2>5, <1>4 DEF OfThisTurn, KeysOf, ToSet
    <3> QED
      BY <1>1, <1>3, <2>3, <3>1 DEF OfEarlierTurn
  <2> QED
    BY <2>1, <2>4, <2>5
<1>6. i' <= Len(config.categories) + 1 /\ Len(heap) = i' - 1
  BY <1>1, <1>2, <1>3 DEF Loading
<1> QED
  BY <1>1, <1>2, <1>5, <1>6 DEF Loading

LEMMA LoadingStep ==
  ASSUME LoaderInv, LocalsInv, DescriptionsInv, LoadingInv, [Next]_vars
  PROVE  LoadingInv'
<1>1. CASE Load
  <2>1. CASE loads = 0
    <3>1. LoadAsterixConfiguration(config) /\ made = <<>> /\ DOMAIN uapMap = {} /\ Len(made) = Len(heap)
      BY <1>1, <2>1 DEF Load, LoaderInv
    <3>2. UNCHANGED <<config, heap, uapMap>> /\ i' = 1 /\ Len(heap) = 0
      BY <3>1 DEF LoadAsterixConfiguration, mapVars
    <3>3. ASSUME Good' PROVE Loading'
      <4>1. ReadVerdict(config) = "SUCCESS"
        BY <3>2, <3>3 DEF Good, ReadVerdict
      <4>2. stage' = "category" /\ status' = "SUCCESS"
        BY <3>1, <4>1 DEF LoadAsterixConfiguration
      <4>3. Len(config.categories) \in Nat
        BY CategoriesAreSeq DEF LoaderInv
      <4>4. stage' \notin Working
        BY <4>2 DEF Working
      <4> QED
        BY <3>1, <3>2, <4>2, <4>3, <4>4 DEF Loading
    <3> QED
      BY <3>3 DEF LoadingInv
  <2>2. CASE loads # 0
    <3>1. loads' = loads + 1 /\ loads \in Nat
      BY <1>1 DEF Load, LoadAsterixConfiguration, LoaderInv
    <3> QED
      BY <2>2, <3>1 DEF LoadingInv
  <2> QED
    BY <2>1, <2>2
<1>2. CASE ~ Load
  <2>1. UNCHANGED <<config, loads>>
    BY <1>2 DEF Next, vars, BeginCategory, EndOfConfiguration, LoadUapAndMandatoryItemsList, LoadItems,
                LoadRef, LoadSpf, PerformMarshalling, PutInOrder, Validate, AddDefault, AddDataSource,
                EndCategory, ReleaseMemory
  <2> SUFFICES ASSUME loads = 1, Good, Loading PROVE Loading'
    BY <2>1 DEF LoadingInv, Good
  <2>3. CASE BeginCategory
    <3>1. /\ stage = "category" /\ i <= Len(config.categories) /\ heap' = Append(heap, NewDescription)
          /\ UNCHANGED <<config, uapMap>>
      BY <2>3 DEF BeginCategory
    <3>2. i \in DOMAIN config.categories /\ i \in Nat \ {0} /\ config.categories[i] = Category
      <4>1. config.categories \in Seq(AllCategories) /\ i \in Nat \ {0}
        BY CategoriesAreSeq DEF LoaderInv
      <4> QED
        BY <3>1, <4>1 DEF Category
    <3>3. Category.number # 0
      <4>1. Category \in AllCategories /\ WellFormed(Category)
        BY <3>1, <3>2, CategoryOfTurn DEF Good
      <4>2. Category.number > 0
        BY <4>1 DEF WellFormed
      <4> QED
        BY <4>2
    <3>4. stage' = "uap" /\ UNCHANGED <<i, status>>
      BY <2>3, <3>3 DEF BeginCategory, loopVars
    <3>5. Len(heap') = Len(heap) + 1 /\ Len(heap) \in Nat
      BY <3>1, AppendIsSeq, SeqFacts DEF LoaderInv
    <3>6. stage' \in Working /\ stage \notin Working
      BY <3>1, <3>4 DEF Working
    <3>7. \A key \in DOMAIN uapMap' : OfEarlierTurn(key)'
      BY <3>1, <3>4 DEF Loading, OfThisTurn, OfEarlierTurn
    <3>8. Len(heap') = i'
      BY <3>2, <3>4, <3>5, <3>6 DEF Loading
    <3> QED
      BY <3>1, <3>4, <3>6, <3>7, <3>8 DEF Loading
  <2>4. CASE EndOfConfiguration
    <3>1. /\ stage = "category" /\ i > Len(config.categories) /\ stage' = "idle"
          /\ UNCHANGED <<config, i, heap, uapMap, status>>
      BY <2>4 DEF EndOfConfiguration, mapVars
    <3>2. stage \notin Working /\ stage' \notin Working
      BY <3>1 DEF Working
    <3>3. i = Len(config.categories) + 1
      <4>1. Len(config.categories) \in Nat /\ i \in Nat
        BY CategoriesAreSeq DEF LoaderInv
      <4> QED
        BY <3>1, <4>1 DEF Loading
    <3>4. \A key \in DOMAIN uapMap' : OfEarlierTurn(key)'
      BY <3>1 DEF Loading, OfThisTurn, OfEarlierTurn
    <3> QED
      BY <3>1, <3>2, <3>3, <3>4 DEF Loading
  <2>5. CASE LoadUapAndMandatoryItemsList \/ LoadItems \/ LoadRef \/ LoadSpf
    BY <2>5, FilesAreLoaded
  <2>6. CASE PerformMarshalling \/ PutInOrder \/ Validate
    BY <2>6, DescriptionIsMade
  <2>7. CASE AddDefault \/ AddDataSource
    BY <2>7, KeysAreAdded
  <2>8. CASE EndCategory
    BY <2>8, TurnEnds
  <2>9. CASE ReleaseMemory
    <3>1. /\ stage \in {"idle", "threw"} /\ stage' = "released"
          /\ UNCHANGED <<config, i, heap, uapMap, status>>
      BY <2>9 DEF ReleaseMemory, loopVars
    <3>2. stage \notin Working /\ stage' \notin Working
      BY <3>1 DEF Working
    <3>3. \A key \in DOMAIN uapMap' : OfEarlierTurn(key)'
      BY <3>1 DEF Loading, OfThisTurn, OfEarlierTurn
    <3> QED
      BY <3>1, <3>2, <3>3 DEF Loading
  <2>10. CASE UNCHANGED vars
    BY <2>10 DEF vars, loopVars, mapVars, Loading, OfEarlierTurn, OfThisTurn, Category, This
  <2> QED
    BY <1>2, <2>3, <2>4, <2>5, <2>6, <2>7, <2>8, <2>9, <2>10 DEF Next
<1> QED
  BY <1>1, <1>2

-----------------------------------------------------------------------------
(* What the loader promises.                                               *)

(* For every description the map leads to, the FRNs the parser asks for    *)
(* are those of the items that got the flag the encoder asks for: the      *)
(* loader marks items and finds the FRNs in two loops.                     *)
THEOREM MandatoryItemsAgree == Spec => []MandatoryAgrees
<1>1. DescriptionsInv => MandatoryAgrees
  BY DEF DescriptionsInv, Described, MandatoryMatches, MandatoryAgrees
<1> QED
  BY <1>1, DescriptionsInvariant, PTL

(* Whatever was loaded or failed before, a description in the map holds    *)
(* what its own category's files say, with the indices of its compound     *)
(* items leading to the subitems of the file they are in: the collections  *)
(* are cleared, filled, marshalled and renumbered in step.                 *)
THEOREM DescriptionsAreOwn == Spec => []OnlyOwnDescription
<1>1. DescriptionsInv => OnlyOwnDescription
  BY DEF DescriptionsInv, Described, OwnParts, OnlyOwnDescription
<1> QED
  BY <1>1, DescriptionsInvariant, PTL

(* Every element a record of a loaded category may have is found by its    *)
(* name when the record is encoded, in its own item or in one that has an  *)
(* element of the same name: the map of the elements is filled after the   *)
(* repetitions got their names, from all four collections.                 *)
THEOREM ElementsAreFound == Spec => []ElementFound
<1>1. ASSUME DescriptionsInv PROVE ElementFound
  <2> SUFFICES ASSUME NEW h \in Accepted,
                      NEW place \in UNION {{c} \X DOMAIN heap[h][c] : c \in Collections},
                      heap[h][place[1]][place[2]].type \in WithElements,
                      NEW name \in ToSet(heap[h][place[1]][place[2]].names)
               PROVE  /\ name \in DOMAIN heap[h].elementsMap
                      /\ \/ heap[h].elementsMap[name] = place
                         \/ heap[h].elementsMap[name] \in
                              {q \in (UNION {{c} \X DOMAIN heap[h][c] : c \in Collections}) \ {place} :
                                 name \in ToSet(heap[h][q[1]][q[2]].names)}
    BY DEF ElementFound
  <2> DEFINE d == heap[h]
             Places == UNION {{c} \X DOMAIN d[c] : c \in Collections}
  <2>p. PICK x \in Collections : place \in {x} \X DOMAIN d[x]
    OBVIOUS
  <2>q. PICK n \in DOMAIN d[x] : place = <<x, n>>
    BY <2>p
  <2>r. d[x][n].type \in WithElements /\ name \in ToSet(d[x][n].names)
    BY <2>q
  <2>1. IsDescription(d) /\ d.elementsMap = ElementsMap(d)
    BY <1>1 DEF DescriptionsInv, Described
  <2> HIDE DEF d
  <2>2. /\ name \in DOMAIN ElementsMap(d)
        /\ \E y \in Collections : \E p \in DOMAIN d[y] :
             ElementsMap(d)[name] = <<y, p>> /\ name \in ToSet(d[y][p].names)
    BY <2>1, <2>r, NameIsFound
  <2>3. PICK y \in Collections : \E p \in DOMAIN d[y] :
          ElementsMap(d)[name] = <<y, p>> /\ name \in ToSet(d[y][p].names)
    BY <2>2
  <2>4. PICK p \in DOMAIN d[y] : ElementsMap(d)[name] = <<y, p>> /\ name \in ToSet(d[y][p].names)
    BY <2>3
  <2>5. <<y, p>> \in Places /\ <<y, p>>[1] = y /\ <<y, p>>[2] = p
    OBVIOUS
  <2>6. <<y, p>> = place \/ <<y, p>> \in {q \in Places \ {place} : name \in ToSet(d[q[1]][q[2]].names)}
    BY <2>4, <2>5
  <2> QED
    BY <2>1, <2>2, <2>4, <2>6 DEF d
<1> QED
  BY <1>1, DescriptionsInvariant, PTL

(* A first load of a configuration whose categories are all well-formed    *)
(* and claim different keys succeeds, and describes every one of them.     *)
THEOREM WellFormedConfigurationsAreLoaded == Spec => []WellFormedIsLoaded
<1>1. Init => LoadingInv
  BY DEF Init, LoadingInv
<1>2. LoaderInv /\ LocalsInv /\ DescriptionsInv /\ LoadingInv /\ [Next]_vars => LoadingInv'
  BY LoadingStep
<1>3. LoaderInv /\ LoadingInv => WellFormedIsLoaded
  <2> SUFFICES ASSUME LoaderInv, LoadingInv, stage \in {"idle", "threw"}, loads = 1, Good
               PROVE  stage = "idle" /\ status = "SUCCESS" /\ Len(heap) = Len(config.categories)
    BY DEF WellFormedIsLoaded, Good
  <2>1. Loading /\ stage \notin Working
    BY DEF LoadingInv, Working
  <2>2. i \in Nat /\ Len(config.categories) \in Nat
    BY CategoriesAreSeq DEF LoaderInv
  <2> QED
    BY <2>1, <2>2 DEF Loading
<1> QED
  BY <1>1, <1>2, <1>3, DescriptionsInvariant, PTL DEF Spec
=============================================================================
