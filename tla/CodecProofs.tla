------------------------------ MODULE CodecProofs ------------------------------
(* What a set-up does with the numbers of threads, for every number that   *)
(* the client may ask for: CodecInterface.cpp divides the total in         *)
(* floating point and corrects the two shares by comparing fractions.      *)
EXTENDS ClientApplication, SequenceTheorems, FiniteSetTheorems, TLAPS

(* The division neither loses nor adds a thread, and no producer is left   *)
(* without a consumer (CodecInterface::setUpEnvironment).                  *)
THEOREM SplitIsExact ==
  ASSUME NEW t \in Nat, t >= 2
  PROVE  /\ ProducersOf(t) \in Nat /\ ConsumersOf(t) \in Nat
         /\ ProducersOf(t) + ConsumersOf(t) = t
         /\ 1 <= ProducersOf(t) /\ ProducersOf(t) <= ConsumersOf(t)
<1> DEFINE q == t \div 4
           r == t % 4
<1>1. q \in Nat /\ r \in 0 .. 3 /\ t = 4 * q + r
  OBVIOUS
<1>2. CASE r = 0
  <2>1. (3 * t) % 4 = 0 /\ (3 * t) \div 4 = 3 * q /\ q >= 1
    BY <1>1, <1>2
  <2> QED
    BY <1>1, <1>2, <2>1 DEF ProducersOf, ConsumersOf, LeftToProducers, LeftToConsumers, AtLeastOne
<1>3. CASE r = 1
  <2>1. (3 * t) % 4 = 3 /\ (3 * t) \div 4 = 3 * q /\ q >= 1
    BY <1>1, <1>3
  <2> QED
    BY <1>1, <1>3, <2>1 DEF ProducersOf, ConsumersOf, LeftToProducers, LeftToConsumers, AtLeastOne
<1>4. CASE r = 2
  <2>1. (3 * t) % 4 = 2 /\ (3 * t) \div 4 = 3 * q + 1
    BY <1>1, <1>4
  <2> QED
    BY <1>1, <1>4, <2>1 DEF ProducersOf, ConsumersOf, LeftToProducers, LeftToConsumers, AtLeastOne
<1>5. CASE r = 3
  <2>1. (3 * t) % 4 = 1 /\ (3 * t) \div 4 = 3 * q + 2
    BY <1>1, <1>5
  <2> QED
    BY <1>1, <1>5, <2>1 DEF ProducersOf, ConsumersOf, LeftToProducers, LeftToConsumers, AtLeastOne
<1> QED
  BY <1>1, <1>2, <1>3, <1>4, <1>5

(* A quotient of two positive numbers of which the first is not the        *)
(* smaller is at least one (the records of each queue).                    *)
LEMMA QuotientIsPositive ==
  ASSUME NEW a \in Nat, NEW b \in Nat, 1 <= b, b <= a
  PROVE  a \div b \in Nat \ {0}
<1> DEFINE q == a \div b
<1>1. q \in Int /\ a = b * q + (a % b) /\ 0 <= a % b /\ a % b < b
  OBVIOUS
<1>2. SUFFICES ASSUME q <= 0 PROVE FALSE
  BY <1>1
<1>3. b * q <= 0
  BY <1>1, <1>2
<1> QED
  BY <1>1, <1>3

(* What an accepted set-up writes: numbers that satisfy the codec, and     *)
(* queues with a record each.                                              *)
LEMMA AcceptedNumbers ==
  ASSUME SetUpTypes, ~Rejected
  PROVE  /\ Chosen \in [total : Nat, producers : Nat, consumers : Nat, preallocated : Nat]
         /\ 1 <= Chosen.producers /\ Chosen.producers <= Chosen.consumers
         /\ isTotalNumberSetted => Chosen.producers + Chosen.consumers = config.total
         /\ QueuesFor(Chosen) \in [number : Nat \ {0}, records : Nat \ {0}]
<1> DEFINE w == Wanted
<1>1. /\ w \in [total : Nat, producers : Nat, consumers : Nat, preallocated : Nat]
      /\ 1 <= w.producers /\ w.producers <= w.consumers
      /\ isTotalNumberSetted => w.producers + w.consumers = config.total
  <2>1. CASE isTotalNumberSetted
    <3>1. config.total \in Nat /\ config.total >= 2
      BY <2>1 DEF SetUpTypes, Rejected
    <3>2. w = [config EXCEPT !.producers = ProducersOf(config.total),
                             !.consumers = ConsumersOf(config.total)]
      BY <2>1 DEF Wanted, Divided
    <3> HIDE DEF w
    <3> QED
      BY <3>1, <3>2, SplitIsExact DEF SetUpTypes
  <2>2. CASE ~isTotalNumberSetted
    <3>1. /\ AtLeastOne(config.producers) \in Nat /\ 1 <= AtLeastOne(config.producers)
          /\ AtLeastOne(config.consumers) \in Nat /\ 1 <= AtLeastOne(config.consumers)
      BY DEF SetUpTypes, AtLeastOne
    <3>2. /\ Completed \in [total : Nat, producers : Nat, consumers : Nat, preallocated : Nat]
          /\ 1 <= Completed.producers /\ 1 <= Completed.consumers
      BY <3>1 DEF SetUpTypes, Completed
    <3>3. ~(Completed.consumers < Completed.producers)
      BY <2>2 DEF Rejected
    <3> QED
      BY <2>2, <3>2, <3>3 DEF Wanted
  <2> QED
    BY <2>1, <2>2
<1>2. /\ Chosen \in [total : Nat, producers : Nat, consumers : Nat, preallocated : Nat]
      /\ Chosen.producers = w.producers /\ Chosen.consumers = w.consumers
      /\ Chosen.producers <= Chosen.preallocated
  <2> HIDE DEF w
  <2> QED
    BY <1>1 DEF Chosen, Raised, w
<1>3. QueuesFor(Chosen) \in [number : Nat \ {0}, records : Nat \ {0}]
  BY <1>1, <1>2, QuotientIsPositive DEF QueuesFor
<1> QED
  BY <1>1, <1>2, <1>3

(* The library's definition of sequences, in the form the steps use.       *)
LEMMA FunctionIsSequence ==
  ASSUME NEW S, NEW n \in Nat, NEW f \in [1 .. n -> S]
  PROVE  f \in Seq(S)
BY SeqDef

(* The pools hand out a natural number of values whatever a call decodes.  *)
LEMMA HandedOut ==
  ASSUME NEW before \in Seq([Kinds -> Nat]), NEW load \in Loads
  PROVE  UsedAfter(load, before) \in Seq([Kinds -> Nat])
<1>1. \A p \in (1 .. config.consumers) \X Kinds : load[p] \in Nat
  BY DEF Loads
<1>2. ASSUME NEW i \in 1 .. Len(before), NEW k \in Kinds
      PROVE  before[i][k] + (IF i <= config.consumers THEN load[<<i, k>>] ELSE 0) \in Nat
  <2>1. before[i][k] \in Nat
    OBVIOUS
  <2>2. (IF i <= config.consumers THEN load[<<i, k>>] ELSE 0) \in Nat
    BY <1>1
  <2> QED
    BY <2>1, <2>2
<1>3. UsedAfter(load, before) \in [1 .. Len(before) -> [Kinds -> Nat]]
  BY <1>2 DEF UsedAfter
<1> DEFINE S == [Kinds -> Nat]
           f == UsedAfter(load, before)
           n == Len(before)
<1>4. n \in Nat /\ f \in [1 .. n -> S]
  BY <1>3
<1> HIDE DEF S, f, n
<1>5. f \in Seq(S)
  BY <1>4, FunctionIsSequence
<1> QED
  BY <1>5 DEF S, f

(* A codec that has just been constructed has values of the right types.   *)
LEMMA InitialTypes == Init => TypeOK
<1> SUFFICES ASSUME Init PROVE TypeOK
  OBVIOUS
<1>1. SetUpTypes
  BY DEF Init, SetUpTypes, NoWorkers
<1>2. CallTypes
  BY DEF Init, CallTypes, Nobody
<1>3. ManagerTypes
  <2> DEFINE S == [Kinds -> Nat]
  <2>1. <<>> \in Seq(S)
    <3> HIDE DEF S
    <3> QED
      BY EmptySeq
  <2> QED
    BY <2>1 DEF Init, ManagerTypes
<1>4. FlagTypes
  BY DEF Init, FlagTypes
<1> QED
  BY <1>1, <1>2, <1>3, <1>4 DEF TypeOK

(* The setters of the client, for any number that it may pass.             *)
Setter(n) ==
  \/ SetNumberOfProducerThreads(n) \/ SetNumberOfConsumerThreads(n)
  \/ SetTotalNumberOfThreads(n) \/ SetObjectPoolNumber(n)

(* They change the configuration and nothing else.                         *)
LEMMA SettersKeepTheRest ==
  ASSUME NEW n, Setter(n)
  PROVE  /\ life = "running"
         /\ UNCHANGED <<queues, pools, producers, decoders, readers, managers, collections,
                        life, setUps, calls, early>>
BY DEF Setter, SetNumberOfProducerThreads, SetNumberOfConsumerThreads, SetTotalNumberOfThreads,
       SetObjectPoolNumber, Set, threads, values

(* They keep the types of the configuration.                               *)
LEMMA SettersKeepTypes ==
  ASSUME NEW n \in Nat, Setter(n), SetUpTypes
  PROVE  SetUpTypes'
<1>1. config' \in [total : Nat, producers : Nat, consumers : Nat, preallocated : Nat]
  <2>1. CASE SetNumberOfProducerThreads(n)
    BY <2>1 DEF SetNumberOfProducerThreads, Set, SetUpTypes
  <2>2. CASE SetNumberOfConsumerThreads(n)
    BY <2>2 DEF SetNumberOfConsumerThreads, Set, SetUpTypes
  <2>3. CASE SetTotalNumberOfThreads(n)
    BY <2>3 DEF SetTotalNumberOfThreads, Set, SetUpTypes
  <2>4. CASE SetObjectPoolNumber(n)
    BY <2>4 DEF SetObjectPoolNumber, Set, SetUpTypes
  <2> QED
    BY <2>1, <2>2, <2>3, <2>4 DEF Setter
<1> QED
  BY <1>1, SettersKeepTheRest DEF SetUpTypes

(* The steps of the library: the setters are called with the numbers a     *)
(* client may ask for.                                                     *)
LEMMA StepsOfTheLibrary ==
  ASSUME Next
  PROVE  \/ \E n \in Nat : Setter(n)
         \/ SetUpRejected \/ SetUpAccepted
         \/ Decode \/ PrintThrows \/ DecodeThrows \/ DecodeOutside
         \/ \E c \in collections : ReleaseAllDecodedRecords(c)
         \/ ReleaseMemory
BY NumbersAssumption DEF Next, Setter

(* A call that gets as far as its datablocks.                              *)
Calling == \E load \in Loads : DecodeDatablocks(load)

(* It is one, whether its collection is printed or not.                    *)
LEMMA CallsDecode ==
  ASSUME Decode \/ PrintThrows
  PROVE  /\ Calling /\ life = "running" /\ setUps > 0
         /\ calls' = calls + 1
         /\ UNCHANGED <<config, isTotalNumberSetted, queues, pools, setUps, early>>
BY DEF Decode, PrintThrows, Calling, DecodeDatablocks, CanCall, setting

(* The numbers of the set-up: they change with the setters and set-ups.    *)
LEMMA SetUpTypesArePreserved == SetUpTypes /\ [Next]_vars => SetUpTypes'
<1> SUFFICES ASSUME SetUpTypes, [Next]_vars PROVE SetUpTypes'
  OBVIOUS
<1>1. ASSUME NEW n \in Nat, Setter(n) PROVE SetUpTypes'
  BY <1>1, SettersKeepTypes
<1>2. CASE SetUpRejected
  <2>1. config' = config \/ config' = Completed
    BY <1>2 DEF SetUpRejected
  <2>2. Completed \in [total : Nat, producers : Nat, consumers : Nat, preallocated : Nat]
    <3>1. AtLeastOne(config.producers) \in Nat /\ AtLeastOne(config.consumers) \in Nat
      BY DEF SetUpTypes, AtLeastOne
    <3> QED
      BY <3>1 DEF SetUpTypes, Completed
  <2> QED
    BY <1>2, <2>1, <2>2 DEF SetUpTypes, SetUpRejected, threads
<1>3. CASE SetUpAccepted
  <2>1. /\ config' \in [total : Nat, producers : Nat, consumers : Nat, preallocated : Nat]
        /\ QueuesFor(Chosen) \in [number : Nat \ {0}, records : Nat \ {0}]
    BY <1>3, AcceptedNumbers DEF SetUpAccepted
  <2>2. queues' # NoQueues => queues' \in [number : Nat \ {0}, records : Nat \ {0}]
    BY <1>3, <2>1 DEF SetUpAccepted, SetUpTypes
  <2>3. pools' \in [producers : Nat, consumers : Nat] /\ setUps' \in Nat
    BY <1>3, AcceptedNumbers DEF SetUpAccepted, SetUpTypes
  <2> QED
    BY <2>1, <2>2, <2>3 DEF SetUpTypes
<1>4. CASE DecodeThrows
  BY <1>4 DEF SetUpTypes, DecodeThrows, setting, threads
<1>5. CASE DecodeOutside
  BY <1>5 DEF SetUpTypes, DecodeOutside, setting
<1>6. CASE Decode \/ PrintThrows
  BY <1>6, CallsDecode DEF SetUpTypes
<1>7. ASSUME NEW c \in collections, ReleaseAllDecodedRecords(c) PROVE SetUpTypes'
  BY <1>7 DEF SetUpTypes, ReleaseAllDecodedRecords, setting, threads
<1>8. CASE ReleaseMemory
  BY <1>8 DEF SetUpTypes, ReleaseMemory, setting
<1>9. CASE UNCHANGED vars
  BY <1>9 DEF SetUpTypes, vars
<1> QED
  BY <1>1, <1>2, <1>3, <1>4, <1>5, <1>6, <1>7, <1>8, <1>9, StepsOfTheLibrary

(* The queues and the calls in progress keep their types.                  *)
LEMMA CallTypesArePreserved == CallTypes /\ SetUpTypes /\ [Next]_vars => CallTypes'
<1> SUFFICES ASSUME CallTypes, SetUpTypes, [Next]_vars PROVE CallTypes'
  OBVIOUS
<1>1. CASE UNCHANGED <<producers, decoders, calls>>
  BY <1>1 DEF CallTypes
<1>2. CASE SetUpAccepted
  BY <1>2 DEF SetUpAccepted, CallTypes
<1>3. CASE DecodeOutside
  <2>1. PICK n \in Registered(producers) + 1 .. pools.producers :
          producers' = [producers EXCEPT !.next = producers.first + n]
    BY <1>3 DEF DecodeOutside
  <2>2. producers.first + n \in Nat
    <3>1. n \in Int /\ producers.next - producers.first <= n
      BY <2>1 DEF Registered, CallTypes, SetUpTypes
    <3> QED
      BY <3>1 DEF CallTypes
  <2> QED
    BY <1>3, <2>1, <2>2 DEF DecodeOutside, CallTypes
<1>4. CASE Decode \/ PrintThrows
  <2>1. producers' \in [first : Nat, next : Nat]
    <3>1. PICK n \in Registered(producers) .. pools.producers :
            producers' = [producers EXCEPT !.next = producers.first + n]
      BY <1>4, CallsDecode DEF Calling, DecodeDatablocks
    <3>2. producers.first \in Nat /\ producers.first + n \in Nat
      <4>1. n \in Int /\ producers.next - producers.first <= n
        BY <3>1 DEF Registered, CallTypes, SetUpTypes
      <4> QED
        BY <4>1 DEF CallTypes
    <3> QED
      BY <3>1, <3>2 DEF CallTypes
  <2>2. decoders' \in [first : Nat, next : Nat]
    <3>1. PICK new \in 0 .. pools.consumers - Registered(decoders) :
            decoders' = [decoders EXCEPT !.next = @ + new]
      BY <1>4, CallsDecode DEF Calling, DecodeDatablocks
    <3>2. new \in Nat
      BY <3>1 DEF Registered, CallTypes, SetUpTypes
    <3> QED
      BY <3>1, <3>2 DEF CallTypes
  <2>3. calls' \in Nat
    BY <1>4, CallsDecode DEF CallTypes
  <2> QED
    BY <2>1, <2>2, <2>3 DEF CallTypes
<1>5. ASSUME Next
      PROVE  \/ UNCHANGED <<producers, decoders, calls>>
             \/ SetUpAccepted \/ DecodeOutside \/ Decode \/ PrintThrows
  <2>1. CASE \E c \in collections : ReleaseAllDecodedRecords(c)
    BY <2>1 DEF ReleaseAllDecodedRecords, threads
  <2>2. CASE SetUpRejected \/ DecodeThrows
    BY <2>2 DEF SetUpRejected, DecodeThrows, threads
  <2>3. CASE ReleaseMemory
    BY <2>3 DEF ReleaseMemory
  <2> QED
    BY <2>1, <2>2, <2>3, <1>5, StepsOfTheLibrary, SettersKeepTheRest
<1>6. CASE UNCHANGED vars
  BY <1>6 DEF CallTypes, vars
<1> QED
  BY <1>1, <1>2, <1>3, <1>4, <1>5, <1>6

(* The pools of values of the decoders keep their types.                   *)
LEMMA ManagerTypesArePreserved == ManagerTypes /\ SetUpTypes /\ [Next]_vars => ManagerTypes'
<1> SUFFICES ASSUME ManagerTypes, SetUpTypes, [Next]_vars PROVE ManagerTypes'
  OBVIOUS
<1> DEFINE S == [Kinds -> Nat]
<1>1. CASE UNCHANGED managers
  BY <1>1 DEF ManagerTypes
<1>2. CASE Decode \/ PrintThrows
  <2>1. ManagersForCall \in Seq(S)
    <3>1. CASE managers = <<>>
      <4> DEFINE f == ManagersForCall
                 n == config.consumers
      <4>1. n \in Nat /\ f \in [1 .. n -> S]
        BY <3>1 DEF ManagersForCall, EmptyPools, SetUpTypes
      <4> HIDE DEF S, f, n
      <4>2. f \in Seq(S)
        BY <4>1, FunctionIsSequence
      <4> QED
        BY <4>2 DEF f
    <3>2. CASE managers # <<>>
      BY <3>2 DEF ManagersForCall, ManagerTypes
    <3> QED
      BY <3>1, <3>2
  <2>2. PICK load \in Loads : managers' = UsedAfter(load, ManagersForCall)
    BY <1>2, CallsDecode DEF Calling, DecodeDatablocks
  <2> QED
    BY <2>1, <2>2, HandedOut DEF ManagerTypes
<1>3. ASSUME NEW c \in collections, ReleaseAllDecodedRecords(c) PROVE ManagerTypes'
  <2> DEFINE f == managers'
             n == Len(managers)
  <2>1. n \in Nat /\ f \in [1 .. n -> S]
    BY <1>3 DEF ReleaseAllDecodedRecords, ReleaseAllElementValueToOP, ManagerTypes
  <2> HIDE DEF S, f, n
  <2>2. f \in Seq(S)
    BY <2>1, FunctionIsSequence
  <2> QED
    BY <2>2 DEF S, f, ManagerTypes
<1>4. CASE ReleaseMemory
  <2>1. <<>> \in Seq(S)
    <3> HIDE DEF S
    <3> QED
      BY EmptySeq
  <2> QED
    BY <1>4, <2>1 DEF ReleaseMemory, ManagerTypes
<1> QED
  BY <1>1, <1>2, <1>3, <1>4, StepsOfTheLibrary, SettersKeepTheRest DEF vars, SetUpRejected,
     SetUpAccepted, DecodeThrows, DecodeOutside, values

(* The life of the codec and the mark of an early call keep their types.   *)
LEMMA FlagTypesArePreserved == FlagTypes /\ [Next]_vars => FlagTypes'
<1> SUFFICES ASSUME FlagTypes, [Next]_vars PROVE FlagTypes'
  OBVIOUS
<1>1. isTotalNumberSetted' \in BOOLEAN
  BY Zenon DEF FlagTypes, Next, vars, setting, SetNumberOfProducerThreads,
     SetNumberOfConsumerThreads, SetTotalNumberOfThreads, SetObjectPoolNumber, Set, SetUpRejected,
     SetUpAccepted, Decode, PrintThrows, DecodeDatablocks, DecodeThrows, DecodeOutside,
     ReleaseAllDecodedRecords, ReleaseMemory
<1>2. early' \in BOOLEAN
  BY Zenon DEF FlagTypes, Next, vars, values, SetNumberOfProducerThreads,
     SetNumberOfConsumerThreads, SetTotalNumberOfThreads, SetObjectPoolNumber, Set, SetUpRejected,
     SetUpAccepted, Decode, PrintThrows, DecodeDatablocks, DecodeThrows, DecodeOutside,
     ReleaseAllDecodedRecords, ReleaseMemory
<1>3. life' \in {"running", "thrown", "outside", "released"}
  BY DEF FlagTypes, Next, vars, SetNumberOfProducerThreads,
     SetNumberOfConsumerThreads, SetTotalNumberOfThreads, SetObjectPoolNumber, Set, SetUpRejected,
     SetUpAccepted, Decode, PrintThrows, DecodeDatablocks, DecodeThrows, DecodeOutside,
     ReleaseAllDecodedRecords, ReleaseMemory
<1> QED
  BY <1>1, <1>2, <1>3 DEF FlagTypes

(* The variables of the codec keep their types.                            *)
THEOREM TypeCorrect == Spec => []TypeOK
<1>1. TypeOK /\ [Next]_vars => TypeOK'
  BY SetUpTypesArePreserved, CallTypesArePreserved, ManagerTypesArePreserved,
     FlagTypesArePreserved DEF TypeOK
<1> QED
  BY <1>1, InitialTypes, PTL DEF Spec

(* Every set-up that is accepted fits the threads to the queues, for every *)
(* number of threads and of preallocated records the client asked for.     *)
THEOREM SetUpsFitTheThreads == Spec => ThreadsFit
<1> DEFINE Fits ==
             setUps' > setUps =>
               /\ 1 <= pools'.producers /\ pools'.producers <= pools'.consumers
               /\ isTotalNumberSetted => pools'.producers + pools'.consumers = config.total
               /\ pools'.producers = config'.producers /\ pools'.consumers = config'.consumers
               /\ queues'.records >= 1
<1>1. TypeOK /\ [Next]_vars => [Fits]_vars
  <2> SUFFICES ASSUME SetUpTypes, Next, setUps' > setUps
               PROVE  /\ 1 <= pools'.producers /\ pools'.producers <= pools'.consumers
                      /\ isTotalNumberSetted => pools'.producers + pools'.consumers = config.total
                      /\ pools'.producers = config'.producers /\ pools'.consumers = config'.consumers
                      /\ queues'.records >= 1
    BY DEF TypeOK
  <2>1. setUps \in Nat /\ setUps' # setUps
    BY DEF SetUpTypes
  <2>2. SetUpAccepted
    BY <2>1 DEF Next, SetNumberOfProducerThreads, SetNumberOfConsumerThreads,
       SetTotalNumberOfThreads, SetObjectPoolNumber, Set, SetUpRejected, Decode, PrintThrows,
       DecodeDatablocks, DecodeThrows, DecodeOutside, ReleaseAllDecodedRecords, ReleaseMemory
  <2>3. queues' = QueuesFor(Chosen) \/ (queues' = queues /\ queues # NoQueues)
    BY <2>2 DEF SetUpAccepted
  <2>4. queues'.records >= 1
    BY <2>2, <2>3, AcceptedNumbers DEF SetUpAccepted, SetUpTypes
  <2> QED
    BY <2>2, <2>4, AcceptedNumbers DEF SetUpAccepted
<1> QED
  BY <1>1, TypeCorrect, PTL DEF Spec, ThreadsFit

------------------------------------------------------------------------------
(* The values handed out.  A pool hands out the values below its mark, one *)
(* after the other, and nothing but the collections holds them: that each  *)
(* collection was made by a call of its own, that the values of a          *)
(* collection lie below the marks, and that every value of a released kind *)
(* below its mark lies in a collection, is kept by every step as long as   *)
(* no collection is released early.                                        *)
Value(i, k, n) == [manager |-> i, kind |-> k, index |-> n]

CallsAreNumbered ==
  /\ \A c \in collections : c.call \in Nat /\ c.call < calls
  /\ \A c, d \in collections : c.call = d.call => c = d
Disjoint == \A c, d \in collections : c # d => c.values \intersect d.values = {}

BelowMark(v, ms) ==
  /\ v.manager \in DOMAIN ms /\ v.kind \in Kinds
  /\ v.index \in 1 .. ms[v.manager][v.kind]
  /\ v = Value(v.manager, v.kind, v.index)
Marked(ms) == \A c \in collections : \A v \in c.values : BelowMark(v, ms)
InUse(ms) ==
  \A i \in DOMAIN ms, k \in ReleasedKinds : \A n \in 1 .. ms[i][k] :
    \E c \in collections : Value(i, k, n) \in c.values

PoolsAgree ==
  /\ CallsAreNumbered
  /\ ~early => Disjoint
  /\ ~early /\ life = "running" => Marked(managers) /\ InUse(managers)

(* A client that has decoded nothing holds nothing.                        *)
LEMMA InitialPools == Init => PoolsAgree
BY DEF Init, PoolsAgree, CallsAreNumbered, Disjoint, Marked, InUse

(* What is true of the pools before a call is true of those it decodes     *)
(* with: at the first call they are made, and empty (startDecoderThreads). *)
LEMMA PoolsForACall ==
  ASSUME TypeOK
  PROVE  /\ ManagersForCall \in Seq([Kinds -> Nat])
         /\ Marked(managers) => Marked(ManagersForCall)
         /\ InUse(managers) => InUse(ManagersForCall)
<1>1. CASE managers # <<>>
  BY <1>1 DEF ManagersForCall, TypeOK, ManagerTypes
<1>2. CASE managers = <<>>
  <2> DEFINE n == config.consumers
             S == [Kinds -> Nat]
             f == ManagersForCall
  <2>1. n \in Nat /\ f = [i \in 1 .. n |-> EmptyPools] /\ EmptyPools \in S
    BY <1>2 DEF ManagersForCall, EmptyPools, TypeOK, SetUpTypes
  <2>2. f \in Seq(S)
    <3> HIDE DEF f, n, S
    <3> QED
      BY <2>1, FunctionIsSequence
  <2>3. ASSUME Marked(managers), NEW c \in collections, NEW v \in c.values PROVE FALSE
    <3>1. v.manager \in DOMAIN managers
      BY <2>3 DEF Marked, BelowMark
    <3> QED
      BY <1>2, <3>1
  <2>4. Marked(managers) => Marked(f)
    BY <2>3 DEF Marked
  <2>5. ASSUME NEW i \in DOMAIN f, NEW k \in ReleasedKinds PROVE f[i][k] = 0
    BY <2>1, NumbersAssumption DEF EmptyPools
  <2>6. InUse(f)
    <3> HIDE DEF f
    <3> QED
      BY <2>5 DEF InUse
  <2> QED
    BY <2>2, <2>4, <2>6
<1> QED
  BY <1>1, <1>2

(* A call takes values above the marks and moves the marks past them, and  *)
(* moves no mark past a value that it does not take (getObjectFromOP).     *)
LEMMA ACallTakesNewValues ==
  ASSUME TypeOK, NEW before \in Seq([Kinds -> Nat]), NEW load \in Loads,
         config.consumers <= Len(before)
  PROVE  LET after == UsedAfter(load, before)
             taken == TakenBy(load, before)
         IN /\ DOMAIN after = DOMAIN before
            /\ \A v \in taken : BelowMark(v, after) /\ ~BelowMark(v, before)
            /\ \A i \in DOMAIN before, k \in Kinds :
                 /\ before[i][k] \in Nat /\ after[i][k] \in Nat /\ before[i][k] <= after[i][k]
                 /\ \A n \in 1 .. after[i][k] :
                      n \in 1 .. before[i][k] \/ Value(i, k, n) \in taken
<1> DEFINE after == UsedAfter(load, before)
           taken == TakenBy(load, before)
           D == config.consumers
<1>1. D \in Nat /\ DOMAIN before = 1 .. Len(before) /\ Len(before) \in Nat
  BY DEF TypeOK, SetUpTypes
<1>2. DOMAIN load = (1 .. D) \X Kinds /\ \A p \in (1 .. D) \X Kinds : load[p] \in {0, 1}
  BY DEF Loads
<1>3. ASSUME NEW i \in DOMAIN before, NEW k \in Kinds
      PROVE  /\ before[i][k] \in Nat
             /\ after[i][k] = before[i][k] + (IF i <= D THEN load[<<i, k>>] ELSE 0)
             /\ (IF i <= D THEN load[<<i, k>>] ELSE 0) \in {0, 1}
  <2>1. before[i] \in [Kinds -> Nat]
    BY <1>1
  <2>2. after[i][k] = before[i][k] + (IF i <= D THEN load[<<i, k>>] ELSE 0)
    BY DEF UsedAfter
  <2>3. i <= D => <<i, k>> \in (1 .. D) \X Kinds
    BY <1>1
  <2> QED
    BY <1>2, <2>1, <2>2, <2>3
<1>4. DOMAIN after = DOMAIN before
  BY DEF UsedAfter
<1>5. ASSUME NEW v \in taken PROVE BelowMark(v, after) /\ ~BelowMark(v, before)
  <2>1. PICK p \in (1 .. D) \X Kinds :
          load[p] = 1 /\ v = Value(p[1], p[2], before[p[1]][p[2]] + 1)
    BY <1>2 DEF TakenBy, Value
  <2> DEFINE i == p[1]
             k == p[2]
             m == before[i][k]
  <2>2. i \in 1 .. D /\ k \in Kinds /\ p = <<i, k>> /\ i \in DOMAIN before
    BY <1>1
  <2>3. v.manager = i /\ v.kind = k /\ v.index = m + 1
    BY <2>1 DEF Value
  <2>4. m \in Nat /\ after[i][k] = m + 1
    BY <1>1, <1>3, <2>1, <2>2
  <2>5. BelowMark(v, after)
    BY <1>4, <2>1, <2>2, <2>3, <2>4 DEF BelowMark
  <2>6. ~BelowMark(v, before)
    BY <2>3, <2>4 DEF BelowMark
  <2> QED
    BY <2>5, <2>6
<1>6. ASSUME NEW i \in DOMAIN before, NEW k \in Kinds, NEW n \in 1 .. after[i][k],
             n \notin 1 .. before[i][k]
      PROVE  Value(i, k, n) \in taken
  <2>1. i <= D /\ load[<<i, k>>] = 1 /\ n = before[i][k] + 1
    BY <1>1, <1>3, <1>6
  <2>2. <<i, k>> \in DOMAIN load
    BY <1>1, <1>2, <2>1
  <2> QED
    BY <2>1, <2>2 DEF TakenBy, Value
<1>7. ASSUME NEW i \in DOMAIN before, NEW k \in Kinds
      PROVE  /\ before[i][k] \in Nat /\ after[i][k] \in Nat /\ before[i][k] <= after[i][k]
  <2> DEFINE b == before[i][k]
             d == IF i <= D THEN load[<<i, k>>] ELSE 0
  <2>1. b \in Nat /\ d \in {0, 1} /\ after[i][k] = b + d
    BY <1>3
  <2> HIDE DEF b, d
  <2>2. after[i][k] \in Nat /\ b <= after[i][k]
    BY <2>1
  <2> QED
    BY <2>1, <2>2 DEF b
<1> QED
  BY <1>4, <1>5, <1>6, <1>7

(* A call keeps what is said of the pools: its collection is new, holds    *)
(* none of the values of the others, and holds all that its pools moved    *)
(* their marks past.                                                       *)
LEMMA DecodeKeepsPools == TypeOK /\ PoolsAgree /\ Decode => PoolsAgree'
<1> SUFFICES ASSUME TypeOK, PoolsAgree, Decode PROVE PoolsAgree'
  OBVIOUS
<1> DEFINE before == ManagersForCall
<1>1. /\ life = "running" /\ life' = life /\ early' = early /\ calls' = calls + 1
      /\ calls \in Nat /\ config.consumers <= Len(before)
  BY DEF Decode, DecodeDatablocks, CanCall, TypeOK, CallTypes
<1>2. PICK load \in Loads :
        /\ managers' = UsedAfter(load, before)
        /\ collections' = collections \union {[call |-> calls, values |-> TakenBy(load, before)]}
  BY DEF Decode, DecodeDatablocks
<1> DEFINE after == UsedAfter(load, before)
           taken == TakenBy(load, before)
           new == [call |-> calls, values |-> taken]
<1>3. before \in Seq([Kinds -> Nat])
  BY PoolsForACall
<1>4. /\ DOMAIN after = DOMAIN before
      /\ \A v \in taken : BelowMark(v, after) /\ ~BelowMark(v, before)
      /\ \A i \in DOMAIN before, k \in Kinds :
           /\ before[i][k] \in Nat /\ after[i][k] \in Nat /\ before[i][k] <= after[i][k]
           /\ \A n \in 1 .. after[i][k] :
                n \in 1 .. before[i][k] \/ Value(i, k, n) \in taken
  BY <1>1, <1>3, ACallTakesNewValues
<1>5. new.call = calls /\ new.values = taken /\ collections' = collections \union {new}
      /\ managers' = after
  BY <1>2
<1> HIDE DEF before, after, taken, new
<1>6. CallsAreNumbered'
  <2>1. \A c \in collections : c.call \in Nat /\ c.call < calls
    BY DEF PoolsAgree, CallsAreNumbered
  <2>2. \A c, d \in collections : c.call = d.call => c = d
    BY DEF PoolsAgree, CallsAreNumbered
  <2>3. \A c \in collections' : c.call \in Nat /\ c.call < calls'
    BY <1>1, <1>5, <2>1
  <2>4. ASSUME NEW c \in collections', NEW d \in collections', c.call = d.call PROVE c = d
    <3>1. CASE c \in collections /\ d \in collections
      BY <2>2, <2>4, <3>1
    <3>2. CASE c = new \/ d = new
      BY <1>1, <1>5, <2>1, <2>4, <3>2
    <3> QED
      BY <1>5, <3>1, <3>2
  <2> QED
    BY <2>3, <2>4 DEF CallsAreNumbered
<1>7. ASSUME ~early PROVE Disjoint' /\ Marked(managers)' /\ InUse(managers)'
  <2>1. Disjoint /\ Marked(before) /\ InUse(before)
    BY <1>1, <1>7, PoolsForACall DEF PoolsAgree, before
  <2>2. ASSUME NEW c \in collections, NEW v \in c.values PROVE BelowMark(v, before)
    BY <2>1 DEF Marked
  <2>3. ASSUME NEW v, BelowMark(v, before) PROVE BelowMark(v, after)
    <3>1. /\ v.manager \in DOMAIN before /\ v.kind \in Kinds
          /\ v.index \in 1 .. before[v.manager][v.kind]
          /\ v = Value(v.manager, v.kind, v.index)
      BY <2>3 DEF BelowMark
    <3>2. v.index \in 1 .. after[v.manager][v.kind]
      BY <1>4, <3>1
    <3> QED
      BY <1>4, <3>1, <3>2 DEF BelowMark
  <2>4. \A c \in collections : c.values \intersect taken = {}
    BY <1>4, <2>2
  <2>5. Disjoint'
    BY <1>5, <2>1, <2>4 DEF Disjoint
  <2>6. Marked(managers)'
    <3>1. \A c \in collections' : \A v \in c.values : BelowMark(v, after)
      BY <1>4, <1>5, <2>2, <2>3
    <3> QED
      BY <1>5, <3>1 DEF Marked, BelowMark
  <2>7. InUse(managers)'
    <3>1. ASSUME NEW i \in DOMAIN after, NEW k \in ReleasedKinds, NEW n \in 1 .. after[i][k]
          PROVE  \E c \in collections' : Value(i, k, n) \in c.values
      <4>1. i \in DOMAIN before /\ k \in Kinds
        BY <1>4, NumbersAssumption
      <4>2. CASE n \in 1 .. before[i][k]
        <5>1. PICK c \in collections : Value(i, k, n) \in c.values
          BY <2>1, <4>1, <4>2 DEF InUse
        <5> QED
          BY <1>5, <5>1
      <4>3. CASE Value(i, k, n) \in taken
        BY <1>5, <4>3
      <4> QED
        BY <1>4, <4>1, <4>2, <4>3
    <3> QED
      BY <1>5, <3>1 DEF InUse, Value
  <2> QED
    BY <2>5, <2>6, <2>7
<1> QED
  BY <1>1, <1>6, <1>7 DEF PoolsAgree

(* A release that is not early is that of the only collection: nothing is  *)
(* in use after it, and the marks of the released kinds are back at zero.  *)
LEMMA ReleaseKeepsPools ==
  ASSUME TypeOK, PoolsAgree, NEW collection \in collections,
         ReleaseAllDecodedRecords(collection)
  PROVE  PoolsAgree'
<1>1. /\ collections' = collections \ {collection} /\ calls' = calls
      /\ managers' = [i \in DOMAIN managers |-> ReleaseAllElementValueToOP(managers[i])]
      /\ early' = (early \/ collections # {collection})
  BY DEF ReleaseAllDecodedRecords, setting, threads
<1>2. CallsAreNumbered'
  BY <1>1 DEF PoolsAgree, CallsAreNumbered
<1>3. ASSUME ~early' PROVE Disjoint' /\ Marked(managers)' /\ InUse(managers)'
  <2>1. collections' = {}
    BY <1>1, <1>3
  <2>2. Disjoint' /\ Marked(managers)'
    BY <2>1 DEF Disjoint, Marked
  <2>3. ASSUME NEW i \in DOMAIN managers', NEW k \in ReleasedKinds PROVE managers'[i][k] = 0
    BY <1>1, NumbersAssumption DEF ReleaseAllElementValueToOP
  <2>4. InUse(managers)'
    BY <2>3 DEF InUse
  <2> QED
    BY <2>2, <2>4
<1> QED
  BY <1>2, <1>3 DEF PoolsAgree, ReleaseAllDecodedRecords

(* What neither decodes nor releases leaves the pools as they are.         *)
LEMMA OthersKeepPools ==
  ASSUME PoolsAgree, UNCHANGED <<managers, collections, early, calls>>,
         life' = life \/ (life = "running" /\ life' \in {"thrown", "outside"})
  PROVE  PoolsAgree'
BY DEF PoolsAgree, CallsAreNumbered, Disjoint, Marked, InUse, BelowMark

(* Nothing else touches the pools, but the end of the codec, after which   *)
(* there are none.                                                         *)
LEMMA PoolsArePreserved == TypeOK /\ PoolsAgree /\ [Next]_vars => PoolsAgree'
<1> SUFFICES ASSUME TypeOK, PoolsAgree, [Next]_vars PROVE PoolsAgree'
  OBVIOUS
<1>1. CASE Decode
  BY <1>1, DecodeKeepsPools
<1>2. ASSUME NEW c \in collections, ReleaseAllDecodedRecords(c) PROVE PoolsAgree'
  BY <1>2, ReleaseKeepsPools
<1>3. CASE ReleaseMemory
  <2>1. life' = "released" /\ UNCHANGED <<collections, early, calls>>
    BY <1>3 DEF ReleaseMemory
  <2> QED
    BY <2>1 DEF PoolsAgree, CallsAreNumbered, Disjoint
<1>6. CASE PrintThrows
  <2>1. calls' = calls + 1 /\ calls \in Nat /\ early' = early
    BY <1>6, CallsDecode DEF TypeOK, CallTypes
  <2>2. life' = "thrown" /\ collections' = collections
    BY <1>6 DEF PrintThrows
  <2> QED
    BY <2>1, <2>2 DEF PoolsAgree, CallsAreNumbered, Disjoint
<1>4. CASE SetUpRejected \/ SetUpAccepted \/ DecodeThrows \/ DecodeOutside \/ UNCHANGED vars
  BY <1>4, OthersKeepPools DEF SetUpRejected, SetUpAccepted, DecodeThrows, DecodeOutside, CanCall,
     vars, values
<1>5. ASSUME NEW n, Setter(n) PROVE PoolsAgree'
  BY <1>5, SettersKeepTheRest, OthersKeepPools
<1> QED
  BY <1>1, <1>2, <1>3, <1>4, <1>5, <1>6, StepsOfTheLibrary

(* As long as no collection is released while another is in use, no value  *)
(* is handed out twice (DecodedValueObjectPoolManager, ObjectPool).        *)
THEOREM ValuesAreHandedOutOnce == Spec => []NoValueIsHandedOutTwice
<1>1. PoolsAgree => NoValueIsHandedOutTwice
  BY DEF PoolsAgree, Disjoint, NoValueIsHandedOutTwice
<1> QED
  BY <1>1, TypeCorrect, InitialPools, PoolsArePreserved, PTL DEF Spec

(* The values of a released kind in use are those below the mark of their  *)
(* pool, and no fewer.                                                     *)
LEMMA LiveValuesAreCounted ==
  ASSUME TypeOK, Marked(managers), InUse(managers), NEW i \in DOMAIN managers,
         NEW k \in ReleasedKinds
  PROVE  managers[i][k] = Cardinality(LiveValues(i, k))
<1> DEFINE m == managers[i][k]
           Live == LiveValues(i, k)
           f == [n \in 1 .. m |-> Value(i, k, n)]
<1>1. m \in Nat
  <2>1. k \in Kinds /\ managers[i] \in [Kinds -> Nat]
    BY NumbersAssumption DEF TypeOK, ManagerTypes
  <2> QED
    BY <2>1
<1>2. ASSUME NEW v PROVE v \in Live <=> \E n \in 1 .. m : v = Value(i, k, n)
  <2>1. ASSUME v \in Live PROVE \E n \in 1 .. m : v = Value(i, k, n)
    <3>1. PICK c \in collections : v \in c.values /\ v.manager = i /\ v.kind = k
      BY <2>1 DEF LiveValues
    <3>2. BelowMark(v, managers)
      BY <3>1 DEF Marked
    <3> QED
      BY <3>1, <3>2 DEF BelowMark
  <2>2. ASSUME NEW n \in 1 .. m, v = Value(i, k, n) PROVE v \in Live
    <3>1. PICK c \in collections : v \in c.values
      BY <2>2 DEF InUse
    <3>2. v.manager = i /\ v.kind = k
      BY <2>2 DEF Value
    <3> QED
      BY <3>1, <3>2 DEF LiveValues
  <2> QED
    BY <2>1, <2>2
<1>3. f \in Bijection(1 .. m, Live)
  <2>1. \A n \in 1 .. m : f[n] \in Live
    BY <1>2
  <2>2. \A a, b \in 1 .. m : f[a] = f[b] => a = b
    BY DEF Value
  <2>3. \A v \in Live : \E n \in 1 .. m : f[n] = v
    BY <1>2
  <2> HIDE DEF Live, m
  <2>4. f \in [1 .. m -> Live]
    BY <2>1
  <2> HIDE DEF f
  <2> QED
    BY <2>2, <2>3, <2>4 DEF Bijection, Injection, Surjection, IsInjective
<1>4. ExistsBijection(1 .. m, Live)
  BY <1>3 DEF ExistsBijection
<1> HIDE DEF m, Live
<1>5. Cardinality(Live) = m
  BY <1>1, <1>4, FS_CountingElements
<1> QED
  BY <1>5 DEF m, Live

(* And the released kinds come back: their pools hand out exactly what is  *)
(* in use, however many calls and releases went before.                    *)
THEOREM ReleasedValuesAreBack == Spec => []ReleasedValuesReturn
<1>1. TypeOK /\ PoolsAgree => ReleasedValuesReturn
  BY LiveValuesAreCounted DEF PoolsAgree, ReleasedValuesReturn
<1> QED
  BY <1>1, TypeCorrect, InitialPools, PoolsArePreserved, PTL DEF Spec

------------------------------------------------------------------------------
(* One set-up.  Before the first, no pool of threads exists and nothing    *)
(* has been called; after it the queues are as many as its producers, its  *)
(* threads are the only ones that ever registered, and no more of them     *)
(* than there are.                                                         *)
OneSetUp ==
  /\ setUps = 0 => pools = NoWorkers /\ (life = "running" => queues = NoQueues)
  /\ setUps <= 1 =>
       /\ producers.first = 0 /\ decoders.first = 0 /\ life # "outside"
       /\ producers.next <= pools.producers /\ decoders.next <= pools.consumers
  /\ setUps = 1 =>
       /\ 1 <= pools.producers /\ pools.producers <= pools.consumers
       /\ life # "released" => queues.number = pools.producers

(* Nothing is set up and nobody has registered at first.                   *)
LEMMA InitialSetUp == Init => OneSetUp
BY DEF Init, OneSetUp, NoWorkers, Nobody

(* A registration that stays within the one pool of producers stays within *)
(* the queues (getQueueForProducer).                                       *)
LEMMA NobodyOutside ==
  ASSUME TypeOK, OneSetUp, setUps <= 1
  PROVE  ~DecodeOutside
<1> SUFFICES ASSUME DecodeOutside PROVE FALSE
  OBVIOUS
<1>1. setUps = 1 /\ life # "released"
  BY DEF DecodeOutside, CanCall, TypeOK, SetUpTypes
<1>2. PICK n \in Registered(producers) + 1 .. pools.producers : producers.first + n > queues.number
  BY DEF DecodeOutside
<1>3. producers.first = 0 /\ queues.number = pools.producers
  BY <1>1 DEF OneSetUp
<1>4. pools.producers \in Nat /\ producers.next \in Nat
  BY DEF TypeOK, SetUpTypes, CallTypes
<1> QED
  BY <1>2, <1>3, <1>4 DEF Registered

(* What a call registers under one set-up.                                 *)
LEMMA OneCall ==
  ASSUME TypeOK, OneSetUp, setUps = 1, Calling
  PROVE  /\ producers'.first = 0 /\ decoders'.first = 0
         /\ producers'.next <= pools.producers /\ decoders'.next <= pools.consumers
<1>1. life = "running"
  BY DEF Calling, DecodeDatablocks, CanCall
<1>2. /\ producers.first = 0 /\ decoders.first = 0
      /\ decoders.next <= pools.consumers /\ producers.next <= pools.producers
  BY <1>1 DEF OneSetUp
<1>3. /\ pools.producers \in Nat /\ pools.consumers \in Nat
      /\ producers \in [first : Nat, next : Nat] /\ decoders \in [first : Nat, next : Nat]
  BY DEF TypeOK, SetUpTypes, CallTypes
<1>4. producers'.first = 0 /\ producers'.next <= pools.producers
  <2>1. PICK n \in Registered(producers) .. pools.producers :
          producers' = [producers EXCEPT !.next = producers.first + n]
    BY DEF Calling, DecodeDatablocks
  <2> QED
    BY <1>2, <1>3, <2>1 DEF Registered
<1>5. decoders'.first = 0 /\ decoders'.next <= pools.consumers
  <2>1. PICK new \in 0 .. pools.consumers - Registered(decoders) :
          decoders' = [decoders EXCEPT !.next = @ + new]
    BY DEF Calling, DecodeDatablocks
  <2> QED
    BY <1>2, <1>3, <2>1 DEF Registered
<1> QED
  BY <1>4, <1>5

(* The first set-up makes one queue for each of its producers              *)
(* (BlockingQueueManager::getInstance); calls register its own threads.    *)
LEMMA OneSetUpIsPreserved == TypeOK /\ OneSetUp /\ [Next]_vars => OneSetUp'
<1> SUFFICES ASSUME TypeOK, OneSetUp, [Next]_vars PROVE OneSetUp'
  OBVIOUS
<1>1. setUps \in Nat
  BY DEF TypeOK, SetUpTypes
<1>2. CASE /\ UNCHANGED <<setUps, pools, queues, producers, decoders>>
           /\ life' = life \/ (life = "running" /\ life' = "thrown" /\ setUps > 0)
  BY <1>1, <1>2 DEF OneSetUp
<1>3. CASE SetUpRejected \/ DecodeThrows \/ UNCHANGED vars
  BY <1>2, <1>3 DEF SetUpRejected, DecodeThrows, CanCall, vars, threads
<1>4. ASSUME NEW n, Setter(n) PROVE OneSetUp'
  BY <1>2, <1>4, SettersKeepTheRest
<1>5. ASSUME NEW c \in collections, ReleaseAllDecodedRecords(c) PROVE OneSetUp'
  BY <1>2, <1>5 DEF ReleaseAllDecodedRecords, threads
<1>6. CASE ReleaseMemory
  BY <1>1, <1>6 DEF ReleaseMemory, OneSetUp
<1>7. CASE DecodeOutside
  <2>1. setUps' = setUps /\ setUps > 1
    BY <1>1, <1>7, NobodyOutside DEF DecodeOutside
  <2> QED
    BY <1>1, <2>1 DEF OneSetUp
<1>8. CASE Decode \/ PrintThrows
  <2>1. /\ UNCHANGED <<setUps, pools, queues>> /\ setUps > 0 /\ Calling
        /\ life' \in {"running", "thrown"} /\ life = "running"
    <3>1. life' = life \/ life' = "thrown"
      BY <1>8 DEF Decode, PrintThrows
    <3> QED
      BY <1>8, <3>1, CallsDecode
  <2>2. CASE setUps = 1
    BY <2>1, <2>2, OneCall DEF OneSetUp
  <2>3. CASE setUps > 1
    BY <1>1, <2>1, <2>3 DEF OneSetUp
  <2> QED
    BY <1>1, <2>1, <2>2, <2>3
<1>9. CASE SetUpAccepted
  <2>1. setUps' = setUps + 1 /\ life' = life /\ life = "running"
    BY <1>9 DEF SetUpAccepted
  <2>2. CASE setUps = 0
    <3>1. /\ pools = NoWorkers /\ queues = NoQueues /\ producers.first = 0 /\ decoders.first = 0
          /\ producers.next <= 0 /\ decoders.next <= 0 /\ life # "outside"
      BY <2>1, <2>2 DEF OneSetUp, NoWorkers
    <3>2. /\ queues' = QueuesFor(Chosen)
          /\ pools' = [producers |-> Chosen.producers, consumers |-> Chosen.consumers]
          /\ producers' = [producers EXCEPT !.first = producers.next]
          /\ decoders' = [decoders EXCEPT !.first = decoders.next]
      BY <1>9, <3>1 DEF SetUpAccepted
    <3>3. producers' = [first |-> 0, next |-> 0] /\ decoders' = [first |-> 0, next |-> 0]
      BY <3>1, <3>2 DEF TypeOK, CallTypes
    <3>4. /\ Chosen.producers \in Nat /\ Chosen.consumers \in Nat
          /\ 1 <= Chosen.producers /\ Chosen.producers <= Chosen.consumers
      BY <1>9, AcceptedNumbers DEF SetUpAccepted, TypeOK
    <3>5. queues'.number = pools'.producers
      BY <3>2 DEF QueuesFor
    <3> QED
      BY <2>1, <2>2, <3>1, <3>2, <3>3, <3>4, <3>5 DEF OneSetUp
  <2>3. CASE setUps > 0
    BY <1>1, <2>1, <2>3 DEF OneSetUp
  <2> QED
    BY <1>1, <2>2, <2>3
<1> QED
  BY <1>3, <1>4, <1>5, <1>6, <1>7, <1>8, <1>9, StepsOfTheLibrary

(* Any number of set-ups: the decoders of the last pool are registered one *)
(* after the other from its mark on, no more of them than it has workers,  *)
(* and there are queues as long as the codec lives.                        *)
WorkersRegister ==
  /\ decoders.first <= decoders.next /\ decoders.next <= decoders.first + pools.consumers
  /\ setUps > 0 /\ life # "released" => queues \in [number : Nat \ {0}, records : Nat \ {0}]

(* Nobody has registered at first.                                         *)
LEMMA InitialWorkers == Init => WorkersRegister
BY DEF Init, WorkersRegister, NoWorkers, Nobody

(* A number that comes after a multiple by less than the divisor is its    *)
(* own remainder.                                                          *)
LEMMA Remainder ==
  ASSUME NEW n \in Nat \ {0}, NEW p \in Int, NEW r \in Nat, r < n
  PROVE  (n * p + r) % n = r
OBVIOUS

(* Numbers that lie closer together than the divisor have remainders of    *)
(* their own (getObjectPoolForConsumer).                                   *)
LEMMA RemaindersDiffer ==
  ASSUME NEW n \in Nat \ {0}, NEW k \in Nat, NEW l \in Nat, k < l, l < k + n
  PROVE  k % n # l % n
<1>1. PICK p \in Int, r \in Nat : k = n * p + r /\ r < n /\ k % n = r
  <2>1. k \div n \in Int /\ k % n \in Nat /\ k = n * (k \div n) + (k % n) /\ k % n < n
    OBVIOUS
  <2> QED
    BY <2>1
<1> DEFINE d == l - k
           m == n * p
<1>2. d \in Nat /\ 0 < d /\ d < n /\ m \in Int
  BY <1>1
<1>3. CASE r + d < n
  <2>1. l = n * p + (r + d)
    BY <1>1, <1>2
  <2>2. l % n = r + d
    <3> HIDE DEF d
    <3> QED
      BY <1>1, <1>2, <1>3, <2>1, Remainder
  <2> QED
    BY <1>1, <1>2, <2>2
<1>4. CASE r + d >= n
  <2>1. l = n * (p + 1) + (r + d - n)
    <3>1. n * (p + 1) = n * p + n
      BY <1>1
    <3> QED
      BY <1>1, <3>1
  <2>2. l % n = r + d - n
    <3>1. r + d - n \in Nat /\ r + d - n < n /\ p + 1 \in Int
      BY <1>1, <1>2, <1>4
    <3> HIDE DEF d
    <3> QED
      BY <2>1, <3>1, Remainder
  <2> QED
    BY <1>1, <1>2, <2>2
<1> QED
  BY <1>1, <1>2, <1>3, <1>4

(* As many consecutive numbers as the divisor, or more, have all the       *)
(* remainders that there are.                                              *)
LEMMA RemaindersOfConsecutive ==
  ASSUME NEW n \in Nat \ {0}, NEW c \in Nat, n <= c, NEW first \in Nat
  PROVE  {k % n : k \in first .. first + c - 1} = 0 .. n - 1
<1>1. \A k \in first .. first + c - 1 : k % n \in 0 .. n - 1
  OBVIOUS
<1>2. ASSUME NEW q \in 0 .. n - 1
      PROVE  \E k \in first .. first + c - 1 : k % n = q
  <2>1. PICK p \in Int, r \in Nat : first = n * p + r /\ r < n
    <3>1. first \div n \in Int /\ first % n \in Nat
          /\ first = n * (first \div n) + (first % n) /\ first % n < n
      OBVIOUS
    <3> QED
      BY <3>1
  <2> DEFINE m == n * p
  <2>2. m \in Int /\ n * (p + 1) = m + n
    BY <2>1
  <2>3. CASE r <= q
    <3>1. (n * p + q) % n = q
      BY <1>2, Remainder
    <3>2. m + q \in first .. first + c - 1
      <4>1. first = m + r
        BY <2>1
      <4> HIDE DEF m
      <4> QED
        BY <1>2, <2>1, <2>2, <2>3, <4>1
    <3> QED
      BY <3>1, <3>2
  <2>4. CASE q < r
    <3>1. (n * (p + 1) + q) % n = q
      BY <1>2, <2>1, Remainder
    <3>2. m + n + q \in first .. first + c - 1
      <4>1. first = m + r
        BY <2>1
      <4> HIDE DEF m
      <4> QED
        BY <1>2, <2>1, <2>2, <2>4, <4>1
    <3> QED
      BY <2>2, <3>1, <3>2
  <2> QED
    BY <1>2, <2>1, <2>3, <2>4
<1> QED
  BY <1>1, <1>2

(* In any set-up a call is read by decoders of the last pool, and keeps    *)
(* them within it.                                                         *)
LEMMA ReadersAreWorkers ==
  ASSUME TypeOK, WorkersRegister, Calling
  PROVE  /\ decoders'.first = decoders.first /\ decoders.next <= decoders'.next
         /\ decoders'.next <= decoders.first + pools.consumers
         /\ readers' \subseteq decoders.first .. decoders.first + pools.consumers - 1
<1>1. /\ pools.consumers \in Nat /\ decoders.first \in Nat /\ decoders.next \in Nat
      /\ decoders \in [first : Nat, next : Nat]
      /\ decoders.first <= decoders.next /\ decoders.next <= decoders.first + pools.consumers
  BY DEF TypeOK, SetUpTypes, CallTypes, WorkersRegister
<1>2. PICK old \in SUBSET (decoders.first .. decoders.next - 1),
           new \in 0 .. pools.consumers - Registered(decoders) :
        /\ decoders' = [decoders EXCEPT !.next = @ + new]
        /\ readers' = old \union (decoders.next .. decoders.next + new - 1)
  BY DEF Calling, DecodeDatablocks
<1>3. decoders'.first = decoders.first /\ decoders'.next = decoders.next + new
  BY <1>1, <1>2
<1>4. new \in Nat /\ decoders.next + new <= decoders.first + pools.consumers
  BY <1>1, <1>2 DEF Registered
<1>5. readers' \subseteq decoders.first .. decoders.first + pools.consumers - 1
  BY <1>1, <1>2, <1>4
<1> QED
  BY <1>1, <1>3, <1>4, <1>5

(* Set-ups start a new pool where the old ones ended; calls fill it.       *)
LEMMA WorkersArePreserved == TypeOK /\ WorkersRegister /\ [Next]_vars => WorkersRegister'
<1> SUFFICES ASSUME TypeOK, WorkersRegister, [Next]_vars PROVE WorkersRegister'
  OBVIOUS
<1>1. CASE UNCHANGED <<setUps, pools, queues, decoders>> /\ (life = "released" => life' = "released")
  BY <1>1 DEF WorkersRegister
<1>2. CASE SetUpRejected \/ DecodeThrows \/ DecodeOutside \/ UNCHANGED vars
  BY <1>1, <1>2 DEF SetUpRejected, DecodeThrows, DecodeOutside, CanCall, vars, threads
<1>3. ASSUME NEW n, Setter(n) PROVE WorkersRegister'
  BY <1>1, <1>3, SettersKeepTheRest
<1>4. ASSUME NEW c \in collections, ReleaseAllDecodedRecords(c) PROVE WorkersRegister'
  BY <1>1, <1>4 DEF ReleaseAllDecodedRecords, threads
<1>5. CASE ReleaseMemory
  BY <1>5 DEF ReleaseMemory, WorkersRegister
<1>6. CASE Decode \/ PrintThrows
  <2>1. UNCHANGED <<setUps, pools, queues>> /\ Calling /\ life = "running"
    BY <1>6, CallsDecode
  <2>2. /\ decoders'.first = decoders.first /\ decoders.next <= decoders'.next
        /\ decoders'.next <= decoders.first + pools.consumers
    BY <2>1, ReadersAreWorkers
  <2>3. decoders.first \in Nat /\ decoders.next \in Nat /\ decoders'.next \in Nat
    BY CallTypesArePreserved DEF TypeOK, CallTypes
  <2> QED
    BY <2>1, <2>2, <2>3 DEF WorkersRegister
<1>7. CASE SetUpAccepted
  <2>1. /\ queues' = (IF queues = NoQueues THEN QueuesFor(Chosen) ELSE queues)
        /\ pools'.consumers = Chosen.consumers /\ Chosen.consumers \in Nat
        /\ decoders' = [decoders EXCEPT !.first = decoders.next]
        /\ QueuesFor(Chosen) \in [number : Nat \ {0}, records : Nat \ {0}]
    BY <1>7, AcceptedNumbers DEF SetUpAccepted, TypeOK
  <2>2. decoders'.first = decoders.next /\ decoders'.next = decoders.next /\ decoders.next \in Nat
    BY <2>1 DEF TypeOK, CallTypes
  <2>3. queues' \in [number : Nat \ {0}, records : Nat \ {0}]
    BY <2>1 DEF TypeOK, SetUpTypes
  <2> QED
    BY <2>1, <2>2, <2>3 DEF WorkersRegister
<1> QED
  BY <1>2, <1>3, <1>4, <1>5, <1>6, <1>7, StepsOfTheLibrary

(* The queues that a call reads, in any set-up.                            *)
LEMMA QueuesOfACall ==
  ASSUME TypeOK, WorkersRegister, Calling
  PROVE  /\ Cardinality(readers') = pools.consumers /\ queues.number <= pools.consumers
              => {QueueOfDecoder(k) : k \in readers'} = 0 .. queues.number - 1
         /\ pools.consumers <= queues.number
              => \A k, l \in readers' : k # l => QueueOfDecoder(k) # QueueOfDecoder(l)
<1> DEFINE F == decoders.first
           C == pools.consumers
           N == queues.number
           I == F .. F + C - 1
<1>1. F \in Nat /\ C \in Nat /\ N \in Nat \ {0}
  BY DEF TypeOK, SetUpTypes, CallTypes, WorkersRegister, Calling, DecodeDatablocks, CanCall
<1>2. readers' \subseteq I
  BY ReadersAreWorkers
<1>3. ASSUME Cardinality(readers') = C, N <= C
      PROVE  {QueueOfDecoder(k) : k \in readers'} = 0 .. N - 1
  <2>1. IsFiniteSet(I) /\ Cardinality(I) = C
    <3> DEFINE b == F + C - 1
    <3>1. b \in Int /\ (IF F > b THEN 0 ELSE b - F + 1) = C
      BY <1>1
    <3>2. F \in Int
      BY <1>1
    <3> HIDE DEF b, C, F
    <3>3. IsFiniteSet(F .. b) /\ Cardinality(F .. b) = (IF F > b THEN 0 ELSE b - F + 1)
      BY <3>1, <3>2, FS_Interval
    <3> QED
      BY <3>1, <3>3 DEF b
  <2>2. readers' = I
    <3> HIDE DEF I, C
    <3> QED
      BY <1>2, <1>3, <2>1, FS_Subset
  <2>3. {k % N : k \in I} = 0 .. N - 1
    <3> HIDE DEF F, C, N
    <3> QED
      BY <1>1, <1>3, RemaindersOfConsecutive
  <2> QED
    BY <2>2, <2>3 DEF QueueOfDecoder
<1>4. ASSUME C <= N, NEW k \in readers', NEW l \in readers', k # l
      PROVE  QueueOfDecoder(k) # QueueOfDecoder(l)
  <2>1. k \in I /\ l \in I
    BY <1>2, <1>4
  <2> HIDE DEF F, C, N
  <2>2. k \in Nat /\ l \in Nat /\ ((k < l /\ l < k + N) \/ (l < k /\ k < l + N))
    BY <1>1, <1>4, <2>1
  <2>3. k % N # l % N
    BY <1>1, <2>2, RemaindersDiffer
  <2> QED
    BY <2>3 DEF N, QueueOfDecoder
<1> QED
  BY <1>3, <1>4

(* No producer of a first set-up asks for a queue that is not there; and   *)
(* in any set-up, for every number of workers and queues, the workers      *)
(* share the queues out: all of them read every queue, and no two read the *)
(* same one unless they are more (getObjectPoolForConsumer).               *)
THEOREM WorkersShareTheQueues == Spec => QueuesAreSharedOut
<1> DEFINE Shared ==
             /\ life' = "outside" => setUps > 1
             /\ calls' > calls =>
                  /\ Cardinality(readers') = pools.consumers /\ queues.number <= pools.consumers
                       => {QueueOfDecoder(k) : k \in readers'} = 0 .. queues.number - 1
                  /\ pools.consumers <= queues.number
                       => \A k, l \in readers' : k # l => QueueOfDecoder(k) # QueueOfDecoder(l)
<1>1. TypeOK /\ OneSetUp /\ WorkersRegister /\ [Next]_vars => [Shared]_vars
  <2> SUFFICES ASSUME TypeOK, OneSetUp, WorkersRegister, Next PROVE Shared
    OBVIOUS
  <2>1. life' = "outside" => setUps > 1
    <3>1. OneSetUp' /\ TypeOK
      BY OneSetUpIsPreserved
    <3>2. life' = "outside" => setUps' > 1 /\ setUps' \in Nat
      BY <3>1, SetUpTypesArePreserved DEF OneSetUp, TypeOK, SetUpTypes
    <3>3. life' = "outside" => DecodeOutside
      <4>1. CASE \/ SetUpRejected \/ SetUpAccepted \/ Decode \/ PrintThrows \/ DecodeThrows
                 \/ ReleaseMemory \/ \E c \in collections : ReleaseAllDecodedRecords(c)
        BY <4>1 DEF SetUpRejected, SetUpAccepted, Decode, PrintThrows, DecodeDatablocks,
           DecodeThrows, CanCall, ReleaseMemory, ReleaseAllDecodedRecords
      <4>2. CASE \E n \in Nat : Setter(n)
        BY <4>2, SettersKeepTheRest
      <4> QED
        BY <4>1, <4>2, StepsOfTheLibrary
    <3> QED
      BY <3>2, <3>3 DEF DecodeOutside
  <2>2. ASSUME calls' > calls PROVE Calling
    <3>1. calls' # calls
      BY <2>2 DEF TypeOK, CallTypes
    <3>2. Decode \/ PrintThrows
      <4>1. CASE \/ SetUpRejected \/ SetUpAccepted \/ DecodeThrows \/ DecodeOutside
                 \/ ReleaseMemory \/ \E c \in collections : ReleaseAllDecodedRecords(c)
        BY <3>1, <4>1 DEF SetUpRejected, SetUpAccepted, DecodeThrows, DecodeOutside,
           ReleaseMemory, ReleaseAllDecodedRecords
      <4>2. CASE \E n \in Nat : Setter(n)
        BY <3>1, <4>2, SettersKeepTheRest
      <4> QED
        BY <4>1, <4>2, StepsOfTheLibrary
    <3> QED
      BY <3>2, CallsDecode
  <2> QED
    BY <2>1, <2>2, QueuesOfACall
<1> QED
  BY <1>1, TypeCorrect, InitialSetUp, OneSetUpIsPreserved, InitialWorkers, WorkersArePreserved, PTL
     DEF Spec, QueuesAreSharedOut

------------------------------------------------------------------------------
(* The application of client_app keeps to the protocol of the library, for *)
(* every command line: main releases what it decodes before it decodes     *)
(* again, and ends with everything reported and released.                  *)

(* Where main is before its set-up, and after it until it ends.            *)
Passing == {"total", "producer", "consumer", "encoder", "pool"}
BeforeSetUp == Passing \cup {"arguments", "load", "serialize", "setUp"}
Holding == {"lookUp", "encode", "release"}
AfterSetUp == Holding \cup {"file", "single", "datablock", "decode", "report", "memory"}

(* The library as main left it; an exception of the JSON output ends main. *)
PrintingThrew == step = "end" /\ life = "thrown" /\ "json" \in option.outputs
LibraryInStep ==
  /\ step # "other" =>
       ~early /\ setUps <= 1 /\ (life \in {"running", "released"} \/ PrintingThrew)
  /\ step \in BeforeSetUp => setUps = 0 /\ managers = <<>>
  /\ step \in AfterSetUp =>
       setUps = 1 /\ (managers = <<>> \/ DOMAIN managers = 1 .. config.consumers)
  /\ step \in BeforeSetUp \cup AfterSetUp => life = "running"
  /\ step \in (BeforeSetUp \cup AfterSetUp) \ Holding => collections = {}
  /\ step \in Holding => collections = {decodedRecords}

(* Encoding one record, main sets the library up with the numbers it was   *)
(* made with, which divide each other.                                     *)
StatusInStep ==
  /\ step \in Passing => ~option.encode
  /\ step = "arguments" \/ (step \in {"load", "serialize", "setUp"} /\ option.encode) =>
       config.producers = 1 /\ config.consumers = 1 /\ ~isTotalNumberSetted
  /\ step = "single" => status = "SUCCESS"

(* What is reported is on disk from the report on.                         *)
LogOnDisk == disk["log"] = IF failed THEN "this" ELSE "nothing"
ReportInStep ==
  /\ failures \in BOOLEAN /\ failed \in BOOLEAN
  /\ step \in (BeforeSetUp \cup AfterSetUp) \ {"memory"} => failures = failed
  /\ step = "memory" => LogOnDisk
  /\ NothingUnreported

(* The files that a decoding or encoding call writes were emptied, but for *)
(* the text files when JSON files are wanted too.                          *)
Fresh(f) == disk[f] \in {"nothing", "this"}
FilesInStep ==
  /\ disk \in [Files -> {"nothing", "earlier", "this", "both"}]
  /\ option \in CommandLines \cup {NoOptions}
  /\ step \in BeforeSetUp => \A f \in Files : disk[f] # "both"
  /\ step \in AfterSetUp =>
       /\ "json" \in option.outputs => Fresh("json")
       /\ "dump" \in option.outputs /\ "json" \notin option.outputs => Fresh("txt")
       /\ "ast" \in option.outputs => Fresh("ast")
  /\ OutputsOfThisRun

MainInStep == LibraryInStep /\ StatusInStep /\ ReportInStep /\ FilesInStep
InStep == TypeOK /\ OneSetUp /\ MainInStep

Options ==
  [file : BOOLEAN, encode : BOOLEAN, encoder_off : BOOLEAN, serialize : BOOLEAN,
   outputs : SUBSET {"json", "dump", "ast"},
   total : Nat, producer : Nat, consumer : Nat, encoder : Nat, pool : Nat]

(* A line of the command line has the options of the program.              *)
LEMMA OptionTypes ==
  ASSUME NEW line \in CommandLines \cup {NoOptions}
  PROVE  line \in Options
<1>1. NoOptions \in Options
  <2>1. {} \in SUBSET {"json", "dump", "ast"}
    OBVIOUS
  <2> QED
    BY <2>1, Zenon DEF NoOptions, Options
<1> QED
  BY <1>1, CommandLinesAssumption DEF Options

(* Before main runs, nothing is set up and no file was written by this run.*)
LEMMA InitialStep == ClientInit => InStep
<1> SUFFICES ASSUME ClientInit PROVE InStep
  OBVIOUS
<1>1. TypeOK /\ OneSetUp
  BY InitialTypes, InitialSetUp DEF ClientInit
<1>2. step \in {"other", "arguments"} /\ option = NoOptions /\ status = "SUCCESS" /\ failures = FALSE
      /\ failed = FALSE
  BY DEF ClientInit
<1>3. /\ life = "running" /\ setUps = 0 /\ managers = <<>> /\ collections = {} /\ ~early
      /\ config.producers = 1 /\ config.consumers = 1 /\ ~isTotalNumberSetted
  BY DEF ClientInit, Init
<1>4. disk \in [Files -> {"nothing", "earlier"}]
  BY DEF ClientInit
<1>5. LibraryInStep
  BY <1>2, <1>3 DEF LibraryInStep, BeforeSetUp, AfterSetUp, Holding, Passing
<1>6. StatusInStep
  BY <1>2, <1>3 DEF StatusInStep, Passing
<1>7. ReportInStep
  BY <1>2 DEF ReportInStep, NothingUnreported, AfterSetUp, BeforeSetUp, Passing, Holding
<1>8. FilesInStep
  BY <1>2, <1>4 DEF FilesInStep, OutputsOfThisRun, AfterSetUp, Holding, Files
<1> QED
  BY <1>1, <1>5, <1>6, <1>7, <1>8 DEF InStep, MainInStep

(* A setter keeps the library fit for its calls, whatever the number.      *)
LEMMA SettersKeepTheLibrary ==
  ASSUME TypeOK, OneSetUp, NEW n \in Nat, Setter(n)
  PROVE  TypeOK' /\ OneSetUp'
<1>1. SetUpTypes' /\ CallTypes' /\ ManagerTypes'
  BY SettersKeepTypes, SettersKeepTheRest DEF TypeOK, CallTypes, ManagerTypes
<1>2. isTotalNumberSetted' \in BOOLEAN
  BY Zenon DEF TypeOK, FlagTypes, Setter, SetNumberOfProducerThreads, SetNumberOfConsumerThreads,
     SetTotalNumberOfThreads, SetObjectPoolNumber, Set
<1>3. FlagTypes'
  BY <1>2, SettersKeepTheRest DEF TypeOK, FlagTypes
<1>4. OneSetUp'
  BY SettersKeepTheRest DEF OneSetUp
<1> QED
  BY <1>1, <1>3, <1>4 DEF TypeOK

(* What a step of main does with the library is a step of the library, or  *)
(* the call of a setter with a number of the command line, or nothing.     *)
LEMMA MainUsesTheLibrary ==
  ASSUME InStep, ClientNext
  PROVE  UNCHANGED vars \/ Next \/ \E n \in Nat : Setter(n)
<1>1. option \in Options
  BY OptionTypes DEF InStep, MainInStep, FilesInStep
<1>2. CASE OtherProgram
  BY <1>2 DEF OtherProgram
<1>3. CASE SetParameters
  BY <1>1, <1>3 DEF SetParameters, Pass, Setter, Options
<1>4. CASE SetUpEnvironment
  BY <1>4 DEF SetUpEnvironment, Next
<1>5. CASE DecodeAndEncodeAsterixFile \/ DecodeAndEncodeFromOtherSource
  BY <1>5 DEF DecodeAndEncodeAsterixFile, DecodeAndEncodeFromOtherSource, LoadSourceFile,
     DecodeBatch, LookUpValues, Next
<1>6. CASE ReleaseBatch
  <2>1. decodedRecords \in collections
    BY <1>6 DEF ReleaseBatch, InStep, MainInStep, LibraryInStep, Holding
  <2> QED
    BY <1>6, <2>1 DEF ReleaseBatch, Next
<1>7. CASE EndApplication
  BY <1>7 DEF EndApplication, Next
<1>8. CASE \/ ReadCommandLineArgs \/ LoadAsterixConfiguration \/ SerializeAsterixConfiguration
           \/ EncodeRecords \/ EncodeSingleRecord \/ SaveReport
  BY <1>8 DEF ReadCommandLineArgs, LoadAsterixConfiguration, SerializeAsterixConfiguration,
     EncodeRecords, EncodeSingleRecord, SaveReport
<1> QED
  BY <1>2, <1>3, <1>4, <1>5, <1>6, <1>7, <1>8 DEF ClientNext

(* So the library stays fit for its calls.                                 *)
LEMMA TheLibraryIsKept ==
  ASSUME InStep, ClientNext
  PROVE  TypeOK' /\ OneSetUp'
<1>1. TypeOK /\ OneSetUp
  BY DEF InStep
<1>2. CASE UNCHANGED vars \/ Next
  <2>1. [Next]_vars
    BY <1>2
  <2> QED
    BY <1>1, <2>1, SetUpTypesArePreserved, CallTypesArePreserved, ManagerTypesArePreserved,
       FlagTypesArePreserved, OneSetUpIsPreserved DEF TypeOK
<1>3. CASE \E n \in Nat : Setter(n)
  BY <1>1, <1>3, SettersKeepTheLibrary
<1> QED
  BY <1>2, <1>3, MainUsesTheLibrary

(* Another program changes neither the steps of main nor the files.        *)
LEMMA OtherProgramInStep ==
  ASSUME InStep, OtherProgram
  PROVE  MainInStep'
<1>1. step = "other" /\ UNCHANGED clientVars
  BY DEF OtherProgram
<1>2. step' = step /\ option' = option /\ disk' = disk /\ failed' = failed
  BY <1>1 DEF clientVars, reporting
<1>3. LibraryInStep' /\ StatusInStep' /\ ReportInStep'
  <2>1. failures \in BOOLEAN /\ failed \in BOOLEAN /\ failures' = failures
    BY <1>1 DEF InStep, MainInStep, ReportInStep, clientVars, reporting
  <2> QED
    BY <1>1, <1>2, <2>1 DEF LibraryInStep, StatusInStep, ReportInStep, NothingUnreported, BeforeSetUp,
       AfterSetUp, Passing, Holding
<1>4. FilesInStep'
  BY <1>1, <1>2 DEF InStep, MainInStep, FilesInStep, OutputsOfThisRun, BeforeSetUp, AfterSetUp, Holding, Passing
<1> QED
  BY <1>3, <1>4 DEF MainInStep

(* Reading the command line: with --encode no number is passed on.         *)
LEMMA ReadInStep ==
  ASSUME InStep, ReadCommandLineArgs
  PROVE  MainInStep'
<1>1. /\ step = "arguments" /\ UNCHANGED vars /\ decodedRecords' = decodedRecords
      /\ failures' = failures /\ failed' = failed /\ disk' = disk
  BY DEF ReadCommandLineArgs, reporting
<1>2. \/ step' = "end" /\ option' = option
      \/ option' \in CommandLines /\ (step' = IF option'.encode THEN "load" ELSE "total")
  BY DEF ReadCommandLineArgs, AfterArguments
<1>3. step' \in {"end", "load", "total"}
  BY <1>2
<1>4. LibraryInStep'
  BY <1>1, <1>3 DEF InStep, MainInStep, LibraryInStep, BeforeSetUp, AfterSetUp, Passing, Holding, vars
<1>5. StatusInStep'
  BY <1>1, <1>2 DEF InStep, MainInStep, StatusInStep, Passing, vars
<1>6. ReportInStep'
  <2>1. failures = failed /\ setUps = 0 /\ failures \in BOOLEAN
    BY <1>1 DEF InStep, MainInStep, ReportInStep, LibraryInStep, BeforeSetUp
  <2> QED
    BY <1>1, <1>3, <2>1 DEF ReportInStep, NothingUnreported, vars
<1>7. FilesInStep'
  <2>1. /\ disk \in [Files -> {"nothing", "earlier", "this", "both"}]
        /\ option \in CommandLines \cup {NoOptions}
        /\ OutputsOfThisRun
    BY DEF InStep, MainInStep, FilesInStep
  <2>2. \A f \in Files : disk[f] # "both"
    BY <1>1 DEF InStep, MainInStep, FilesInStep, BeforeSetUp
  <2> QED
    BY <1>1, <1>2, <1>3, <2>1, <2>2 DEF FilesInStep, OutputsOfThisRun, BeforeSetUp, AfterSetUp, Holding, Passing
<1> QED
  BY <1>4, <1>5, <1>6, <1>7 DEF MainInStep

(* The setters that main calls, one after the other.                       *)
LEMMA PassInStep ==
  ASSUME InStep, SetParameters
  PROVE  MainInStep'
<1>1. /\ step \in Passing /\ step' \in Passing \cup {"load"}
      /\ UNCHANGED <<option, status, decodedRecords, reporting, disk>>
  BY DEF SetParameters, Pass, Passing
<1>2. UNCHANGED <<managers, collections, life, setUps, early>>
  <2>1. UNCHANGED vars \/ \E n : Setter(n)
    BY DEF SetParameters, Pass, Setter
  <2> QED
    BY <2>1, SettersKeepTheRest DEF vars
<1>3. LibraryInStep'
  BY <1>1, <1>2 DEF InStep, MainInStep, LibraryInStep, BeforeSetUp, AfterSetUp, Passing, Holding
<1>4. StatusInStep'
  <2>1. ~option.encode
    BY <1>1 DEF InStep, MainInStep, StatusInStep
  <2> QED
    BY <1>1, <2>1 DEF StatusInStep, Passing
<1>5. ReportInStep'
  <2>1. failures = failed /\ failures \in BOOLEAN
    BY <1>1 DEF InStep, MainInStep, ReportInStep, BeforeSetUp, Passing
  <2> QED
    BY <1>1, <2>1 DEF ReportInStep, NothingUnreported, reporting, Passing
<1>6. FilesInStep'
  BY <1>1 DEF InStep, MainInStep, FilesInStep, OutputsOfThisRun, BeforeSetUp, AfterSetUp, Holding, Passing, Fresh
<1> QED
  BY <1>3, <1>4, <1>5, <1>6 DEF MainInStep

(* Loading and archiving: main goes on or ends, and the library is as new. *)
LEMMA LoadInStep ==
  ASSUME InStep, LoadAsterixConfiguration \/ SerializeAsterixConfiguration
  PROVE  MainInStep'
<1>1. /\ step \in {"load", "serialize"} /\ step' \in {"end", "serialize", "setUp"}
      /\ UNCHANGED <<vars, option, isSingleNumberSetted, decodedRecords, reporting, disk>>
  BY DEF LoadAsterixConfiguration, SerializeAsterixConfiguration, LoadOutcomes, ArchiveOutcomes
<1>2. LibraryInStep'
  BY <1>1 DEF InStep, MainInStep, LibraryInStep, BeforeSetUp, AfterSetUp, Passing, Holding, vars
<1>3. StatusInStep'
  BY <1>1 DEF InStep, MainInStep, StatusInStep, Passing, vars
<1>4. ReportInStep'
  <2>1. failures = failed /\ setUps = 0 /\ failures \in BOOLEAN
    BY <1>1 DEF InStep, MainInStep, ReportInStep, LibraryInStep, BeforeSetUp
  <2> QED
    BY <1>1, <2>1 DEF ReportInStep, NothingUnreported, vars, reporting
<1>5. FilesInStep'
  BY <1>1 DEF InStep, MainInStep, FilesInStep, OutputsOfThisRun, BeforeSetUp, AfterSetUp, Holding, Passing
<1> QED
  BY <1>2, <1>3, <1>4, <1>5 DEF MainInStep

(* The numbers that the library is made with divide each other: a set-up   *)
(* with them does not warn of the speed.                                   *)
LEMMA MadeWithoutWarning ==
  ASSUME TypeOK, config.producers = 1, config.consumers = 1, ~isTotalNumberSetted
  PROVE  SetUpStatus = "SUCCESS"
<1>1. Completed.producers = 1 /\ Completed.consumers = 1
  BY DEF Completed, AtLeastOne, TypeOK, SetUpTypes
<1>2. Completed \in [total : Nat, producers : Nat, consumers : Nat, preallocated : Nat]
  BY DEF Completed, AtLeastOne, TypeOK, SetUpTypes
<1>3. Chosen.producers = 1 /\ Chosen.consumers = 1
  BY <1>1, <1>2 DEF Chosen, Wanted, Raised
<1> QED
  BY <1>3 DEF SetUpStatus

(* The set-up empties what the calls after it will write.                  *)
LEMMA SetUpInStep ==
  ASSUME InStep, SetUpEnvironment
  PROVE  MainInStep'
<1>1. /\ step = "setUp" /\ UNCHANGED <<option, decodedRecords, failures, failed>>
      /\ life' = life /\ managers' = managers /\ collections' = collections /\ early' = early
  BY DEF SetUpEnvironment, SetUpRejected, SetUpAccepted, values, reporting
<1>2. /\ setUps = 0 /\ managers = <<>> /\ life = "running" /\ collections = {} /\ ~early
      /\ failures = failed /\ failures \in BOOLEAN
      /\ option.encode => config.producers = 1 /\ config.consumers = 1 /\ ~isTotalNumberSetted
  BY <1>1 DEF InStep, MainInStep, LibraryInStep, ReportInStep, StatusInStep, BeforeSetUp, AfterSetUp,
     Holding, Passing
<1>3. /\ disk \in [Files -> {"nothing", "earlier", "this", "both"}]
      /\ option \in CommandLines \cup {NoOptions}
      /\ \A f \in Files : disk[f] # "both"
  BY <1>1 DEF InStep, MainInStep, FilesInStep, BeforeSetUp
<1>4. option \in Options
  BY <1>3, OptionTypes
<1>5. CASE SetUpRejected /\ status' = "CRITICAL_PARAMETERS" /\ step' = "end" /\ disk' = disk
  <2>1. setUps' = 0
    BY <1>2, <1>5 DEF SetUpRejected
  <2>2. LibraryInStep' /\ StatusInStep' /\ ReportInStep'
    BY <1>1, <1>2, <1>5, <2>1 DEF LibraryInStep, StatusInStep, ReportInStep, NothingUnreported,
       BeforeSetUp, AfterSetUp, Passing, Holding
  <2>3. FilesInStep'
    BY <1>1, <1>3, <1>5 DEF FilesInStep, OutputsOfThisRun, BeforeSetUp, AfterSetUp, Passing, Holding
  <2> QED
    BY <2>2, <2>3 DEF MainInStep
<1>6. CASE /\ SetUpAccepted /\ status' = SetUpStatus /\ step' = Source
           /\ disk' = [f \in Files |-> IF f \in Emptied THEN "nothing" ELSE disk[f]]
  <2>1. setUps' = 1
    BY <1>2, <1>6 DEF SetUpAccepted
  <2>2. /\ step' \in {"file", "single", "datablock"}
        /\ step' = "single" => option.encode
    BY <1>4, <1>6 DEF Source, Options
  <2>3. LibraryInStep'
    BY <1>1, <1>2, <2>1, <2>2 DEF LibraryInStep, BeforeSetUp, AfterSetUp, Passing, Holding
  <2>4. StatusInStep'
    <3>1. option.encode => SetUpStatus = "SUCCESS"
      BY <1>2, MadeWithoutWarning DEF InStep
    <3> QED
      BY <1>6, <2>2, <3>1 DEF StatusInStep, Passing
  <2>5. ReportInStep'
    BY <1>1, <1>2, <2>2 DEF ReportInStep, NothingUnreported, BeforeSetUp, AfterSetUp, Passing, Holding
  <2>6. FilesInStep'
    <3>1. /\ disk' \in [Files -> {"nothing", "earlier", "this", "both"}]
          /\ \A f \in Files : disk'[f] # "both"
      BY <1>3, <1>6
    <3>2. /\ "json" \in option.outputs => disk'["json"] = "nothing"
          /\ "dump" \in option.outputs /\ "json" \notin option.outputs => disk'["txt"] = "nothing"
          /\ "ast" \in option.outputs => disk'["ast"] = "nothing"
      BY <1>6 DEF Emptied, Files
    <3> QED
      BY <1>1, <1>3, <2>2, <3>1, <3>2 DEF FilesInStep, Fresh, OutputsOfThisRun, BeforeSetUp, AfterSetUp,
         Passing, Holding
  <2> QED
    BY <2>3, <2>4, <2>5, <2>6 DEF MainInStep
<1> QED
  BY <1>5, <1>6 DEF SetUpEnvironment

(* No decoding call of main runs out of its managers or of its queues.     *)
LEMMA MainNeverThrows ==
  ASSUME InStep, step \in AfterSetUp
  PROVE  ~DecodeThrows /\ ~DecodeOutside
<1>1. TypeOK /\ OneSetUp /\ setUps <= 1 /\ (managers = <<>> \/ DOMAIN managers = 1 .. config.consumers)
  BY DEF InStep, MainInStep, LibraryInStep, AfterSetUp, Holding
<1>2. config.consumers \in Nat /\ managers \in Seq([Kinds -> Nat])
  BY <1>1 DEF TypeOK, SetUpTypes, ManagerTypes
<1>3. config.consumers <= Len(ManagersForCall)
  <2>1. CASE managers = <<>>
    <3>1. Len([i \in 1 .. config.consumers |-> EmptyPools]) = config.consumers
      BY <1>2
    <3> QED
      BY <1>2, <2>1, <3>1 DEF ManagersForCall
  <2>2. CASE managers # <<>>
    <3>1. 1 .. Len(managers) = 1 .. config.consumers /\ Len(managers) \in Nat
      BY <1>1, <1>2, <2>2
    <3>2. Len(managers) = config.consumers
      BY <1>2, <3>1
    <3> QED
      BY <1>2, <2>2, <3>2 DEF ManagersForCall
  <2> QED
    BY <2>1, <2>2
<1>4. Len(ManagersForCall) \in Nat
  BY <1>1, PoolsForACall, LenProperties
<1> QED
  BY <1>1, <1>2, <1>3, <1>4, NobodyOutside DEF DecodeThrows

(* What the set-up leaves to the steps after it.                           *)
LEMMA AfterTheSetUp ==
  ASSUME InStep, step \in AfterSetUp
  PROVE  /\ ~early /\ setUps = 1 /\ life = "running"
         /\ managers = <<>> \/ DOMAIN managers = 1 .. config.consumers
         /\ disk \in [Files -> {"nothing", "earlier", "this", "both"}]
         /\ option \in CommandLines \cup {NoOptions}
         /\ "json" \in option.outputs => Fresh("json")
         /\ "dump" \in option.outputs /\ "json" \notin option.outputs => Fresh("txt")
         /\ "ast" \in option.outputs => Fresh("ast")
         /\ OutputsOfThisRun
         /\ step \notin Holding => collections = {}
         /\ step \in Holding => collections = {decodedRecords}
         /\ failures \in BOOLEAN /\ failed \in BOOLEAN
         /\ step # "memory" => failures = failed
<1>1. LibraryInStep /\ ReportInStep /\ FilesInStep
  BY DEF InStep, MainInStep
<1>2. /\ disk \in [Files -> {"nothing", "earlier", "this", "both"}]
      /\ option \in CommandLines \cup {NoOptions}
      /\ "json" \in option.outputs => Fresh("json")
      /\ "dump" \in option.outputs /\ "json" \notin option.outputs => Fresh("txt")
      /\ "ast" \in option.outputs => Fresh("ast")
      /\ OutputsOfThisRun
  BY <1>1 DEF FilesInStep
<1>3. /\ ~early /\ setUps = 1 /\ life = "running"
      /\ managers = <<>> \/ DOMAIN managers = 1 .. config.consumers
      /\ step \notin Holding => collections = {}
      /\ step \in Holding => collections = {decodedRecords}
  BY <1>1 DEF LibraryInStep, AfterSetUp, Holding
<1>4. /\ failures \in BOOLEAN /\ failed \in BOOLEAN
      /\ step # "memory" => failures = failed
  BY <1>1 DEF ReportInStep
<1> QED
  BY <1>2, <1>3, <1>4

(* A file that is written after it was emptied holds results of this run   *)
(* only; the text files alone may have been kept.                          *)
LEMMA WrittenFiles ==
  ASSUME InStep, step \in AfterSetUp, option' = option, step' \in AfterSetUp \cup {"end"},
         disk' \in {disk, Dumped, Decoded, Encoded}
  PROVE  FilesInStep' /\ disk'["log"] = disk["log"]
<1>1. /\ disk \in [Files -> {"nothing", "earlier", "this", "both"}]
      /\ option \in CommandLines \cup {NoOptions}
      /\ "json" \in option.outputs => Fresh("json")
      /\ "dump" \in option.outputs /\ "json" \notin option.outputs => Fresh("txt")
      /\ "ast" \in option.outputs => Fresh("ast")
      /\ OutputsOfThisRun
  BY AfterTheSetUp
<1> DEFINE App(v) == IF v \in {"earlier", "both"} THEN "both" ELSE "this"
           Written(f) == \/ disk'[f] = disk[f]
                         \/ /\ disk'[f] = App(disk[f])
                            /\ \/ f = "txt" /\ "dump" \in option.outputs
                               \/ f = "json" /\ "json" \in option.outputs
                               \/ f = "ast" /\ "ast" \in option.outputs
<1>2. ASSUME NEW f \in Files PROVE Appended(f) = [disk EXCEPT ![f] = App(disk[f])]
  BY <1>1 DEF Appended
<1>3. disk' \in [Files -> {"nothing", "earlier", "this", "both"}] /\ \A f \in Files : Written(f)
  <2>1. CASE disk' = disk
    BY <1>1, <2>1
  <2>2. CASE disk' = Encoded
    <3>1. CASE "ast" \in option.outputs
      <4>1. disk' = [disk EXCEPT !["ast"] = App(disk["ast"])]
        BY <1>2, <2>2, <3>1 DEF Encoded, Files
      <4> QED
        BY <1>1, <3>1, <4>1 DEF Files
    <3>2. CASE "ast" \notin option.outputs
      BY <1>1, <2>2, <3>2 DEF Encoded
    <3> QED
      BY <3>1, <3>2
  <2>3. /\ Dumped \in [Files -> {"nothing", "earlier", "this", "both"}]
        /\ \A f \in Files : Dumped[f] = disk[f]
                             \/ (f = "txt" /\ "dump" \in option.outputs /\ Dumped[f] = App(disk[f]))
    <3>1. Dumped = IF "dump" \in option.outputs THEN [disk EXCEPT !["txt"] = App(disk["txt"])]
                   ELSE disk
      BY <1>2 DEF Dumped, Files
    <3> QED
      BY <1>1, <3>1 DEF Files
  <2>4. CASE disk' = Dumped
    BY <2>3, <2>4
  <2>5. CASE disk' = Decoded
    <3>1. Appended("json")["json"] = App(disk["json"])
      BY <1>1, <1>2 DEF Files
    <3>2. disk' = IF "json" \in option.outputs THEN [Dumped EXCEPT !["json"] = App(disk["json"])]
                  ELSE Dumped
      BY <2>5, <3>1 DEF Decoded
    <3> QED
      BY <1>1, <2>3, <3>2 DEF Files
  <2> QED
    BY <2>1, <2>2, <2>4, <2>5
<1>4. ASSUME NEW f \in Files, Fresh(f) PROVE Fresh(f)'
  BY <1>1, <1>3, <1>4 DEF Fresh
<1>5. OutputsOfThisRun'
  <2> SUFFICES ASSUME NEW f \in Files, disk'[f] = "both"
               PROVE  f = "txt" /\ {"json", "dump"} \subseteq option.outputs
    BY DEF OutputsOfThisRun
  <2>1. ~Fresh(f)
    BY <1>4 DEF Fresh
  <2>2. CASE disk[f] = "both"
    BY <1>1, <2>2 DEF OutputsOfThisRun
  <2>3. CASE disk[f] # "both"
    BY <1>1, <1>3, <2>1, <2>3
  <2> QED
    BY <2>2, <2>3
<1>6. /\ "json" \in option.outputs => Fresh("json")'
      /\ "dump" \in option.outputs /\ "json" \notin option.outputs => Fresh("txt")'
      /\ "ast" \in option.outputs => Fresh("ast")'
  BY <1>1, <1>4 DEF Files
<1>7. step' \notin BeforeSetUp
  BY DEF BeforeSetUp, AfterSetUp, Passing, Holding
<1>8. disk'["log"] = disk["log"]
  BY <1>3 DEF Files
<1> QED
  BY <1>1, <1>3, <1>5, <1>6, <1>7, <1>8 DEF FilesInStep

(* The report and the mark of a failure agree until the report is saved.   *)
LEMMA MayFailKeepsTheMarks ==
  ASSUME MayFail, failures = failed, failures \in BOOLEAN
  PROVE  failures' = failed' /\ failures' \in BOOLEAN
<1>1. CASE failures' = TRUE
  BY <1>1 DEF MayFail
<1>2. CASE failures' = failures
  BY <1>2 DEF MayFail
<1> QED
  BY <1>1, <1>2 DEF MayFail

(* A decoding call of main: its collection is the only one, or the JSON    *)
(* output throws and ends main.                                            *)
LEMMA DecodeInStep ==
  ASSUME InStep, NEW from, NEW to, DecodeBatch(from, to),
         from \in {"decode", "datablock"}, to \in {"release", "encode", "lookUp"}
  PROVE  MainInStep'
<1>1. step = from /\ step \in AfterSetUp \ (Holding \cup {"memory"})
  BY DEF DecodeBatch, AfterSetUp, Holding
<1>2. /\ option' = option /\ MayFail
      /\ \/ /\ Decode /\ step' = to /\ disk' = Decoded
            /\ decodedRecords' \in collections' \ collections
         \/ /\ "json" \in option.outputs /\ PrintThrows /\ step' = "end" /\ disk' = Dumped
            /\ decodedRecords' = decodedRecords
  BY <1>1, MainNeverThrows DEF DecodeBatch, Keep
<1>3. /\ life = "running" /\ setUps = 1 /\ collections = {} /\ ~early
      /\ failures = failed /\ failures \in BOOLEAN
      /\ managers = <<>> \/ DOMAIN managers = 1 .. config.consumers
  BY <1>1, AfterTheSetUp
<1>4. setUps' = setUps /\ early' = early /\ config' = config
  BY <1>2, CallsDecode
<1>5. failures' = failed' /\ failures' \in BOOLEAN
  BY <1>2, <1>3, MayFailKeepsTheMarks
<1>6. StatusInStep'
  BY <1>2 DEF StatusInStep, Passing
<1>7. FilesInStep'
  <2>1. step' \in AfterSetUp \cup {"end"}
    BY <1>2 DEF AfterSetUp, Holding
  <2> QED
    BY <1>1, <1>2, <2>1, WrittenFiles
<1>8. CASE Decode /\ step' = to /\ decodedRecords' \in collections' \ collections
  <2>1. /\ life' = life
        /\ \E load \in Loads :
             /\ managers' = UsedAfter(load, ManagersForCall)
             /\ collections' = collections \union
                                 {[call |-> calls, values |-> TakenBy(load, ManagersForCall)]}
    BY <1>8 DEF Decode, DecodeDatablocks
  <2>2. DOMAIN managers' = 1 .. config.consumers
    BY <1>3, <2>1 DEF UsedAfter, ManagersForCall
  <2>3. collections' = {decodedRecords'}
    BY <1>3, <1>8, <2>1
  <2>4. LibraryInStep'
    BY <1>3, <1>4, <1>8, <2>1, <2>2, <2>3 DEF LibraryInStep, BeforeSetUp, AfterSetUp, Passing, Holding
  <2>5. ReportInStep'
    BY <1>5, <1>8 DEF ReportInStep, NothingUnreported
  <2> QED
    BY <1>6, <1>7, <2>4, <2>5 DEF MainInStep
<1>9. CASE "json" \in option.outputs /\ PrintThrows /\ step' = "end"
  <2>1. life' = "thrown"
    BY <1>9 DEF PrintThrows
  <2>2. LibraryInStep'
    BY <1>2, <1>3, <1>4, <1>9, <2>1
       DEF LibraryInStep, PrintingThrew, BeforeSetUp, AfterSetUp, Passing, Holding
  <2>3. ReportInStep'
    BY <1>2, <1>5, <1>9, <2>1 DEF ReportInStep, NothingUnreported, BeforeSetUp, AfterSetUp, Passing, Holding
  <2> QED
    BY <1>6, <1>7, <2>2, <2>3 DEF MainInStep
<1> QED
  BY <1>2, <1>8, <1>9

(* The steps of main that leave the library alone.                         *)
LEMMA QuietInStep ==
  ASSUME InStep, LoadSourceFile \/ LookUpValues \/ EncodeRecords \/ EncodeSingleRecord \/ SaveReport
  PROVE  MainInStep'
<1>1. /\ step \in AfterSetUp \ {"memory"} /\ step' \in AfterSetUp \cup {"end"}
      /\ UNCHANGED <<vars, option, decodedRecords>>
      /\ step' \in Holding <=> step \in Holding \ {"release"}
      /\ step' = "memory" => SaveReport
      /\ step' = "end" => LoadSourceFile \/ EncodeSingleRecord
      /\ step' # "single"
  BY DEF LoadSourceFile, LookUpValues, EncodeRecords, EncodeSingleRecord, SaveReport, Keep,
     AfterDecoding, AfterSetUp, Holding
<1>2. /\ life = "running" /\ setUps = 1 /\ ~early
      /\ failures = failed /\ failures \in BOOLEAN
      /\ managers = <<>> \/ DOMAIN managers = 1 .. config.consumers
      /\ step \notin Holding => collections = {}
      /\ step \in Holding => collections = {decodedRecords}
  BY <1>1, AfterTheSetUp
<1>3. step \in Holding => step # "release"
  BY DEF LoadSourceFile, LookUpValues, EncodeRecords, EncodeSingleRecord, SaveReport
<1>4. /\ config' = config /\ managers' = managers /\ collections' = collections /\ life' = life
      /\ setUps' = setUps /\ early' = early
  BY <1>1 DEF vars
<1>5. LibraryInStep'
  <2>1. step' \notin BeforeSetUp \cup {"other"}
    BY <1>1 DEF BeforeSetUp, AfterSetUp, Passing, Holding
  <2>2. /\ step' \in Holding => collections' = {decodedRecords'}
        /\ step' \notin Holding => collections' = {}
    BY <1>1, <1>2, <1>3, <1>4
  <2> QED
    BY <1>1, <1>2, <1>4, <2>1, <2>2 DEF LibraryInStep
<1>6. step' \notin Passing \cup {"arguments", "load", "serialize", "setUp", "single"}
  BY <1>1 DEF AfterSetUp, Passing, Holding
<1>7. StatusInStep'
  BY <1>6 DEF StatusInStep
<1>8. CASE SaveReport
  <2>1. /\ step' = "memory" /\ failures' = FALSE /\ failed' = failed
        /\ disk' = IF failures THEN PrintOnFile ELSE Removed
    BY <1>8 DEF SaveReport
  <2>2. /\ disk \in [Files -> {"nothing", "earlier", "this", "both"}]
        /\ option \in CommandLines \cup {NoOptions}
        /\ "json" \in option.outputs => Fresh("json")
        /\ "dump" \in option.outputs /\ "json" \notin option.outputs => Fresh("txt")
        /\ "ast" \in option.outputs => Fresh("ast")
        /\ OutputsOfThisRun
    BY <1>1, AfterTheSetUp
  <2>3. PICK v \in {"this", "nothing"} :
          disk' = [disk EXCEPT !["log"] = v] /\ v = (IF failed THEN "this" ELSE "nothing")
    BY <1>2, <2>1 DEF PrintOnFile, Removed
  <2>4. LogOnDisk'
    BY <2>1, <2>2, <2>3 DEF LogOnDisk, Files
  <2>5. ReportInStep'
    BY <1>2, <2>1, <2>4 DEF ReportInStep, NothingUnreported
  <2>6. disk' \in [Files -> {"nothing", "earlier", "this", "both"}]
        /\ \A f \in Files : disk'[f] = disk[f] \/ disk'[f] = v
    BY <2>2, <2>3
  <2>7. FilesInStep'
    <3>1. \A f \in Files : Fresh(f) => Fresh(f)'
      BY <2>3, <2>6 DEF Fresh
    <3>2. OutputsOfThisRun'
      BY <1>1, <2>2, <2>3, <2>6 DEF OutputsOfThisRun
    <3>3. {"json", "txt", "ast"} \subseteq Files /\ step' \notin BeforeSetUp
      BY <2>1 DEF Files, BeforeSetUp, Passing
    <3> QED
      BY <1>1, <2>2, <2>6, <3>1, <3>2, <3>3 DEF FilesInStep
  <2> QED
    BY <1>5, <1>7, <2>5, <2>7 DEF MainInStep
<1>9. CASE LoadSourceFile \/ LookUpValues \/ EncodeRecords \/ EncodeSingleRecord
  <2>1. /\ failures' = failed' /\ failures' \in BOOLEAN
        /\ disk' \in {disk, Decoded, Encoded}
    <3>1. CASE LoadSourceFile \/ LookUpValues
      BY <1>2, <3>1 DEF LoadSourceFile, LookUpValues, reporting
    <3>2. CASE EncodeRecords \/ EncodeSingleRecord
      BY <1>2, <3>2, MayFailKeepsTheMarks DEF EncodeRecords, EncodeSingleRecord
    <3> QED
      BY <1>9, <3>1, <3>2
  <2>2. step' # "memory"
    BY <1>9 DEF LoadSourceFile, LookUpValues, EncodeRecords, EncodeSingleRecord, AfterDecoding
  <2>3. step' = "end" => status' = "AST_LOADER_ERROR"
    <3>1. CASE EncodeSingleRecord
      <4>1. status = "SUCCESS"
        BY <3>1 DEF EncodeSingleRecord, InStep, MainInStep, StatusInStep
      <4> QED
        BY <3>1, <4>1 DEF EncodeSingleRecord
    <3>2. CASE LoadSourceFile
      BY <3>2 DEF LoadSourceFile
    <3>3. CASE LookUpValues \/ EncodeRecords
      BY <3>3 DEF LookUpValues, EncodeRecords, AfterDecoding
    <3> QED
      BY <1>9, <3>1, <3>2, <3>3
  <2>4. ReportInStep'
    BY <2>1, <2>2, <2>3 DEF ReportInStep, NothingUnreported
  <2>5. FilesInStep'
    BY <1>1, <2>1, WrittenFiles
  <2> QED
    BY <1>5, <1>7, <2>4, <2>5 DEF MainInStep
<1> QED
  BY <1>8, <1>9

(* A release of main: the collection is the only one, so it is not early.  *)
LEMMA ReleaseInStep ==
  ASSUME InStep, ReleaseBatch
  PROVE  MainInStep'
<1>1. /\ step = "release" /\ step' \in {"decode", "report"}
      /\ UNCHANGED <<status, decodedRecords, failures, failed, disk, option>>
      /\ ReleaseAllDecodedRecords(decodedRecords)
  BY DEF ReleaseBatch, Keep, reporting
<1>2. /\ life = "running" /\ setUps = 1 /\ collections = {decodedRecords} /\ ~early
      /\ failures = failed /\ failures \in BOOLEAN
      /\ managers = <<>> \/ DOMAIN managers = 1 .. config.consumers
  BY <1>1, AfterTheSetUp DEF AfterSetUp, Holding
<1>3. /\ life' = life /\ setUps' = setUps /\ config' = config
      /\ DOMAIN managers' = DOMAIN managers
      /\ collections' = {} /\ ~early'
  BY <1>1, <1>2 DEF ReleaseAllDecodedRecords, setting
<1>4. managers = <<>> => managers' = <<>>
  BY <1>1 DEF ReleaseAllDecodedRecords
<1>5. LibraryInStep'
  BY <1>1, <1>2, <1>3, <1>4 DEF LibraryInStep, BeforeSetUp, AfterSetUp, Passing, Holding
<1>6. StatusInStep' /\ ReportInStep'
  BY <1>1, <1>2 DEF StatusInStep, ReportInStep, NothingUnreported, Passing
<1>7. FilesInStep'
  BY <1>1, WrittenFiles DEF AfterSetUp, Holding
<1> QED
  BY <1>5, <1>6, <1>7 DEF MainInStep

(* The end of main: everything is released, and the log is on disk.        *)
LEMMA EndInStep ==
  ASSUME InStep, EndApplication
  PROVE  MainInStep'
<1>1. /\ step = "memory" /\ step' = "end"
      /\ UNCHANGED <<status, decodedRecords, failures, failed, disk, option>>
      /\ ReleaseMemory
  BY DEF EndApplication, Keep, reporting
<1>2. setUps = 1 /\ collections = {} /\ ~early
  BY <1>1, AfterTheSetUp DEF AfterSetUp, Holding
<1>3. setUps' = setUps /\ collections' = collections /\ early' = early /\ life' = "released"
  BY <1>1 DEF ReleaseMemory
<1>4. LibraryInStep' /\ StatusInStep'
  BY <1>1, <1>2, <1>3 DEF LibraryInStep, StatusInStep, BeforeSetUp, AfterSetUp, Passing, Holding
<1>5. ReportInStep'
  <2>1. LogOnDisk /\ failures \in BOOLEAN /\ failed \in BOOLEAN
    BY <1>1 DEF InStep, MainInStep, ReportInStep
  <2> QED
    BY <1>1, <1>2, <1>3, <2>1 DEF ReportInStep, NothingUnreported, LogOnDisk, BeforeSetUp, AfterSetUp,
       Passing, Holding
<1>6. FilesInStep'
  BY <1>1, WrittenFiles DEF AfterSetUp
<1> QED
  BY <1>4, <1>5, <1>6 DEF MainInStep

(* Every step of a program leaves main where the invariant says.           *)
LEMMA InStepIsPreserved == InStep /\ [ClientNext]_appVars => InStep'
<1> SUFFICES ASSUME InStep, [ClientNext]_appVars PROVE InStep'
  OBVIOUS
<1>1. CASE ClientNext
  <2>1. TypeOK' /\ OneSetUp'
    BY <1>1, TheLibraryIsKept
  <2>2. CASE DecodeAndEncodeAsterixFile
    <3>1. AfterDecoding("encode") \in {"release", "encode"}
      BY DEF AfterDecoding
    <3> QED
      BY <2>1, <2>2, <3>1, DecodeInStep, QuietInStep DEF DecodeAndEncodeAsterixFile, InStep
  <2>3. CASE DecodeAndEncodeFromOtherSource
    BY <2>1, <2>3, DecodeInStep, QuietInStep DEF DecodeAndEncodeFromOtherSource, InStep
  <2>4. CASE ~DecodeAndEncodeAsterixFile /\ ~DecodeAndEncodeFromOtherSource
    <3>1. MainInStep'
      BY <1>1, <2>4, OtherProgramInStep, ReadInStep, PassInStep, LoadInStep, SetUpInStep, QuietInStep,
         ReleaseInStep, EndInStep DEF ClientNext
    <3> QED
      BY <2>1, <3>1 DEF InStep
  <2> QED
    BY <2>2, <2>3, <2>4
<1>2. CASE UNCHANGED appVars
  <2>1. UNCHANGED vars /\ UNCHANGED clientVars
    BY <1>2 DEF appVars
  <2>2. TypeOK' /\ OneSetUp'
    <3>1. [Next]_vars
      BY <2>1
    <3> QED
      BY <3>1, SetUpTypesArePreserved, CallTypesArePreserved, ManagerTypesArePreserved,
         FlagTypesArePreserved, OneSetUpIsPreserved DEF TypeOK, InStep
  <2>3. LibraryInStep'
    BY <2>1 DEF InStep, MainInStep, LibraryInStep, PrintingThrew, vars, clientVars
  <2>4. StatusInStep' /\ FilesInStep'
    BY <2>1 DEF InStep, MainInStep, StatusInStep, FilesInStep, OutputsOfThisRun, Fresh, vars, clientVars
  <2>5. ReportInStep'
    BY <2>1 DEF InStep, MainInStep, ReportInStep, NothingUnreported, LogOnDisk, vars, clientVars, reporting
  <2> QED
    BY <2>2, <2>3, <2>4, <2>5 DEF InStep, MainInStep
<1> QED
  BY <1>1, <1>2

(* The application, on any command line: it never releases a collection    *)
(* early nor uses one it has released, none of its calls leaves the queues *)
(* or throws, but for the JSON output, without whose exception it ends     *)
(* with everything reported and released, and no file mixes two runs but   *)
(* the text files (main of client_app).                                    *)
THEOREM ApplicationKeepsOrder == ClientSpec => []ApplicationInOrder
<1>1. InStep => ApplicationInOrder
  <2> SUFFICES ASSUME InStep PROVE ApplicationInOrder
    OBVIOUS
  <2>1. KeepsProtocol
    BY DEF InStep, MainInStep, LibraryInStep, PrintingThrew, KeepsProtocol, Holding, BeforeSetUp,
       AfterSetUp
  <2>2. NothingUnreported /\ OutputsOfThisRun
    BY DEF InStep, MainInStep, ReportInStep, FilesInStep
  <2> QED
    BY <2>1, <2>2 DEF ApplicationInOrder
<1> QED
  BY <1>1, InitialStep, InStepIsPreserved, PTL DEF ClientSpec

(* The pools of decoded values under every program, the application or     *)
(* another: no value is handed out twice, and the released kinds return.   *)
THEOREM ValuesUnderEveryProgram ==
  ClientSpec => []NoValueIsHandedOutTwice /\ []ReleasedValuesReturn
<1>1. ClientInit => PoolsAgree
  BY InitialPools DEF ClientInit
<1>2. InStep /\ PoolsAgree /\ [ClientNext]_appVars => PoolsAgree'
  <2> SUFFICES ASSUME InStep, PoolsAgree, [ClientNext]_appVars PROVE PoolsAgree'
    OBVIOUS
  <2>1. [Next]_vars \/ \E n \in Nat : Setter(n)
    BY MainUsesTheLibrary DEF appVars
  <2>2. CASE [Next]_vars
    BY <2>2, PoolsArePreserved DEF InStep
  <2>3. CASE \E n \in Nat : Setter(n)
    BY <2>3, SettersKeepTheRest, OthersKeepPools
  <2> QED
    BY <2>1, <2>2, <2>3
<1>3. InStep /\ PoolsAgree => NoValueIsHandedOutTwice /\ ReleasedValuesReturn
  BY LiveValuesAreCounted
     DEF InStep, PoolsAgree, Disjoint, NoValueIsHandedOutTwice, ReleasedValuesReturn
<1> QED
  BY <1>1, <1>2, <1>3, InitialStep, InStepIsPreserved, PTL DEF ClientSpec
================================================================================
