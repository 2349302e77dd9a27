--------------------------------- MODULE Codec ---------------------------------
(* The set-up of the codec and what one set-up leaves to the next call:    *)
(* CodecInterface divides the threads and makes the two thread pools,      *)
(* BlockingQueueManager is made once, with the numbers of the first set-up,*)
(* and DecoderInterface makes one DecodedValueObjectPoolManager per        *)
(* decoding thread at its first call.  A collection of decoded records     *)
(* holds values that belong to these managers, and releasing a collection  *)
(* returns the values of the managers, not those of the collection.        *)
(*                                                                         *)
(* A decoding call is one step here (DecodingPipeline opens it): its tasks *)
(* are taken by some of the workers, one of whom may run several, and the  *)
(* call registers the threads that asked the manager of the queues for a   *)
(* record.  A program is followed up to the first exception.               *)
EXTENDS Naturals, Sequences, FiniteSets, FiniteSetsExt

CONSTANTS
  Numbers,        \* the numbers of producers and consumers a client may ask for
  Totals,         \* the total numbers of threads a client may ask for
  PoolNumbers,    \* the numbers of preallocated records a client may ask for
  Kinds,          \* the kinds of decoded values, one pool for each
  ReleasedKinds,  \* the kinds whose pools are reset by a release
  MaxSetUps,      \* bound on the accepted set-ups
  MaxCalls,       \* bound on the decoding calls
  MaxValues,      \* bound on the values decoded in one call
  MaxDecoders,    \* bound on the decoding threads of a call
  NoQueues        \* no manager of the queues yet

ASSUME NumbersAssumption ==
  /\ Numbers \subseteq Nat /\ Totals \subseteq Nat /\ PoolNumbers \subseteq Nat
  /\ ReleasedKinds \subseteq Kinds

VARIABLES
  config,               \* FacadeCommonVariables: the numbers in force
  isTotalNumberSetted,  \* whether the client asked for a total
  queues,               \* BlockingQueueManager: its queues, and the records of each
  pools,                \* the workers of the two thread pools of the last set-up
  producers, decoders,  \* first: registered before these pools; next: registered so far
  readers,              \* the decoders that took the tasks of the last call
  managers,             \* decodedValueOPManagerVector: values handed out, by kind
  collections,          \* the collections that the client has and has not released
  life, setUps, calls,
  early                 \* whether a collection was released while another was in use

vars == <<config, isTotalNumberSetted, queues, pools, producers, decoders, readers,
          managers, collections, life, setUps, calls, early>>
setting == <<config, isTotalNumberSetted>>
threads == <<queues, pools, producers, decoders, readers>>
values == <<managers, collections, early>>

NoWorkers == [producers |-> 0, consumers |-> 0]
Nobody == [first |-> 0, next |-> 0]

Init ==
  /\ config = [total |-> 2, producers |-> 1, consumers |-> 1, preallocated |-> 1]
  /\ isTotalNumberSetted = FALSE
  /\ queues = NoQueues /\ pools = NoWorkers /\ producers = Nobody /\ decoders = Nobody
  /\ readers = {} /\ managers = <<>> /\ collections = {}
  /\ life = "running" /\ setUps = 0 /\ calls = 0 /\ early = FALSE

------------------------------------------------------------------------------
(* The setters of the client.  The encoder threads are always as many as   *)
(* the consumers, and the warnings in the status change nothing: both are  *)
(* left out.                                                               *)
Set(new, total) ==
  /\ life = "running" /\ setUps < MaxSetUps /\ config' = new
  /\ isTotalNumberSetted' = (isTotalNumberSetted \/ total)
  /\ UNCHANGED <<threads, values, life, setUps, calls>>

SetObjectPoolNumber(n) == Set([config EXCEPT !.preallocated = n], FALSE)
SetNumberOfProducerThreads(n) == Set([config EXCEPT !.producers = n], FALSE)
SetNumberOfConsumerThreads(n) == Set([config EXCEPT !.consumers = n], FALSE)
SetTotalNumberOfThreads(n) == Set([config EXCEPT !.total = n], TRUE)

------------------------------------------------------------------------------
(* The division of the total among producers and consumers, one to three:  *)
(* the quarter and the three quarters are cut to integers and the thread   *)
(* left over, if any, goes to the side with the larger fraction.           *)
LeftToConsumers(t) == (3 * t) % 4 > t % 4
(* Mutant: a tie of the two fractions gives the thread to nobody.          *)
MutantLeftToProducers(t) == (3 * t) % 4 < t % 4
LeftToProducers(t) == ~LeftToConsumers(t) /\ (3 * t) % 4 # 0
AtLeastOne(n) == IF n = 0 THEN 1 ELSE n

ProducersOf(t) == AtLeastOne((t \div 4) + (IF LeftToProducers(t) THEN 1 ELSE 0))
ConsumersOf(t) == AtLeastOne(((3 * t) \div 4) + (IF LeftToConsumers(t) THEN 1 ELSE 0))

(* The number of preallocated records is raised, when it is read, to the   *)
(* number of producers: the check of the pool number never fails.          *)
Raised(c) == IF c.preallocated < c.producers THEN [c EXCEPT !.preallocated = c.producers] ELSE c

Divided ==
  [config EXCEPT !.producers = ProducersOf(config.total), !.consumers = ConsumersOf(config.total)]
Completed ==
  [config EXCEPT !.producers = AtLeastOne(@), !.consumers = AtLeastOne(@)]
Wanted == IF isTotalNumberSetted THEN Divided ELSE Completed
Chosen == Raised(Wanted)

Rejected ==
  IF isTotalNumberSetted THEN config.total < 2 ELSE Completed.consumers < Completed.producers

QueuesFor(c) == [number |-> c.producers, records |-> c.preallocated \div c.producers]

(* setUpEnvironment.  A rejected set-up leaves the earlier pools in place, *)
(* but the numbers of the client are already those that the next call      *)
(* reads.  The manager of the queues is a singleton: a later set-up does   *)
(* not make it anew.                                                       *)
SetUpRejected ==
  /\ life = "running" /\ Rejected
  /\ config' = (IF isTotalNumberSetted THEN config ELSE Completed)
  /\ UNCHANGED <<isTotalNumberSetted, threads, values, life, setUps, calls>>

SetUpAccepted ==
  /\ life = "running" /\ setUps < MaxSetUps /\ ~Rejected
  /\ config' = Chosen
  /\ queues' = IF queues = NoQueues THEN QueuesFor(Chosen) ELSE queues
  /\ pools' = [producers |-> Chosen.producers, consumers |-> Chosen.consumers]
  /\ producers' = [producers EXCEPT !.first = producers.next]
  /\ decoders' = [decoders EXCEPT !.first = decoders.next]
  /\ setUps' = setUps + 1
  /\ UNCHANGED <<isTotalNumberSetted, readers, values, life, calls>>

------------------------------------------------------------------------------
(* A decoding call.  Threads register with the manager of the queues when  *)
(* they first ask for a record; the workers of earlier pools wait forever  *)
(* and stay registered.                                                    *)
(* Mutant: a thread is registered anew in every call.                      *)
MutantRegistered(who) == 0
Registered(who) == who.next - who.first

(* startDecoderThreads: a manager for each decoding thread, the first time.*)
EmptyPools == [k \in Kinds |-> 0]
ManagersForCall ==
  IF managers = <<>> THEN [i \in 1 .. config.consumers |-> EmptyPools] ELSE managers

(* How many workers take the tasks of a call: one may run several of them, *)
(* at the latest when the queues are closed.                               *)
Takers ==
  IF config.consumers = 0 THEN {0} ELSE 1 .. Min({config.consumers, pools.consumers})

(* getObjectPoolForConsumer: the decoders are counted modulo the number of *)
(* queues, in the order in which they register.                            *)
QueueOfDecoder(k) == k % queues.number

(* The values decoded in a call, how many of each kind by each decoder,    *)
(* and the values the pools hand out for them (getObjectFromOP).           *)
Loads ==
  LET Places == (1 .. config.consumers) \X Kinds
  IN {[p \in Places |-> IF p \in taken THEN 1 ELSE 0] :
        taken \in UNION {kSubset(n, Places) : n \in 0 .. Min({MaxValues, Cardinality(Places)})}}

TakenBy(load, before) ==
  {[manager |-> p[1], kind |-> p[2], index |-> before[p[1]][p[2]] + 1] :
     p \in {q \in DOMAIN load : load[q] = 1}}
(* Mutant: the pool does not move its mark.                                *)
MutantUsedAfter(load, before) == before
UsedAfter(load, before) ==
  [i \in DOMAIN before |->
     [k \in Kinds |-> before[i][k] + (IF i <= config.consumers THEN load[<<i, k>>] ELSE 0)]]

CanCall ==
  /\ life = "running" /\ setUps > 0 /\ calls < MaxCalls /\ config.consumers <= MaxDecoders

(* The number of decoding threads has grown since the first call: the      *)
(* vector of managers is read beyond its end, at(i) throws.                *)
DecodeThrows ==
  /\ CanCall /\ config.consumers > Len(ManagersForCall) /\ life' = "thrown"
  /\ UNCHANGED <<setting, threads, values, setUps, calls>>

(* A thread of a later set-up gets an index that is not below the number   *)
(* of queues: the vector of queues is indexed beyond its end.              *)
DecodeOutside ==
  /\ CanCall /\ config.consumers <= Len(ManagersForCall) /\ life' = "outside"
  /\ \E n \in Registered(producers) + 1 .. pools.producers :
       /\ producers.first + n > queues.number
       /\ producers' = [producers EXCEPT !.next = producers.first + n]
  /\ UNCHANGED <<setting, queues, pools, decoders, readers, values, setUps, calls>>

(* What a call does to the threads and the pools: the collection is made   *)
(* of the results of all tasks.                                            *)
DecodeDatablocks(load) ==
  /\ CanCall /\ config.consumers <= Len(ManagersForCall)
  /\ \E n \in Registered(producers) .. pools.producers :
       /\ producers.first + n <= queues.number
       /\ producers' = [producers EXCEPT !.next = producers.first + n]
  /\ \E old \in SUBSET (decoders.first .. decoders.next - 1),
        new \in 0 .. pools.consumers - Registered(decoders) :
       /\ Cardinality(old) + new \in Takers
       /\ decoders' = [decoders EXCEPT !.next = @ + new]
       /\ readers' = old \union (decoders.next .. decoders.next + new - 1)
  /\ managers' = UsedAfter(load, ManagersForCall)
  /\ calls' = calls + 1
  /\ UNCHANGED <<setting, queues, pools, setUps, early>>

Decode ==
  /\ \E load \in Loads :
       /\ DecodeDatablocks(load)
       /\ collections' = collections \union
                           {[call |-> calls, values |-> TakenBy(load, ManagersForCall)]}
  /\ UNCHANGED life

(* With JSON output printAllDecodedRecordsOnJson appends the first element *)
(* of a record to an object as if it were an array, which throws; the      *)
(* collection reaches nobody.                                              *)
PrintThrows ==
  /\ \E load \in Loads : DecodeDatablocks(load) /\ TakenBy(load, ManagersForCall) # {}
  /\ life' = "thrown" /\ UNCHANGED collections

------------------------------------------------------------------------------
(* releaseAllDecodedRecords: the pools of every manager are reset, some    *)
(* kinds of them, and the collection is deleted.                           *)
(* Mutant: the strings are forgotten by the release.                       *)
MutantReleaseAllElementValueToOP(manager) ==
  [k \in Kinds |-> IF k \in ReleasedKinds \ {"string"} THEN 0 ELSE manager[k]]
ReleaseAllElementValueToOP(manager) ==
  [k \in Kinds |-> IF k \in ReleasedKinds THEN 0 ELSE manager[k]]

ReleaseAllDecodedRecords(collection) ==
  /\ life = "running"
  /\ managers' = [i \in DOMAIN managers |-> ReleaseAllElementValueToOP(managers[i])]
  /\ collections' = collections \ {collection}
  /\ early' = (early \/ collections # {collection})
  /\ UNCHANGED <<setting, threads, life, setUps, calls>>

(* releaseMemory: the singletons are deleted, and with them the managers.  *)
ReleaseMemory ==
  /\ life = "running" /\ life' = "released"
  /\ queues' = NoQueues /\ managers' = <<>>
  /\ UNCHANGED <<setting, pools, producers, decoders, readers, collections, early,
                 setUps, calls>>

Next ==
  \/ \E n \in Numbers :
       SetNumberOfProducerThreads(n) \/ SetNumberOfConsumerThreads(n)
  \/ \E n \in Totals : SetTotalNumberOfThreads(n)
  \/ \E n \in PoolNumbers : SetObjectPoolNumber(n)
  \/ SetUpRejected \/ SetUpAccepted
  \/ Decode \/ PrintThrows \/ DecodeThrows \/ DecodeOutside
  \/ \E collection \in collections : ReleaseAllDecodedRecords(collection)
  \/ ReleaseMemory

Spec == Init /\ [][Next]_vars

------------------------------------------------------------------------------
SetUpTypes ==
  /\ config \in [total : Nat, producers : Nat, consumers : Nat, preallocated : Nat]
  /\ queues # NoQueues => queues \in [number : Nat \ {0}, records : Nat \ {0}]
  /\ pools \in [producers : Nat, consumers : Nat] /\ setUps \in Nat
CallTypes ==
  /\ producers \in [first : Nat, next : Nat] /\ decoders \in [first : Nat, next : Nat]
  /\ calls \in Nat
ManagerTypes == managers \in Seq([Kinds -> Nat])
FlagTypes ==
  /\ isTotalNumberSetted \in BOOLEAN /\ early \in BOOLEAN
  /\ life \in {"running", "thrown", "outside", "released"}
TypeOK == SetUpTypes /\ CallTypes /\ ManagerTypes /\ FlagTypes

(* A set-up that is accepted divides the total without losing or adding a  *)
(* thread, gives every producer at least one consumer and every queue at   *)
(* least one record, and leaves the numbers that it divided in force.      *)
ThreadsFit ==
  [][setUps' > setUps =>
       /\ 1 <= pools'.producers /\ pools'.producers <= pools'.consumers
       /\ isTotalNumberSetted => pools'.producers + pools'.consumers = config.total
       /\ pools'.producers = config'.producers /\ pools'.consumers = config'.consumers
       /\ queues'.records >= 1]_vars

(* No producer of a first set-up asks for a queue that is not there.  In   *)
(* any set-up, however many went before, the workers share the queues out: *)
(* a call whose tasks are taken by all of them reads every queue, if there *)
(* are workers enough, and no two read the same one when there are not     *)
(* more workers than queues.  A call in which one worker runs two of the   *)
(* tasks may leave a queue unread.                                         *)
QueuesAreSharedOut ==
  [][/\ life' = "outside" => setUps > 1
     /\ calls' > calls =>
          /\ Cardinality(readers') = pools.consumers /\ queues.number <= pools.consumers
               => {QueueOfDecoder(k) : k \in readers'} = 0 .. queues.number - 1
          /\ pools.consumers <= queues.number
               => \A k, l \in readers' : k # l => QueueOfDecoder(k) # QueueOfDecoder(l)]_vars

(* As long as no collection is released while another is in use, no value  *)
(* is handed out twice: the collections of two calls share none (a release *)
(* resets the pools of all collections, not of the one it is given).       *)
NoValueIsHandedOutTwice ==
  ~early => \A c, d \in collections : c # d => c.values \intersect d.values = {}

(* Under the same condition the released kinds come back: their pools hand *)
(* out exactly the values that are in use, whatever the calls before.      *)
LiveValues(i, k) ==
  UNION {{v \in c.values : v.manager = i /\ v.kind = k} : c \in collections}
ReleasedValuesReturn ==
  ~early /\ life = "running" =>
    \A i \in DOMAIN managers, k \in ReleasedKinds :
      managers[i][k] = Cardinality(LiveValues(i, k))
================================================================================
