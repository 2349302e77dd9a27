--------------------- MODULE BlockingQueueManagerProofs ---------------------
(* Proofs about BlockingQueueManager, for any number of threads, queues    *)
(* and records.                                                            *)
EXTENDS BlockingQueueManager, FiniteSetTheorems, SequenceTheorems, TLAPS

(* The queue a producer thread gets exists: at most the other producers    *)
(* are in the map before it.                                               *)
LEMMA ProducerIndexType ==
  ASSUME TypeOK, NEW t \in Producer
  PROVE  ProducerIndex(t) \in Index
<1>1. CASE matchMap[t] # None
  BY <1>1 DEF ProducerIndex, TypeOK, Thread
<1>2. CASE matchMap[t] = None
  <2>1. /\ IsFiniteSet(Producer \ {t})
        /\ Cardinality(Producer \ {t}) = NumQueues - 1
    BY ManagerAssumption, FS_RemoveElement
  <2>2. Registered(Producer) \subseteq Producer \ {t}
    BY <1>2 DEF Registered
  <2>3. /\ IsFiniteSet(Registered(Producer))
        /\ Cardinality(Registered(Producer)) <= NumQueues - 1
    BY <2>1, <2>2, FS_Subset
  <2>4. Cardinality(Registered(Producer)) \in Nat
    BY <2>3, FS_CardinalityType
  <2>. QED
    BY <1>2, <2>3, <2>4, ManagerAssumption DEF ProducerIndex, Index
<1>. QED BY <1>1, <1>2

(* The queue index a decoder is given exists (getOrAddConsumerThreadIndex). *)
LEMMA ConsumerIndexType ==
  ASSUME TypeOK, NEW t \in Consumer
  PROVE  ConsumerIndex(t) \in Index
<1>1. CASE matchMap[t] # None
  BY <1>1 DEF ConsumerIndex, TypeOK, Thread
<1>2. CASE matchMap[t] = None
  <2>1. Registered(Consumer) \subseteq Consumer
    BY DEF Registered
  <2>2. Cardinality(Registered(Consumer)) \in Nat
    BY <2>1, ManagerAssumption, FS_Subset, FS_CardinalityType
  <2>3. Cardinality(Registered(Consumer)) % NumQueues \in 0 .. (NumQueues - 1)
    BY <2>2, ManagerAssumption
  <2>. QED
    BY <1>2, <2>3 DEF ConsumerIndex, Index
<1>. QED BY <1>1, <1>2

(* The sleepers of a queue are still threads after notify_one.             *)
LEMMA NotifyOneType ==
  ASSUME TypeOK, NEW q \in Queue, NotifyOne(q)
  PROVE  waiting' \in [Queue -> SUBSET Thread]
BY DEF NotifyOne, TypeOK

(* The membership index of a record names a queue of either kind.          *)
LEMMA HomeIsQueue ==
  ASSUME NEW r \in Record
  PROVE  /\ <<"free", MembershipQueue(r)>> \in Queue
         /\ <<"parsed", MembershipQueue(r)>> \in Queue
BY DEF Record, Queue, MembershipQueue

(* The values of the variables stay in their domains; in particular the    *)
(* index a producer thread computes from the size of the map always names  *)
(* one of the queues the constructor created.                              *)
THEOREM TypeCorrect == Spec => []TypeOK
<1>1. Init => TypeOK
  <2> SUFFICES ASSUME Init PROVE TypeOK
    OBVIOUS
  <2>1. items \in [Queue -> Seq(Record)]
    <3>1. ASSUME NEW q \in Queue, q[1] = "free"
          PROVE  [i \in 1 .. PoolSize |-> <<q[2], i>>] \in Seq(Record)
      BY <3>1, ManagerAssumption DEF Queue, Record
    <3>. QED BY <3>1 DEF Init
  <2>. QED BY <2>1 DEF Init, TypeOK
<1>2. TypeOK /\ [Next]_managerVars => TypeOK'
  <2> SUFFICES ASSUME TypeOK, [Next]_managerVars PROVE TypeOK'
    OBVIOUS
  <2>1. ASSUME NEW t \in Producer, GetObjectPoolForProducer(t) PROVE TypeOK'
    <3>1. ProducerIndex(t) \in Index
      BY ProducerIndexType
    <3>. QED BY <2>1, <3>1 DEF GetObjectPoolForProducer, TypeOK, Queue, Thread
  <2>2. ASSUME NEW t \in Consumer, GetObjectPoolForConsumer(t) PROVE TypeOK'
    <3>1. ConsumerIndex(t) \in Index
      BY ConsumerIndexType
    <3>. QED BY <2>2, <3>1 DEF GetObjectPoolForConsumer, TypeOK, Queue, Thread
  <2>3. ASSUME NEW t \in Thread, SetObjectPoolForConsumer(t) PROVE TypeOK'
    <3> DEFINE q == <<"parsed", MembershipQueue(held[t])>>
    <3>1. q \in Queue
      BY <2>3, HomeIsQueue DEF SetObjectPoolForConsumer
    <3>2. waiting' \in [Queue -> SUBSET Thread]
      BY <2>3, <3>1, NotifyOneType DEF SetObjectPoolForConsumer
    <3>3. items' \in [Queue -> Seq(Record)]
      BY <2>3, <3>1 DEF SetObjectPoolForConsumer, TypeOK
    <3>. QED BY <2>3, <3>2, <3>3 DEF SetObjectPoolForConsumer, TypeOK
  <2>4. ASSUME NEW t \in Thread, ReleaseObjectPoolForProducer(t) PROVE TypeOK'
    <3> DEFINE q == <<"free", MembershipQueue(held[t])>>
    <3>1. q \in Queue
      BY <2>4, HomeIsQueue DEF ReleaseObjectPoolForProducer
    <3>2. waiting' \in [Queue -> SUBSET Thread]
      BY <2>4, <3>1, NotifyOneType DEF ReleaseObjectPoolForProducer
    <3>3. items' \in [Queue -> Seq(Record)]
      BY <2>4, <3>1 DEF ReleaseObjectPoolForProducer, TypeOK
    <3>. QED BY <2>4, <3>2, <3>3 DEF ReleaseObjectPoolForProducer, TypeOK
  <2>5. ASSUME NEW t \in Thread, GetObjectPoolFromQueue(t) PROVE TypeOK'
    <3>1. inGet[t] \in Queue
      BY <2>5 DEF GetObjectPoolFromQueue, TypeOK
    <3>2. CASE PopFront(t, inGet[t])
      <4>1. Head(items[inGet[t]]) \in Record /\ Tail(items[inGet[t]]) \in Seq(Record)
        BY <3>1, <3>2, HeadTailProperties DEF PopFront, TypeOK
      <4>. QED BY <2>5, <3>1, <3>2, <4>1 DEF GetObjectPoolFromQueue, PopFront, TypeOK
    <3>3. CASE WaitOnQueue(t, inGet[t])
      BY <2>5, <3>1, <3>3 DEF GetObjectPoolFromQueue, WaitOnQueue, TypeOK
    <3>4. CASE ReturnNull(t, inGet[t])
      BY <2>5, <3>1, <3>4 DEF GetObjectPoolFromQueue, ReturnNull, TypeOK
    <3>. QED BY <2>5, <3>2, <3>3, <3>4 DEF GetObjectPoolFromQueue
  <2>6. ASSUME NEW t \in Thread, NEW e \in Element, SetParsedElement(t, e) PROVE TypeOK'
    BY <2>6 DEF SetParsedElement, TypeOK
  <2>7. ASSUME NEW t \in Thread, AbandonRecord(t) \/ ForgetNull(t) PROVE TypeOK'
    BY <2>7 DEF AbandonRecord, ForgetNull, TypeOK
  <2>8. ASSUME NEW t \in Thread, SpuriousWakeup(t) PROVE TypeOK'
    BY <2>8 DEF SpuriousWakeup, TypeOK
  <2>9. CASE OpenAllBlockingQueues
    BY <2>9 DEF OpenAllBlockingQueues, TypeOK
  <2>10. ASSUME NEW q \in Queue, CloseBlockingQueue(q) PROVE TypeOK'
    BY <2>10 DEF CloseBlockingQueue, TypeOK
  <2>11. CASE UNCHANGED managerVars
    BY <2>11 DEF managerVars, TypeOK
  <2>. QED
    BY <2>1, <2>2, <2>3, <2>4, <2>5, <2>6, <2>7, <2>8, <2>9, <2>10, <2>11
    DEF Next, ProducerStep, ConsumerStep, ThreadStep, Thread
<1>. QED BY <1>1, <1>2, PTL DEF Spec

-----------------------------------------------------------------------------
(* What the sequences of a queue look like after a push and after a pop.   *)
LEMMA PushFacts ==
  ASSUME NEW s \in Seq(Record), NEW r \in Record
  PROVE  /\ Len(Append(s, r)) = Len(s) + 1
         /\ \A i \in 1 .. Len(s) : Append(s, r)[i] = s[i]
         /\ Append(s, r)[Len(s) + 1] = r
OBVIOUS

(* What is left of a queue after pop: its length and where each record was. *)
LEMMA PopFacts ==
  ASSUME NEW s \in Seq(Record), s # <<>>
  PROVE  /\ Len(s) \in Nat \ {0}
         /\ Head(s) = s[1]
         /\ Len(Tail(s)) = Len(s) - 1
         /\ \A i \in 1 .. Len(Tail(s)) : i + 1 \in 1 .. Len(s) /\ Tail(s)[i] = s[i + 1]
OBVIOUS

(* A thread that takes the first record of a queue becomes its only owner. *)
LEMMA PopKeepsOwnership ==
  ASSUME TypeOK, Ownership, NEW t \in Thread, NEW q \in Queue, PopFront(t, q)
  PROVE  Ownership'
<1> DEFINE s == items[q]
<1>1. s \in Seq(Record) /\ s # <<>>
  BY DEF TypeOK, PopFront
<1>2. /\ Len(s) \in Nat \ {0}
      /\ Head(s) = s[1]
      /\ Len(Tail(s)) = Len(s) - 1
      /\ \A i \in 1 .. Len(Tail(s)) : i + 1 \in 1 .. Len(s) /\ Tail(s)[i] = s[i + 1]
  BY <1>1, PopFacts
<1>3. /\ items'[q] = Tail(s)
      /\ \A p \in Queue : p # q => items'[p] = items[p]
  BY DEF TypeOK, PopFront
<1>4. /\ held'[t] = s[1]
      /\ \A u \in Thread : u # t => held'[u] = held[u]
  BY <1>2 DEF TypeOK, PopFront
<1> HIDE DEF s
<1>5. ASSUME NEW p \in Queue, NEW i \in 1 .. Len(items'[p])
      PROVE  \E j \in 1 .. Len(items[p]) : /\ items'[p][i] = items[p][j]
                                          /\ j = IF p = q THEN i + 1 ELSE i
  BY <1>2, <1>3 DEF s
<1>6. HomeQueue'
  BY <1>5 DEF Ownership, HomeQueue
<1>7. QueuedOnce'
  <2>1. ASSUME NEW p1 \in Queue, NEW p2 \in Queue,
               NEW i1 \in 1 .. Len(items'[p1]), NEW i2 \in 1 .. Len(items'[p2]),
               items'[p1][i1] = items'[p2][i2]
        PROVE  p1 = p2 /\ i1 = i2
    <3>1. PICK j1 \in 1 .. Len(items[p1]) : /\ items'[p1][i1] = items[p1][j1]
                                            /\ j1 = IF p1 = q THEN i1 + 1 ELSE i1
      BY <1>5
    <3>2. PICK j2 \in 1 .. Len(items[p2]) : /\ items'[p2][i2] = items[p2][j2]
                                            /\ j2 = IF p2 = q THEN i2 + 1 ELSE i2
      BY <1>5
    <3>3. items[p1][j1] = items[p2][j2]
      BY <2>1, <3>1, <3>2
    <3>4. QueuedOnce
      BY DEF Ownership
    <3>5. p1 = p2 /\ j1 = j2
      BY <3>3, <3>4 DEF QueuedOnce
    <3> QED
      BY <3>1, <3>2, <3>5
  <2> QED
    BY <2>1 DEF QueuedOnce
<1>8. HeldOrQueued'
  <2>1. ASSUME NEW p \in Queue, NEW i \in 1 .. Len(items'[p]), NEW u \in Thread
        PROVE  held'[u] # items'[p][i]
    <3>1. PICK j \in 1 .. Len(items[p]) : /\ items'[p][i] = items[p][j]
                                          /\ j = IF p = q THEN i + 1 ELSE i
      BY <1>5
    <3>2. CASE u = t
      <4>1. 1 \in 1 .. Len(s)
        BY <1>2
      <4>2. p = q => j # 1
        BY <3>1
      <4>. QED BY <1>4, <3>1, <3>2, <4>1, <4>2 DEF Ownership, QueuedOnce, s
    <3>3. CASE u # t
      BY <1>4, <3>1, <3>3 DEF Ownership, HeldOrQueued
    <3>. QED BY <3>2, <3>3
  <2>. QED BY <2>1 DEF HeldOrQueued
<1>9. HeldByOne'
  <2>1. \A u \in Thread : held[u] # s[1]
    BY <1>2 DEF Ownership, HeldOrQueued, s
  <2>. QED BY <1>4, <2>1 DEF Ownership, HeldByOne
<1>. QED BY <1>6, <1>7, <1>8, <1>9 DEF Ownership

(* A thread that puts its record in a queue of the record's home index no  *)
(* longer owns it.                                                         *)
LEMMA PushKeepsOwnership ==
  ASSUME TypeOK, Ownership, NEW t \in Thread, held[t] \in Record,
         NEW q \in Queue, q[2] = MembershipQueue(held[t]),
         items' = [items EXCEPT ![q] = Append(@, held[t])],
         held' = [held EXCEPT ![t] = None]
  PROVE  Ownership'
<1> DEFINE s == items[q]
           r == held[t]
<1>1. s \in Seq(Record) /\ r \in Record
  BY DEF TypeOK
<1>2. /\ Len(s) \in Nat
      /\ Len(Append(s, r)) = Len(s) + 1
      /\ \A i \in 1 .. Len(s) : Append(s, r)[i] = s[i]
      /\ Append(s, r)[Len(s) + 1] = r
  BY <1>1, PushFacts
<1>3. /\ items'[q] = Append(s, r)
      /\ \A p \in Queue : p # q => items'[p] = items[p]
  BY DEF TypeOK
<1>4. /\ held'[t] = None
      /\ \A u \in Thread : u # t => held'[u] = held[u]
  BY DEF TypeOK
<1>5. \A p \in Queue : \A i \in 1 .. Len(items[p]) : items[p][i] \in Record
  BY DEF TypeOK
<1>6. \A p \in Queue : \A i \in 1 .. Len(items[p]) : items[p][i] # r
  BY DEF Ownership, HeldOrQueued
<1>7. q[2] = MembershipQueue(r)
  OBVIOUS
<1> HIDE DEF s, r
<1>8. ASSUME NEW p \in Queue, NEW i \in 1 .. Len(items'[p])
      PROVE  \/ i \in 1 .. Len(items[p]) /\ items'[p][i] = items[p][i]
             \/ p = q /\ i = Len(s) + 1 /\ items'[p][i] = r
  BY <1>2, <1>3 DEF s
<1>9. HomeQueue'
  BY <1>7, <1>8 DEF Ownership, HomeQueue, MembershipQueue
<1>10. QueuedOnce'
  BY <1>6, <1>8 DEF Ownership, QueuedOnce
<1>11. HeldOrQueued'
  <2>1. ASSUME NEW p \in Queue, NEW i \in 1 .. Len(items'[p]), NEW u \in Thread
        PROVE  held'[u] # items'[p][i]
    <3>1. CASE u = t
      <4>1. items'[p][i] \in Record
        BY <1>1, <1>5, <1>8
      <4>. QED BY <1>4, <3>1, <4>1, ManagerAssumption
    <3>2. CASE u # t
      <4>1. held[u] # r
        BY <1>1, <3>2 DEF Ownership, HeldByOne, r
      <4>. QED BY <1>4, <1>8, <3>2, <4>1 DEF Ownership, HeldOrQueued
    <3>. QED BY <3>1, <3>2
  <2>. QED BY <2>1 DEF HeldOrQueued
<1>12. HeldByOne'
  BY <1>4, ManagerAssumption DEF Ownership, HeldByOne
<1>. QED BY <1>9, <1>10, <1>11, <1>12 DEF Ownership

(* Forgetting a pointer, or receiving nullptr, makes nobody an owner.      *)
LEMMA DropKeepsOwnership ==
  ASSUME TypeOK, Ownership, NEW t \in Thread, NEW v \in {None, NullPtr},
         UNCHANGED items, held' = [held EXCEPT ![t] = v]
  PROVE  Ownership'
<1>1. /\ held'[t] \notin Record
      /\ \A u \in Thread : u # t => held'[u] = held[u]
  BY ManagerAssumption DEF TypeOK
<1>2. \A p \in Queue : \A i \in 1 .. Len(items[p]) : items[p][i] \in Record
  BY DEF TypeOK
<1>3. HomeQueue' /\ QueuedOnce'
  BY DEF Ownership, HomeQueue, QueuedOnce
<1>4. HeldOrQueued'
  BY <1>1, <1>2 DEF Ownership, HeldOrQueued
<1>5. HeldByOne'
  BY <1>1 DEF Ownership, HeldByOne
<1>. QED BY <1>3, <1>4, <1>5 DEF Ownership

(* No two threads ever fill, read or free the same ParsedRecord, for any   *)
(* number of threads and records and in every interleaving.                *)
THEOREM OwnershipHolds == Spec => []Ownership
<1>1. Init => Ownership
  <2> SUFFICES ASSUME Init PROVE Ownership
    OBVIOUS
  <2>1. ASSUME NEW q \in Queue, q[1] = "free"
        PROVE  /\ items[q] = [i \in 1 .. PoolSize |-> <<q[2], i>>]
               /\ Len(items[q]) = PoolSize
    BY <2>1, ManagerAssumption DEF Init
  <2>2. ASSUME NEW q \in Queue, q[1] # "free" PROVE items[q] = <<>>
    BY <2>2 DEF Init
  <2>3. \A t \in Thread : held[t] = None
    BY DEF Init
  <2>4. ASSUME NEW q \in Queue, NEW i \in 1 .. Len(items[q])
        PROVE  q[1] = "free" /\ i \in 1 .. PoolSize /\ items[q][i] = <<q[2], i>>
    <3>1. q[1] = "free"
      BY <2>2
    <3>. QED BY <2>1, <3>1
  <2>5. HomeQueue
    BY <2>4 DEF HomeQueue, MembershipQueue
  <2>6. QueuedOnce
    BY <2>4 DEF QueuedOnce, Queue
  <2>7. \A q \in Queue : \A i \in 1 .. Len(items[q]) : items[q][i] \in Record
    BY <2>4 DEF Queue, Record
  <2>8. HeldOrQueued
    BY <2>3, <2>7, ManagerAssumption DEF HeldOrQueued
  <2>9. HeldByOne
    BY <2>3, ManagerAssumption DEF HeldByOne
  <2>. QED BY <2>5, <2>6, <2>8, <2>9 DEF Ownership
<1>2. TypeOK /\ Ownership /\ [Next]_managerVars => Ownership'
  <2> SUFFICES ASSUME TypeOK, Ownership, [Next]_managerVars PROVE Ownership'
    OBVIOUS
  <2>1. ASSUME UNCHANGED <<items, held>> PROVE Ownership'
    BY <2>1 DEF Ownership, HomeQueue, QueuedOnce, HeldOrQueued, HeldByOne
  <2>2. ASSUME NEW t \in Thread, SetObjectPoolForConsumer(t) PROVE Ownership'
    <3>1. held[t] \in Record /\ <<"parsed", MembershipQueue(held[t])>> \in Queue
      BY <2>2, HomeIsQueue DEF SetObjectPoolForConsumer
    <3>. QED BY <2>2, <3>1, PushKeepsOwnership DEF SetObjectPoolForConsumer
  <2>3. ASSUME NEW t \in Thread, ReleaseObjectPoolForProducer(t) PROVE Ownership'
    <3>1. held[t] \in Record /\ <<"free", MembershipQueue(held[t])>> \in Queue
      BY <2>3, HomeIsQueue DEF ReleaseObjectPoolForProducer
    <3>. QED BY <2>3, <3>1, PushKeepsOwnership DEF ReleaseObjectPoolForProducer
  <2>4. ASSUME NEW t \in Thread, GetObjectPoolFromQueue(t) PROVE Ownership'
    <3>1. inGet[t] \in Queue
      BY <2>4 DEF GetObjectPoolFromQueue, TypeOK
    <3>2. CASE PopFront(t, inGet[t])
      BY <3>1, <3>2, PopKeepsOwnership
    <3>3. CASE WaitOnQueue(t, inGet[t])
      BY <2>1, <3>3 DEF WaitOnQueue
    <3>4. CASE ReturnNull(t, inGet[t])
      BY <3>4, DropKeepsOwnership DEF ReturnNull
    <3>. QED BY <2>4, <3>2, <3>3, <3>4 DEF GetObjectPoolFromQueue
  <2>5. ASSUME NEW t \in Thread, AbandonRecord(t) \/ ForgetNull(t) PROVE Ownership'
    BY <2>5, DropKeepsOwnership DEF AbandonRecord, ForgetNull
  <2>. QED
    BY <2>1, <2>2, <2>3, <2>4, <2>5
    DEF Next, ProducerStep, ConsumerStep, ThreadStep, Thread, managerVars,
        GetObjectPoolForProducer, GetObjectPoolForConsumer, SetParsedElement, SpuriousWakeup,
        OpenAllBlockingQueues, CloseBlockingQueue
<1>. QED BY <1>1, <1>2, TypeCorrect, PTL DEF Spec

-----------------------------------------------------------------------------
(* A record taken from a free queue holds no element of an earlier record: *)
(* nobody writes to a record in a queue, and only emptied ones enter.      *)
THEOREM FreeRecordsStayEmpty == Spec => []FreeRecordsAreEmpty
<1>1. Init => FreeRecordsAreEmpty
  <2> SUFFICES ASSUME Init,
                      NEW q \in Queue, q[1] = "free", NEW i \in 1 .. Len(items[q])
               PROVE  elements[items[q][i]] = <<>>
    BY DEF FreeRecordsAreEmpty
  <2>1. items[q] = [j \in 1 .. PoolSize |-> <<q[2], j>>]
    BY DEF Init
  <2>2. items[q][i] \in Record
    BY <2>1, ManagerAssumption DEF Queue, Record
  <2>. QED BY <2>2 DEF Init
<1>2. TypeOK /\ Ownership /\ FreeRecordsAreEmpty /\ [Next]_managerVars => FreeRecordsAreEmpty'
  <2> SUFFICES ASSUME TypeOK, Ownership, FreeRecordsAreEmpty, [Next]_managerVars
               PROVE  FreeRecordsAreEmpty'
    OBVIOUS
  <2>1. ASSUME UNCHANGED <<items, elements>> PROVE FreeRecordsAreEmpty'
    BY <2>1 DEF FreeRecordsAreEmpty
  <2>2. ASSUME NEW t \in Thread, NEW e \in Element, SetParsedElement(t, e)
        PROVE  FreeRecordsAreEmpty'
    <3>1. \A q \in Queue : \A i \in 1 .. Len(items[q]) :
            items[q][i] \in Record /\ items[q][i] # held[t]
      BY DEF TypeOK, Ownership, HeldOrQueued
    <3>. QED BY <2>2, <3>1 DEF SetParsedElement, FreeRecordsAreEmpty, TypeOK
  <2>3. ASSUME NEW t \in Thread, SetObjectPoolForConsumer(t) PROVE FreeRecordsAreEmpty'
    <3>1. \A q \in Queue : q[1] = "free" => items'[q] = items[q]
      BY <2>3, HomeIsQueue DEF SetObjectPoolForConsumer, TypeOK
    <3>. QED BY <2>3, <3>1 DEF SetObjectPoolForConsumer, FreeRecordsAreEmpty
  <2>4. ASSUME NEW t \in Thread, ReleaseObjectPoolForProducer(t) PROVE FreeRecordsAreEmpty'
    <3> DEFINE q == <<"free", MembershipQueue(held[t])>>
    <3>1. held[t] \in Record /\ q \in Queue
      BY <2>4, HomeIsQueue DEF ReleaseObjectPoolForProducer
    <3>2. /\ items'[q] = Append(items[q], held[t])
          /\ \A p \in Queue : p # q => items'[p] = items[p]
      BY <2>4, <3>1 DEF ReleaseObjectPoolForProducer, TypeOK
    <3>3. /\ elements'[held[t]] = <<>>
          /\ \A r \in Record : r # held[t] => elements'[r] = elements[r]
      BY <2>4, <3>1 DEF ReleaseObjectPoolForProducer, TypeOK
    <3>4. items[q] \in Seq(Record)
      BY <3>1 DEF TypeOK
    <3> HIDE DEF q
    <3>5. /\ Len(items[q]) \in Nat
          /\ Len(Append(items[q], held[t])) = Len(items[q]) + 1
          /\ \A i \in 1 .. Len(items[q]) : Append(items[q], held[t])[i] = items[q][i]
          /\ Append(items[q], held[t])[Len(items[q]) + 1] = held[t]
      BY <3>1, <3>4, PushFacts
    <3>6. ASSUME NEW p \in Queue, NEW i \in 1 .. Len(items'[p])
          PROVE  \/ i \in 1 .. Len(items[p]) /\ items'[p][i] = items[p][i]
                 \/ items'[p][i] = held[t]
      BY <3>2, <3>5
    <3>7. \A p \in Queue : \A i \in 1 .. Len(items[p]) : items[p][i] \in Record
      BY DEF TypeOK
    <3>. QED BY <3>3, <3>6, <3>7 DEF FreeRecordsAreEmpty
  <2>5. ASSUME NEW t \in Thread, GetObjectPoolFromQueue(t) PROVE FreeRecordsAreEmpty'
    <3>1. inGet[t] \in Queue
      BY <2>5 DEF GetObjectPoolFromQueue, TypeOK
    <3>2. CASE PopFront(t, inGet[t])
      <4> DEFINE q == inGet[t]
      <4>1. /\ items[q] \in Seq(Record) /\ items[q] # <<>>
            /\ items'[q] = Tail(items[q])
            /\ \A p \in Queue : p # q => items'[p] = items[p]
        BY <3>1, <3>2 DEF PopFront, TypeOK
      <4>2. \A i \in 1 .. Len(Tail(items[q])) :
              i + 1 \in 1 .. Len(items[q]) /\ Tail(items[q])[i] = items[q][i + 1]
        BY <4>1, PopFacts
      <4>3. elements' = elements
        BY <2>5 DEF GetObjectPoolFromQueue
      <4> HIDE DEF q
      <4>4. ASSUME NEW p \in Queue, NEW i \in 1 .. Len(items'[p])
            PROVE  \E j \in 1 .. Len(items[p]) : items'[p][i] = items[p][j]
        BY <4>1, <4>2
      <4>. QED BY <4>3, <4>4 DEF FreeRecordsAreEmpty
    <3>3. CASE WaitOnQueue(t, inGet[t]) \/ ReturnNull(t, inGet[t])
      BY <2>1, <2>5, <3>3 DEF GetObjectPoolFromQueue, WaitOnQueue, ReturnNull
    <3>. QED BY <2>5, <3>2, <3>3 DEF GetObjectPoolFromQueue
  <2>. QED
    BY <2>1, <2>2, <2>3, <2>4, <2>5
    DEF Next, ProducerStep, ConsumerStep, ThreadStep, Thread, managerVars,
        GetObjectPoolForProducer, GetObjectPoolForConsumer, SpuriousWakeup,
        AbandonRecord, ForgetNull, OpenAllBlockingQueues, CloseBlockingQueue
<1>. QED BY <1>1, <1>2, TypeCorrect, OwnershipHolds, PTL DEF Spec

-----------------------------------------------------------------------------
(* The indices given out so far are the numbers below the size of the map. *)
MapSize == Cardinality(Registered(Producer))

IndicesBelowSize ==
  \A t \in Producer : matchMap[t] # None => matchMap[t] \in 0 .. (MapSize - 1)

(* The size of the map of the parser threads is a number.                  *)
LEMMA MapSizeType == MapSize \in Nat /\ IsFiniteSet(Registered(Producer))
<1>1. Registered(Producer) \subseteq Producer
  BY DEF Registered
<1>. QED BY <1>1, ManagerAssumption, FS_Subset, FS_CardinalityType DEF MapSize

(* Every producer thread has a queue of its own, in whatever order the     *)
(* threads ask for their first record.                                     *)
THEOREM OneQueuePerProducer == Spec => []ProducersHaveOwnQueue
<1> DEFINE Inv == IndicesBelowSize /\ ProducersHaveOwnQueue
<1>1. Init => Inv
  BY DEF Init, IndicesBelowSize, ProducersHaveOwnQueue, Thread
<1>2. TypeOK /\ Inv /\ [Next]_managerVars => Inv'
  <2> SUFFICES ASSUME TypeOK, Inv, [Next]_managerVars PROVE Inv'
    OBVIOUS
  <2>1. ASSUME \A t \in Producer : matchMap'[t] = matchMap[t] PROVE Inv'
    <3>1. Registered(Producer)' = Registered(Producer)
      BY <2>1 DEF Registered
    <3>2. MapSize' = MapSize
      BY <3>1 DEF MapSize
    <3>. QED BY <2>1, <3>2 DEF IndicesBelowSize, ProducersHaveOwnQueue
  <2>2. ASSUME NEW t \in Producer, GetObjectPoolForProducer(t) PROVE Inv'
    <3>1. CASE matchMap[t] # None
      <4>1. \A u \in Producer : matchMap'[u] = matchMap[u]
        BY <2>2, <3>1 DEF GetObjectPoolForProducer, ProducerIndex, TypeOK, Thread
      <4>. QED BY <2>1, <4>1
    <3>2. CASE matchMap[t] = None
      <4>1. /\ matchMap'[t] = MapSize
            /\ \A u \in Producer : u # t => matchMap'[u] = matchMap[u]
        BY <2>2, <3>2 DEF GetObjectPoolForProducer, ProducerIndex, MapSize, TypeOK, Thread
      <4>2. MapSize \in Nat /\ MapSize # None
        <5>1. ProducerIndex(t) \in Index
          BY ProducerIndexType
        <5>. QED BY <3>2, <5>1, MapSizeType, ManagerAssumption DEF ProducerIndex, MapSize
      <4>3. Registered(Producer)' = Registered(Producer) \cup {t}
        BY <4>1, <4>2 DEF Registered
      <4>4. t \notin Registered(Producer)
        BY <3>2 DEF Registered
      <4>5. MapSize' = MapSize + 1
        BY <4>3, <4>4, MapSizeType, FS_AddElement DEF MapSize
      <4>6. ASSUME NEW u \in Producer, u # t, matchMap[u] # None
            PROVE  matchMap[u] \in 0 .. (MapSize - 1) /\ matchMap[u] # MapSize
        BY <4>2, <4>6 DEF IndicesBelowSize
      <4>7. IndicesBelowSize'
        BY <4>1, <4>2, <4>5, <4>6 DEF IndicesBelowSize
      <4>8. ProducersHaveOwnQueue'
        BY <4>1, <4>2, <4>6 DEF ProducersHaveOwnQueue
      <4>. QED BY <4>7, <4>8
    <3>. QED BY <3>1, <3>2
  <2>3. ASSUME NEW t \in Consumer, GetObjectPoolForConsumer(t) PROVE Inv'
    <3>1. \A u \in Producer : matchMap'[u] = matchMap[u]
      BY <2>3, ManagerAssumption DEF GetObjectPoolForConsumer, TypeOK, Thread
    <3>. QED BY <2>1, <3>1
  <2>. QED
    BY <2>1, <2>2, <2>3
    DEF Next, ProducerStep, ConsumerStep, ThreadStep, managerVars,
        SetObjectPoolForConsumer, SetParsedElement, AbandonRecord, GetObjectPoolFromQueue,
        ReleaseObjectPoolForProducer, ForgetNull, SpuriousWakeup, OpenAllBlockingQueues,
        CloseBlockingQueue
<1>3. Inv => ProducersHaveOwnQueue
  OBVIOUS
<1>. QED BY <1>1, <1>2, <1>3, TypeCorrect, PTL DEF Spec

-----------------------------------------------------------------------------
(* A thread gets its records from the queue it was given the index of: a   *)
(* record that changes hands stays with one parser and one decoder.        *)
RecordsOfOwnQueue ==
  \A t \in Thread :
    /\ inGet[t] # None => matchMap[t] # None /\ inGet[t][2] = matchMap[t]
    /\ held[t] \in Record => MembershipQueue(held[t]) = matchMap[t]

THEOREM OwnQueueServed == Spec => []RecordsOfOwnQueue
<1>1. Init => RecordsOfOwnQueue
  BY ManagerAssumption DEF Init, RecordsOfOwnQueue
<1>2. TypeOK /\ Ownership /\ RecordsOfOwnQueue /\ [Next]_managerVars => RecordsOfOwnQueue'
  <2> SUFFICES ASSUME TypeOK, Ownership, RecordsOfOwnQueue, [Next]_managerVars
               PROVE  RecordsOfOwnQueue'
    OBVIOUS
  <2>1. None \notin Record /\ None \notin Index /\ NullPtr \notin Record /\ NullPtr # None
    BY ManagerAssumption
  <2>2. ASSUME matchMap' = matchMap,
               \A u \in Thread : \/ inGet'[u] = inGet[u]
                                 \/ inGet'[u] = None,
               \A u \in Thread : \/ held'[u] = held[u]
                                 \/ held'[u] \notin Record
                                 \/ MembershipQueue(held'[u]) = matchMap[u]
        PROVE  RecordsOfOwnQueue'
    BY <2>2 DEF RecordsOfOwnQueue
  <2>3. ASSUME NEW t \in Thread, NEW i \in Index, NEW kind \in {"free", "parsed"},
               held[t] = None, held' = held, matchMap[t] \in {None, i},
               matchMap' = [matchMap EXCEPT ![t] = i],
               inGet' = [inGet EXCEPT ![t] = <<kind, i>>]
        PROVE  RecordsOfOwnQueue'
    <3>1. matchMap'[t] = i /\ inGet'[t] = <<kind, i>>
      BY <2>3 DEF TypeOK
    <3>2. \A u \in Thread : u # t => matchMap'[u] = matchMap[u] /\ inGet'[u] = inGet[u]
      BY <2>3 DEF TypeOK
    <3> QED
      BY <2>1, <2>3, <3>1, <3>2 DEF RecordsOfOwnQueue
  <2>4. ASSUME NEW t \in Producer, GetObjectPoolForProducer(t) PROVE RecordsOfOwnQueue'
    <3>1. PICK i : i = ProducerIndex(t)
      OBVIOUS
    <3>2. i \in Index /\ t \in Thread /\ matchMap[t] \in {None, i}
      BY <3>1, ProducerIndexType DEF ProducerIndex, Thread
    <3> QED
      BY <2>3, <2>4, <3>1, <3>2 DEF GetObjectPoolForProducer
  <2>5. ASSUME NEW t \in Consumer, GetObjectPoolForConsumer(t) PROVE RecordsOfOwnQueue'
    <3>1. PICK i : i = ConsumerIndex(t)
      OBVIOUS
    <3>2. i \in Index /\ t \in Thread /\ matchMap[t] \in {None, i}
      BY <3>1, ConsumerIndexType DEF ConsumerIndex, Thread
    <3> QED
      BY <2>3, <2>5, <3>1, <3>2 DEF GetObjectPoolForConsumer
  <2>6. ASSUME NEW t \in Thread, GetObjectPoolFromQueue(t) PROVE RecordsOfOwnQueue'
    <3>1. inGet[t] \in Queue /\ inGet[t][2] = matchMap[t] /\ matchMap' = matchMap
      BY <2>6 DEF GetObjectPoolFromQueue, TypeOK, RecordsOfOwnQueue
    <3>2. CASE PopFront(t, inGet[t])
      <4>1. Head(items[inGet[t]]) = items[inGet[t]][1] /\ 1 \in 1 .. Len(items[inGet[t]])
        BY <3>1, <3>2, PopFacts DEF PopFront, TypeOK
      <4>2. MembershipQueue(Head(items[inGet[t]])) = matchMap[t]
        BY <3>1, <4>1 DEF Ownership, HomeQueue
      <4> QED
        BY <2>2, <3>1, <3>2, <4>2 DEF PopFront, TypeOK
    <3>3. CASE WaitOnQueue(t, inGet[t])
      BY <2>2, <3>1, <3>3 DEF WaitOnQueue
    <3>4. CASE ReturnNull(t, inGet[t])
      BY <2>1, <2>2, <3>1, <3>4 DEF ReturnNull, TypeOK
    <3> QED
      BY <2>6, <3>2, <3>3, <3>4 DEF GetObjectPoolFromQueue
  <2>7. ASSUME NEW t \in Thread,
               \/ SetObjectPoolForConsumer(t) \/ ReleaseObjectPoolForProducer(t)
               \/ AbandonRecord(t) \/ ForgetNull(t)
        PROVE  RecordsOfOwnQueue'
    <3>1. held' = [held EXCEPT ![t] = None] /\ matchMap' = matchMap /\ inGet' = inGet
      BY <2>7 DEF SetObjectPoolForConsumer, ReleaseObjectPoolForProducer, AbandonRecord, ForgetNull
    <3> QED
      BY <2>1, <2>2, <3>1 DEF TypeOK
  <2>8. ASSUME UNCHANGED <<matchMap, inGet, held>> PROVE RecordsOfOwnQueue'
    BY <2>2, <2>8
  <2> QED
    BY <2>4, <2>5, <2>6, <2>7, <2>8
    DEF Next, ProducerStep, ConsumerStep, ThreadStep, Thread, managerVars, SetParsedElement,
        SpuriousWakeup, OpenAllBlockingQueues, CloseBlockingQueue
<1> QED BY <1>1, <1>2, TypeCorrect, OwnershipHolds, PTL DEF Spec

(* With no more decoders than queues, every decoder has a queue of its     *)
(* own: the index is the size of the map, and the modulo never wraps.      *)
ConsumersHaveOwnQueue ==
  \A s, t \in Consumer : matchMap[s] = matchMap[t] /\ matchMap[s] # None => s = t

THEOREM OneQueuePerConsumer ==
  ASSUME Cardinality(Consumer) <= NumQueues
  PROVE  Spec => []ConsumersHaveOwnQueue
<1> DEFINE Size == Cardinality(Registered(Consumer))
           Below == \A t \in Consumer : matchMap[t] # None => matchMap[t] \in 0 .. (Size - 1)
           Inv == Below /\ ConsumersHaveOwnQueue
<1>1. Init => Inv
  BY DEF Init, ConsumersHaveOwnQueue, Thread
<1>2. Size \in Nat /\ IsFiniteSet(Registered(Consumer))
  <2>1. Registered(Consumer) \subseteq Consumer
    BY DEF Registered
  <2> QED BY <2>1, ManagerAssumption, FS_Subset, FS_CardinalityType
<1>3. TypeOK /\ Inv /\ [Next]_managerVars => Inv'
  <2> SUFFICES ASSUME TypeOK, Inv, [Next]_managerVars PROVE Inv'
    OBVIOUS
  <2>1. ASSUME \A t \in Consumer : matchMap'[t] = matchMap[t] PROVE Inv'
    <3>1. Registered(Consumer)' = Registered(Consumer)
      BY <2>1 DEF Registered
    <3>2. Size' = Size
      BY <3>1
    <3> QED BY <2>1, <3>2 DEF ConsumersHaveOwnQueue
  <2>2. ASSUME NEW t \in Consumer, GetObjectPoolForConsumer(t) PROVE Inv'
    <3>1. CASE matchMap[t] # None
      <4>1. \A u \in Consumer : matchMap'[u] = matchMap[u]
        BY <2>2, <3>1 DEF GetObjectPoolForConsumer, ConsumerIndex, TypeOK, Thread
      <4> QED BY <2>1, <4>1
    <3>2. CASE matchMap[t] = None
      <4>1. t \notin Registered(Consumer) /\ Registered(Consumer) \subseteq Consumer
        BY <3>2 DEF Registered
      <4>2. Size < NumQueues
        <5>1. /\ IsFiniteSet(Consumer \ {t})
              /\ Cardinality(Consumer \ {t}) = Cardinality(Consumer) - 1
          BY ManagerAssumption, FS_RemoveElement
        <5>2. Cardinality(Registered(Consumer)) <= Cardinality(Consumer \ {t})
          BY <4>1, <5>1, FS_Subset
        <5> QED BY <1>2, <5>1, <5>2, ManagerAssumption, FS_CardinalityType
      <4>3. Size % NumQueues = Size /\ Size # None
        BY <1>2, <4>2, ManagerAssumption DEF Index
      <4>4. /\ matchMap'[t] = Size
            /\ \A u \in Consumer : u # t => matchMap'[u] = matchMap[u]
        BY <2>2, <3>2, <4>3 DEF GetObjectPoolForConsumer, ConsumerIndex, TypeOK, Thread
      <4>5. Registered(Consumer)' = Registered(Consumer) \cup {t}
        BY <4>3, <4>4 DEF Registered
      <4>6. Size' = Size + 1
        BY <1>2, <4>1, <4>5, FS_AddElement
      <4>7. ASSUME NEW u \in Consumer, u # t, matchMap[u] # None
            PROVE  matchMap[u] \in 0 .. (Size - 1) /\ matchMap[u] # Size
        BY <1>2, <4>7
      <4> HIDE DEF Size
      <4>8. Below'
        BY <1>2, <4>4, <4>6, <4>7
      <4>9. ConsumersHaveOwnQueue'
        BY <4>3, <4>4, <4>7 DEF ConsumersHaveOwnQueue
      <4> QED BY <4>8, <4>9
    <3> QED BY <3>1, <3>2
  <2>3. ASSUME NEW t \in Producer, GetObjectPoolForProducer(t) PROVE Inv'
    <3>1. \A u \in Consumer : matchMap'[u] = matchMap[u]
      BY <2>3, ManagerAssumption DEF GetObjectPoolForProducer, TypeOK, Thread
    <3> QED BY <2>1, <3>1
  <2>4. ASSUME matchMap' = matchMap PROVE Inv'
    BY <2>1, <2>4
  <2> HIDE DEF Inv
  <2> QED
    BY <2>2, <2>3, <2>4
    DEF Next, ProducerStep, ConsumerStep, ThreadStep, managerVars,
        SetObjectPoolForConsumer, SetParsedElement, AbandonRecord, GetObjectPoolFromQueue,
        ReleaseObjectPoolForProducer, ForgetNull, SpuriousWakeup, OpenAllBlockingQueues,
        CloseBlockingQueue
<1> QED BY <1>1, <1>3, TypeCorrect, PTL DEF Spec
-----------------------------------------------------------------------------
(* A sleeping thread is inside get of the queue it sleeps on.              *)
WaitersInside == \A q \in Queue : \A t \in waiting[q] : inGet[t] = q

Served(q) ==
  waiting[q] # {} => isOpen[q] /\ Len(items[q]) <= Cardinality(AwakeInGet(q))

(* Finitely many threads are awake inside get, so they can be counted.     *)
LEMMA AwakeFinite ==
  ASSUME NEW q \in Queue
  PROVE  /\ IsFiniteSet(AwakeInGet(q)) /\ Cardinality(AwakeInGet(q)) \in Nat
         /\ IsFiniteSet(AwakeInGet(q)') /\ Cardinality(AwakeInGet(q)') \in Nat
<1>1. IsFiniteSet(Thread)
  BY ManagerAssumption, FS_Union DEF Thread
<1>2. AwakeInGet(q) \subseteq Thread /\ AwakeInGet(q)' \subseteq Thread
  BY DEF AwakeInGet
<1>. QED BY <1>1, <1>2, FS_Subset, FS_CardinalityType

(* A step that only wakes or brings in threads leaves a queue served.      *)
LEMMA StaysServed ==
  ASSUME TypeOK, NEW q \in Queue, Served(q),
         items'[q] = items[q], waiting'[q] # {} => waiting[q] # {} /\ isOpen'[q] = isOpen[q],
         AwakeInGet(q) \subseteq AwakeInGet(q)'
  PROVE  Served(q)'
<1>1. Cardinality(AwakeInGet(q)) <= Cardinality(AwakeInGet(q)')
  BY AwakeFinite, FS_Subset
<1>2. Len(items[q]) \in Nat
  BY DEF TypeOK
<1>. QED BY <1>1, <1>2, AwakeFinite DEF Served

(* A push wakes a sleeper for the record it adds.                          *)
LEMMA PushServes ==
  ASSUME TypeOK, WaitersInside, \A p \in Queue : Served(p),
         NEW q \in Queue, NEW r \in Record,
         items' = [items EXCEPT ![q] = Append(@, r)], NotifyOne(q),
         UNCHANGED <<isOpen, inGet>>
  PROVE  WaitersInside' /\ \A p \in Queue : Served(p)'
<1>1. CASE waiting[q] = {}
  <2>1. waiting' = waiting
    BY <1>1 DEF NotifyOne
  <2>2. ASSUME NEW p \in Queue PROVE Served(p)'
    <3>1. AwakeInGet(p)' = AwakeInGet(p)
      BY <2>1 DEF AwakeInGet
    <3>2. CASE p = q
      BY <1>1, <2>1, <3>2 DEF Served
    <3>3. CASE p # q
      <4>1. items'[p] = items[p]
        BY <3>3 DEF TypeOK
      <4>. QED BY <2>1, <3>1, <4>1 DEF Served
    <3>. QED BY <3>2, <3>3
  <2>. QED BY <2>1, <2>2 DEF WaitersInside
<1>2. CASE waiting[q] # {}
  <2>1. PICK u \in waiting[q] : waiting' = [waiting EXCEPT ![q] = @ \ {u}]
    BY <1>2 DEF NotifyOne
  <2>2. /\ waiting'[q] = waiting[q] \ {u}
        /\ \A p \in Queue : p # q => waiting'[p] = waiting[p] /\ items'[p] = items[p]
        /\ items'[q] = Append(items[q], r)
        /\ u \in Thread /\ inGet[u] = q
    BY <2>1 DEF TypeOK, WaitersInside
  <2>3. ASSUME NEW p \in Queue, p # q PROVE Served(p)'
    <3>1. AwakeInGet(p)' = AwakeInGet(p)
      BY <2>2, <2>3 DEF AwakeInGet
    <3>. QED BY <2>2, <2>3, <3>1 DEF Served
  <2>4. Served(q)'
    <3>1. AwakeInGet(q)' = AwakeInGet(q) \cup {u} /\ u \notin AwakeInGet(q)
      BY <2>2 DEF AwakeInGet
    <3>2. Cardinality(AwakeInGet(q)') = Cardinality(AwakeInGet(q)) + 1
      BY <3>1, AwakeFinite, FS_AddElement
    <3>3. Len(items'[q]) = Len(items[q]) + 1 /\ Len(items[q]) \in Nat
      BY <2>2, PushFacts DEF TypeOK
    <3>4. isOpen[q] /\ Len(items[q]) <= Cardinality(AwakeInGet(q))
      BY <1>2 DEF Served
    <3>. QED BY <3>2, <3>3, <3>4, AwakeFinite DEF Served
  <2>5. WaitersInside'
    BY <2>2 DEF WaitersInside
  <2>. QED BY <2>3, <2>4, <2>5
<1>. QED BY <1>1, <1>2

(* A thread inside get takes a record, goes to sleep or leaves.            *)
LEMMA GetServes ==
  ASSUME TypeOK, WaitersInside, \A p \in Queue : Served(p),
         NEW t \in Thread, GetObjectPoolFromQueue(t)
  PROVE  WaitersInside' /\ \A p \in Queue : Served(p)'
<1>. PICK q \in Queue : inGet[t] = q
  BY ManagerAssumption DEF GetObjectPoolFromQueue, TypeOK
<1>1. /\ q \in Queue /\ t \notin waiting[q] /\ isOpen' = isOpen
  BY DEF GetObjectPoolFromQueue
<1>2. \A p \in Queue : t \notin waiting[p]
  BY <1>1 DEF WaitersInside
<1>3. CASE PopFront(t, q)
  <2>1. /\ waiting' = waiting
        /\ items[q] # <<>> /\ items'[q] = Tail(items[q])
        /\ \A p \in Queue : p # q => items'[p] = items[p]
        /\ inGet' = [inGet EXCEPT ![t] = None]
    BY <1>1, <1>3 DEF PopFront, TypeOK
  <2>2. \A u \in Thread : u # t => inGet'[u] = inGet[u]
    BY <2>1 DEF TypeOK
  <2>3. inGet'[t] = None
    BY <2>1 DEF TypeOK
  <2>4. WaitersInside'
    BY <1>2, <2>1, <2>2 DEF WaitersInside, TypeOK
  <2>5. ASSUME NEW p \in Queue, p # q PROVE Served(p)'
    <3>1. AwakeInGet(p)' = AwakeInGet(p)
      BY <1>1, <2>1, <2>2, <2>3, <2>5, ManagerAssumption DEF AwakeInGet
    <3>. QED BY <1>1, <2>1, <2>5, <3>1 DEF Served
  <2>6. Served(q)'
    <3>1. AwakeInGet(q)' = AwakeInGet(q) \ {t} /\ t \in AwakeInGet(q)
      BY <1>1, <2>1, <2>2, <2>3, ManagerAssumption DEF AwakeInGet
    <3>2. Cardinality(AwakeInGet(q)') = Cardinality(AwakeInGet(q)) - 1
      BY <1>1, <3>1, AwakeFinite, FS_RemoveElement
    <3>3. Len(items'[q]) = Len(items[q]) - 1 /\ Len(items[q]) \in Nat
      BY <1>1, <2>1, PopFacts DEF TypeOK
    <3>. QED BY <1>1, <2>1, <3>2, <3>3, AwakeFinite DEF Served
  <2>. QED BY <2>4, <2>5, <2>6
<1>4. CASE WaitOnQueue(t, q)
  <2>1. /\ items' = items /\ inGet' = inGet /\ items[q] = <<>> /\ isOpen[q]
        /\ waiting'[q] = waiting[q] \cup {t}
        /\ \A p \in Queue : p # q => waiting'[p] = waiting[p]
    BY <1>1, <1>4 DEF WaitOnQueue, TypeOK
  <2>2. WaitersInside'
    BY <2>1 DEF WaitersInside
  <2>3. ASSUME NEW p \in Queue, p # q PROVE Served(p)'
    <3>1. AwakeInGet(p)' = AwakeInGet(p)
      BY <2>1, <2>3 DEF AwakeInGet
    <3>. QED BY <1>1, <2>1, <2>3, <3>1 DEF Served
  <2>4. Served(q)'
    BY <1>1, <2>1, AwakeFinite DEF Served
  <2>. QED BY <2>2, <2>3, <2>4
<1>5. CASE ReturnNull(t, q)
  <2>1. /\ items' = items /\ waiting' = waiting /\ ~isOpen[q]
        /\ inGet' = [inGet EXCEPT ![t] = None]
    BY <1>5 DEF ReturnNull
  <2>2. \A u \in Thread : u # t => inGet'[u] = inGet[u]
    BY <2>1 DEF TypeOK
  <2>3. inGet'[t] = None
    BY <2>1 DEF TypeOK
  <2>4. WaitersInside'
    BY <1>2, <2>1, <2>2 DEF WaitersInside, TypeOK
  <2>5. ASSUME NEW p \in Queue, p # q PROVE Served(p)'
    <3>1. AwakeInGet(p)' = AwakeInGet(p)
      BY <2>1, <2>2, <2>3, <2>5, ManagerAssumption DEF AwakeInGet
    <3>. QED BY <1>1, <2>1, <3>1 DEF Served
  <2>6. Served(q)'
    BY <1>1, <2>1 DEF Served
  <2>. QED BY <2>4, <2>5, <2>6
<1>. QED BY <1>1, <1>3, <1>4, <1>5 DEF GetObjectPoolFromQueue

(* A thread that enters get of a queue is one more to serve it.            *)
LEMMA EnterServes ==
  ASSUME TypeOK, WaitersInside, \A p \in Queue : Served(p),
         NEW t \in Thread, NEW q \in Queue, inGet[t] = None,
         inGet' = [inGet EXCEPT ![t] = q], UNCHANGED <<items, isOpen, waiting>>
  PROVE  WaitersInside' /\ \A p \in Queue : Served(p)'
<1>1. \A u \in Thread : u # t => inGet'[u] = inGet[u]
  BY DEF TypeOK
<1>2. \A p \in Queue : t \notin waiting[p]
  BY ManagerAssumption DEF WaitersInside
<1>3. WaitersInside'
  BY <1>1, <1>2 DEF WaitersInside, TypeOK
<1>4. ASSUME NEW p \in Queue PROVE Served(p)'
  <2>1. AwakeInGet(p) \subseteq AwakeInGet(p)'
    BY <1>1, ManagerAssumption DEF AwakeInGet
  <2>. QED BY <2>1, StaysServed
<1>. QED BY <1>3, <1>4

(* No thread sleeps on a closed queue, or while the queue holds more       *)
(* records than there are threads on their way to take them.               *)
THEOREM NoWakeupIsLost == Spec => []NoLostWakeup
<1> DEFINE Inv == WaitersInside /\ \A p \in Queue : Served(p)
<1>1. Init => Inv
  BY DEF Init, WaitersInside, Served
<1>2. TypeOK /\ Inv /\ [Next]_managerVars => Inv'
  <2> SUFFICES ASSUME TypeOK, Inv, [Next]_managerVars PROVE Inv'
    OBVIOUS
  <2>1. ASSUME UNCHANGED <<items, isOpen, waiting, inGet>> PROVE Inv'
    BY <2>1 DEF WaitersInside, Served, AwakeInGet
  <2>2. ASSUME NEW t \in Producer, GetObjectPoolForProducer(t) PROVE Inv'
    <3>1. <<"free", ProducerIndex(t)>> \in Queue /\ t \in Thread
      BY ProducerIndexType DEF Queue, Thread
    <3>. QED BY <2>2, <3>1, EnterServes DEF GetObjectPoolForProducer
  <2>3. ASSUME NEW t \in Consumer, GetObjectPoolForConsumer(t) PROVE Inv'
    <3>1. <<"parsed", ConsumerIndex(t)>> \in Queue /\ t \in Thread
      BY ConsumerIndexType DEF Queue, Thread
    <3>. QED BY <2>3, <3>1, EnterServes DEF GetObjectPoolForConsumer
  <2>4. ASSUME NEW t \in Thread, SetObjectPoolForConsumer(t) PROVE Inv'
    BY <2>4, HomeIsQueue, PushServes DEF SetObjectPoolForConsumer
  <2>5. ASSUME NEW t \in Thread, ReleaseObjectPoolForProducer(t) PROVE Inv'
    BY <2>5, HomeIsQueue, PushServes DEF ReleaseObjectPoolForProducer
  <2>6. ASSUME NEW t \in Thread, GetObjectPoolFromQueue(t) PROVE Inv'
    BY <2>6, GetServes
  <2>7. ASSUME NEW t \in Thread, SpuriousWakeup(t) PROVE Inv'
    <3>1. ASSUME NEW p \in Queue
          PROVE  /\ waiting'[p] \subseteq waiting[p]
                 /\ AwakeInGet(p) \subseteq AwakeInGet(p)'
      BY <2>7 DEF SpuriousWakeup, AwakeInGet, TypeOK
    <3>2. ASSUME NEW p \in Queue PROVE Served(p)'
      <4>1. waiting'[p] # {} => waiting[p] # {}
        BY <3>1
      <4>. QED BY <2>7, <3>1, <4>1, StaysServed DEF SpuriousWakeup
    <3>. QED BY <2>7, <3>1, <3>2 DEF SpuriousWakeup, WaitersInside
  <2>8. CASE OpenAllBlockingQueues
    <3>1. ASSUME NEW p \in Queue PROVE isOpen'[p] /\ AwakeInGet(p)' = AwakeInGet(p)
      BY <2>8 DEF OpenAllBlockingQueues, AwakeInGet
    <3>. QED BY <2>8, <3>1 DEF OpenAllBlockingQueues, WaitersInside, Served
  <2>9. ASSUME NEW q \in Queue, CloseBlockingQueue(q) PROVE Inv'
    <3>1. /\ waiting'[q] = {}
          /\ \A p \in Queue : p # q => waiting'[p] = waiting[p] /\ isOpen'[p] = isOpen[p]
          /\ UNCHANGED <<items, inGet>>
      BY <2>9 DEF CloseBlockingQueue, TypeOK
    <3>2. ASSUME NEW p \in Queue, p # q PROVE AwakeInGet(p)' = AwakeInGet(p)
      BY <3>1, <3>2 DEF AwakeInGet
    <3>3. ASSUME NEW p \in Queue PROVE Served(p)'
      BY <3>1, <3>2 DEF Served
    <3>. QED BY <3>1, <3>3 DEF WaitersInside
  <2>. QED
    BY <2>1, <2>2, <2>3, <2>4, <2>5, <2>6, <2>7, <2>8, <2>9
    DEF Next, ProducerStep, ConsumerStep, ThreadStep, Thread, managerVars,
        SetParsedElement, AbandonRecord, ForgetNull
<1>3. Inv => NoLostWakeup
  BY DEF Served, NoLostWakeup
<1>. QED BY <1>1, <1>2, <1>3, TypeCorrect, PTL DEF Spec
=============================================================================
