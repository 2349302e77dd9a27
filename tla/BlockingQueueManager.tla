------------------------ MODULE BlockingQueueManager ------------------------
(***************************************************************************)
(* The hand-off of ParsedRecord objects between parser threads (producers) *)
(* and decoder threads (consumers).                                        *)
(*                                                                         *)
(* The manager owns, for every producer thread, one queue of free records  *)
(* (ParserBlockingQueue) and one queue of parsed records                   *)
(* (DecoderBlockingQueue).  Each queue has a mutex, a condition variable   *)
(* and an open flag.  A critical section of the code is one action here; a *)
(* thread blocked in queueCv.wait is a member of waiting[q].  A notified   *)
(* thread leaves waiting[q] and evaluates the wait predicate again, which  *)
(* is the same three-way choice as on entry.                               *)
(***************************************************************************)
EXTENDS Naturals, Sequences, FiniteSets

CONSTANTS
  Producer,   (* threads of the parser thread pool                            *)
  Consumer,   (* threads of the consumer thread pool                          *)
  NumQueues,  (* queues of each kind: one per producer thread                 *)
  PoolSize,   (* records preallocated in each free queue                      *)
  Element,    (* what a parser stores in a record (ParsedElement values)      *)
  MaxElements,(* bound of the model on the elements stored in one record      *)
  None,       (* no record, no queue, no map entry                            *)
  NullPtr     (* the nullptr a closed and empty queue returns                 *)

Thread == Producer \cup Consumer
Index  == 0 .. (NumQueues - 1)
Queue  == {"free", "parsed"} \X Index
Record == Index \X (1 .. PoolSize)

(***************************************************************************)
(* A producer has a queue of its own, and the pools are never empty: the   *)
(* number of preallocated records is raised to the number of producers.    *)
(***************************************************************************)
ASSUME ManagerAssumption ==
  /\ IsFiniteSet(Producer) /\ IsFiniteSet(Consumer)
  /\ Producer \cap Consumer = {}
  /\ NumQueues \in Nat \ {0} /\ Cardinality(Producer) = NumQueues
  /\ PoolSize \in Nat \ {0} /\ MaxElements \in Nat \ {0}
  /\ None \notin Record \cup Queue \cup Index
  /\ NullPtr \notin Record \cup {None}

VARIABLES
  items,      (* items[q]: the records in queue q, oldest first               *)
  isOpen,     (* isOpen[q]: blockingQueueIsOpen                               *)
  waiting,    (* waiting[q]: the threads blocked on queueCv of q              *)
  inGet,      (* inGet[t]: the queue whose getObjectPoolFromQueue t executes  *)
  held,       (* held[t]: the record pointer in t's local variable            *)
  matchMap,   (* matchMap[t]: the queue index assigned to thread t            *)
  elements    (* elements[r]: the elements stored in record r                 *)

managerVars == <<items, isOpen, waiting, inGet, held, matchMap, elements>>

-----------------------------------------------------------------------------
(* membershipQueue of a record, set once when the record is allocated.     *)
MembershipQueue(r) == r[1]

(* The index of a thread's queue: the entry of the map if there is one,    *)
(* else the number of threads already in the map (modulo the number of     *)
(* queues on the consumer side).                                           *)
Registered(peers) == {t \in peers : matchMap[t] # None}

(* Mutant: the size of the other map is taken.                             *)
MutantWrongMapIndex(t) ==
  IF matchMap[t] # None
  THEN matchMap[t]
  ELSE Cardinality(Registered(Consumer)) % NumQueues

ProducerIndex(t) ==
  IF matchMap[t] # None THEN matchMap[t] ELSE Cardinality(Registered(Producer))

ConsumerIndex(t) ==
  IF matchMap[t] # None
  THEN matchMap[t]
  ELSE Cardinality(Registered(Consumer)) % NumQueues

(* Mutant: the notification is forgotten.                                  *)
MutantNoNotify(q) == UNCHANGED waiting

(* queueCv.notify_one(): any one of the waiting threads is woken up.       *)
NotifyOne(q) ==
  IF waiting[q] = {}
  THEN UNCHANGED waiting
  ELSE \E t \in waiting[q] : waiting' = [waiting EXCEPT ![q] = @ \ {t}]

(* The mutual exclusion of the map makes registration one step; the call   *)
(* of the queue that follows is a step of its own.                         *)
GetObjectPoolForProducer(t) ==
  /\ held[t] = None /\ inGet[t] = None
  /\ matchMap' = [matchMap EXCEPT ![t] = ProducerIndex(t)]
  /\ inGet' = [inGet EXCEPT ![t] = <<"free", ProducerIndex(t)>>]
  /\ UNCHANGED <<items, isOpen, waiting, held, elements>>

GetObjectPoolForConsumer(t) ==
  /\ held[t] = None /\ inGet[t] = None
  /\ matchMap' = [matchMap EXCEPT ![t] = ConsumerIndex(t)]
  /\ inGet' = [inGet EXCEPT ![t] = <<"parsed", ConsumerIndex(t)>>]
  /\ UNCHANGED <<items, isOpen, waiting, held, elements>>

(* Mutant: front() without pop().                                          *)
MutantPeekFront(t, q) ==
  /\ items[q] # <<>>
  /\ held' = [held EXCEPT ![t] = Head(items[q])]
  /\ inGet' = [inGet EXCEPT ![t] = None]
  /\ UNCHANGED <<items, waiting>>

(* Mutant: a stack instead of a queue.                                     *)
MutantPopBack(t, q) ==
  /\ items[q] # <<>>
  /\ held' = [held EXCEPT ![t] = items[q][Len(items[q])]]
  /\ items' = [items EXCEPT ![q] = SubSeq(@, 1, Len(@) - 1)]
  /\ inGet' = [inGet EXCEPT ![t] = None]
  /\ UNCHANGED waiting

(* getObjectPoolFromQueue of either kind of queue, run by a thread that    *)
(* just entered it or was woken up in it.                                  *)
PopFront(t, q) ==
  /\ items[q] # <<>>
  /\ held' = [held EXCEPT ![t] = Head(items[q])]
  /\ items' = [items EXCEPT ![q] = Tail(@)]
  /\ inGet' = [inGet EXCEPT ![t] = None]
  /\ UNCHANGED waiting

WaitOnQueue(t, q) ==
  /\ items[q] = <<>> /\ isOpen[q]
  /\ waiting' = [waiting EXCEPT ![q] = @ \cup {t}]
  /\ UNCHANGED <<items, inGet, held>>

ReturnNull(t, q) ==
  /\ items[q] = <<>> /\ ~isOpen[q]
  /\ held' = [held EXCEPT ![t] = NullPtr]
  /\ inGet' = [inGet EXCEPT ![t] = None]
  /\ UNCHANGED <<items, waiting>>

GetObjectPoolFromQueue(t) ==
  /\ inGet[t] # None
  /\ t \notin waiting[inGet[t]]
  /\ \/ PopFront(t, inGet[t])
     \/ WaitOnQueue(t, inGet[t])
     \/ ReturnNull(t, inGet[t])
  /\ UNCHANGED <<isOpen, matchMap, elements>>

(* condition_variable::wait may return without a notification.             *)
SpuriousWakeup(t) ==
  /\ inGet[t] # None
  /\ t \in waiting[inGet[t]]
  /\ waiting' = [waiting EXCEPT ![inGet[t]] = @ \ {t}]
  /\ UNCHANGED <<items, isOpen, inGet, held, matchMap, elements>>

(* A parser stores one more element in the record it holds; the code grows *)
(* the record without limit, the model stops at MaxElements.               *)
SetParsedElement(t, e) ==
  /\ held[t] \in Record
  /\ Len(elements[held[t]]) < MaxElements
  /\ elements' = [elements EXCEPT ![held[t]] = Append(@, e)]
  /\ UNCHANGED <<items, isOpen, waiting, inGet, held, matchMap>>

(* The record goes to the consumer queue with its home index.              *)
SetObjectPoolForConsumer(t) ==
  /\ held[t] \in Record
  /\ LET q == <<"parsed", MembershipQueue(held[t])>> IN
       /\ items' = [items EXCEPT ![q] = Append(@, held[t])]
       /\ NotifyOne(q)
  /\ held' = [held EXCEPT ![t] = None]
  /\ UNCHANGED <<isOpen, inGet, matchMap, elements>>

(* Mutant: setFreeAllElements is not called.                               *)
MutantReleaseUncleared(t) ==
  /\ held[t] \in Record
  /\ LET q == <<"free", MembershipQueue(held[t])>> IN
       /\ items' = [items EXCEPT ![q] = Append(@, held[t])]
       /\ NotifyOne(q)
  /\ held' = [held EXCEPT ![t] = None]
  /\ UNCHANGED <<isOpen, inGet, matchMap, elements>>

(* The record is emptied and goes back to the producer queue with its home *)
(* index, whatever thread releases it and whether the queue is open.       *)
ReleaseObjectPoolForProducer(t) ==
  /\ held[t] \in Record
  /\ LET q == <<"free", MembershipQueue(held[t])>> IN
       /\ elements' = [elements EXCEPT ![held[t]] = <<>>]
       /\ items' = [items EXCEPT ![q] = Append(@, held[t])]
       /\ NotifyOne(q)
  /\ held' = [held EXCEPT ![t] = None]
  /\ UNCHANGED <<isOpen, inGet, matchMap>>

(* An exception leaves the function that holds a record: its pointer is    *)
(* gone and the record is in no queue any more.                            *)
AbandonRecord(t) ==
  /\ held[t] \in Record
  /\ held' = [held EXCEPT ![t] = None]
  /\ UNCHANGED <<items, isOpen, waiting, inGet, matchMap, elements>>

(* The loop of the caller ends on nullptr.                                 *)
ForgetNull(t) ==
  /\ held[t] = NullPtr
  /\ held' = [held EXCEPT ![t] = None]
  /\ UNCHANGED <<items, isOpen, waiting, inGet, matchMap, elements>>

OpenAllBlockingQueues ==
  /\ isOpen' = [q \in Queue |-> TRUE]
  /\ UNCHANGED <<items, waiting, inGet, held, matchMap, elements>>

(* Mutant: the flag is cleared and nobody is notified.                     *)
MutantCloseSilently(q) ==
  /\ isOpen' = [isOpen EXCEPT ![q] = FALSE]
  /\ UNCHANGED <<items, waiting, inGet, held, matchMap, elements>>

(* close takes the mutex, so it is a step of its own for every queue.      *)
CloseBlockingQueue(q) ==
  /\ isOpen' = [isOpen EXCEPT ![q] = FALSE]
  /\ waiting' = [waiting EXCEPT ![q] = {}]
  /\ UNCHANGED <<items, inGet, held, matchMap, elements>>

-----------------------------------------------------------------------------
Init ==
  /\ items = [q \in Queue |-> IF q[1] = "free"
                              THEN [i \in 1 .. PoolSize |-> <<q[2], i>>]
                              ELSE <<>>]
  /\ isOpen = [q \in Queue |-> TRUE]
  /\ waiting = [q \in Queue |-> {}]
  /\ inGet = [t \in Thread |-> None]
  /\ held = [t \in Thread |-> None]
  /\ matchMap = [t \in Thread |-> None]
  /\ elements = [r \in Record |-> <<>>]

ProducerStep(t) ==
  \/ GetObjectPoolForProducer(t)
  \/ SetObjectPoolForConsumer(t)
  \/ \E e \in Element : SetParsedElement(t, e)

ConsumerStep(t) ==
  \/ GetObjectPoolForConsumer(t)
  \/ AbandonRecord(t)

ThreadStep(t) ==
  \/ GetObjectPoolFromQueue(t)
  \/ ReleaseObjectPoolForProducer(t)
  \/ ForgetNull(t)
  \/ SpuriousWakeup(t)

Next ==
  \/ \E t \in Producer : ProducerStep(t)
  \/ \E t \in Consumer : ConsumerStep(t)
  \/ \E t \in Thread : ThreadStep(t)
  \/ OpenAllBlockingQueues
  \/ \E q \in Queue : CloseBlockingQueue(q)

Spec == Init /\ [][Next]_managerVars

-----------------------------------------------------------------------------
TypeOK ==
  /\ items \in [Queue -> Seq(Record)]
  /\ isOpen \in [Queue -> BOOLEAN]
  /\ waiting \in [Queue -> SUBSET Thread]
  /\ inGet \in [Thread -> Queue \cup {None}]
  /\ held \in [Thread -> Record \cup {None, NullPtr}]
  /\ matchMap \in [Thread -> Index \cup {None}]
  /\ elements \in [Record -> Seq(Element)]

(* A record object is in one place at a time: once in one queue, and then  *)
(* only in a queue of its home index, or in the hands of a single thread.  *)
(* No two threads ever fill, read or free the same ParsedRecord, whatever  *)
(* the interleaving of the parser and decoder threads.                     *)
HomeQueue ==
  \A q \in Queue : \A i \in 1 .. Len(items[q]) : MembershipQueue(items[q][i]) = q[2]

QueuedOnce ==
  \A p, q \in Queue : \A i \in 1 .. Len(items[p]) : \A j \in 1 .. Len(items[q]) :
    items[p][i] = items[q][j] => p = q /\ i = j

HeldOrQueued ==
  \A q \in Queue : \A i \in 1 .. Len(items[q]) : \A t \in Thread : held[t] # items[q][i]

HeldByOne ==
  \A s, t \in Thread : held[s] = held[t] /\ held[s] \in Record => s = t

Ownership == HomeQueue /\ QueuedOnce /\ HeldOrQueued /\ HeldByOne

(* A record taken from a free queue never carries elements of the record   *)
(* it held before: setFreeAllElements ran before the record became         *)
(* available, even when the parser gave up half-way through a record.      *)
FreeRecordsAreEmpty ==
  \A q \in Queue : q[1] = "free" =>
    \A i \in 1 .. Len(items[q]) : elements[items[q][i]] = <<>>

(* No lost wakeup: while a thread sleeps on a queue, the queue is open and *)
(* every record in it has a thread awake inside get to take it.  Push      *)
(* notifies one thread only, and a thread that is not waiting may overtake *)
(* the notified one.                                                       *)
AwakeInGet(q) == {t \in Thread : inGet[t] = q /\ t \notin waiting[q]}

NoLostWakeup ==
  \A q \in Queue : waiting[q] # {} =>
    isOpen[q] /\ Len(items[q]) <= Cardinality(AwakeInGet(q))

(* The map gives every producer thread a queue of its own, so a record is  *)
(* never parsed by a thread whose free queue is shared.                    *)
ProducersHaveOwnQueue ==
  \A s, t \in Producer : matchMap[s] = matchMap[t] /\ matchMap[s] # None => s = t
=============================================================================
