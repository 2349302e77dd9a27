--------------------------- MODULE ThreadPoolProofs ---------------------------
(***************************************************************************)
(* What ThreadPool.hpp guarantees for any number of tasks and workers: no  *)
(* wakeup is lost although notify_one is called outside the mutex, a       *)
(* destroyed pool leaves no task behind, and the class is a TaskPool.      *)
(***************************************************************************)
EXTENDS ThreadPool, FiniteSetTheorems, SequenceTheorems, TLAPS

(* A sleeping worker runs nothing and has not left its loop; nobody leaves *)
(* it before the pool is stopped and the queue empty, nor in a task.       *)
WorkersApart ==
  /\ \A w \in asleep : running[w] = NoTask /\ w \notin exited
  /\ \A w \in exited : running[w] = NoTask
  /\ exited # {} => stop /\ tasks = <<>>
  /\ destructor # "none" <=> stop
  /\ destructor = "joined" => exited = Worker

(* A pending future belongs to a task in the queue or in a worker.         *)
PendingIsInPool ==
  \A k \in Task : future[k] = "pending" =>
    \/ \E i \in 1 .. Len(tasks) : tasks[i] = k
    \/ \E w \in Worker : running[w] = k

PoolInv == TypeOK /\ WorkersApart /\ NoLostWakeup /\ PendingIsInPool

-----------------------------------------------------------------------------
(* The workers that would look at the queue are finitely many.             *)
LEMMA AwakeFinite ==
  /\ IsFiniteSet(AwakeIdle)
  /\ Cardinality(AwakeIdle) \in Nat
<1>1. AwakeIdle \subseteq Worker
  BY DEF AwakeIdle
<1> QED
  BY <1>1, ThreadPoolAssumption, FS_Subset, FS_CardinalityType

(* The invariant holds in a pool just constructed.                         *)
LEMMA InitPool == Init => PoolInv
<1> SUFFICES ASSUME Init PROVE PoolInv
  OBVIOUS
<1>1. TypeOK
  <2>1. tasks \in Seq(Task)
    BY DEF Init
  <2> QED
    BY <2>1 DEF Init, TypeOK
<1> QED
  BY <1>1 DEF Init, PoolInv, WorkersApart, NoLostWakeup, PendingIsInPool

(* Every variable keeps its type.                                          *)
LEMMA TypeStep == TypeOK /\ [Next]_vars => TypeOK'
<1> SUFFICES ASSUME TypeOK, [Next]_vars PROVE TypeOK'
  OBVIOUS
<1> USE DEF TypeOK
<1>1. ASSUME NEW k \in Task, Emplace(k) PROVE TypeOK'
  BY <1>1 DEF Emplace
<1>2. ASSUME NEW k \in Task, Refuse(k) PROVE TypeOK'
  BY <1>2 DEF Refuse
<1>3. ASSUME NEW k \in Task, GetResult(k) PROVE TypeOK'
  BY <1>3 DEF GetResult
<1>4. CASE Notify
  BY <1>4 DEF Notify
<1>5. ASSUME NEW w \in Worker, Sleep(w) PROVE TypeOK'
  BY <1>5 DEF Sleep, AwakeIdle
<1>6. ASSUME NEW w \in Worker, Take(w) PROVE TypeOK'
  <2>1. Head(tasks) \in Task /\ Tail(tasks) \in Seq(Task)
    BY <1>6, HeadTailProperties DEF Take
  <2> QED
    BY <1>6, <2>1 DEF Take
<1>7. ASSUME NEW w \in Worker, Exit(w) PROVE TypeOK'
  BY <1>7 DEF Exit, AwakeIdle
<1>8. ASSUME NEW w \in Worker, NEW o \in {"value", "exception"}, Complete(w, o) PROVE TypeOK'
  BY <1>8 DEF Complete
<1>9. ASSUME NEW w \in Worker, SpuriousWakeup(w) PROVE TypeOK'
  BY <1>9 DEF SpuriousWakeup
<1>10. CASE StopPool \/ NotifyAll \/ JoinWorkers
  BY <1>10 DEF StopPool, NotifyAll, JoinWorkers
<1>11. CASE UNCHANGED vars
  BY <1>11 DEF vars
<1> QED
  BY <1>1, <1>2, <1>3, <1>4, <1>5, <1>6, <1>7, <1>8, <1>9, <1>10, <1>11 DEF Next, WorkerStep

(* Sleeping, running and leaving the loop exclude each other.              *)
LEMMA ApartStep == PoolInv /\ [Next]_vars => WorkersApart'
<1> SUFFICES ASSUME PoolInv, [Next]_vars PROVE WorkersApart'
  OBVIOUS
<1> USE ThreadPoolAssumption DEF PoolInv, TypeOK, WorkersApart
<1>1. ASSUME NEW k \in Task, Emplace(k) PROVE WorkersApart'
  BY <1>1 DEF Emplace
<1>2. ASSUME NEW k \in Task, Refuse(k) PROVE WorkersApart'
  BY <1>2 DEF Refuse
<1>3. ASSUME NEW k \in Task, GetResult(k) PROVE WorkersApart'
  BY <1>3 DEF GetResult
<1>4. CASE Notify
  BY <1>4 DEF Notify
<1>5. ASSUME NEW w \in Worker, Sleep(w) PROVE WorkersApart'
  BY <1>5 DEF Sleep, AwakeIdle
<1>6. ASSUME NEW w \in Worker, Take(w) PROVE WorkersApart'
  BY <1>6 DEF Take, AwakeIdle
<1>7. ASSUME NEW w \in Worker, Exit(w) PROVE WorkersApart'
  BY <1>7 DEF Exit, AwakeIdle
<1>8. ASSUME NEW w \in Worker, NEW o \in {"value", "exception"}, Complete(w, o)
      PROVE  WorkersApart'
  BY <1>8 DEF Complete
<1>9. ASSUME NEW w \in Worker, SpuriousWakeup(w) PROVE WorkersApart'
  BY <1>9 DEF SpuriousWakeup
<1>10. CASE StopPool \/ NotifyAll \/ JoinWorkers
  BY <1>10 DEF StopPool, NotifyAll, JoinWorkers
<1>11. CASE UNCHANGED vars
  BY <1>11 DEF vars
<1> QED
  BY <1>1, <1>2, <1>3, <1>4, <1>5, <1>6, <1>7, <1>8, <1>9, <1>10, <1>11 DEF Next, WorkerStep

(* The count behind notify_one: a task enters the queue together with a    *)
(* notification to come; a notification or a spurious wakeup adds an awake *)
(* worker; an awake worker that takes a task takes it off the queue, and   *)
(* one sleeps or leaves only when the queue is empty.                      *)
LEMMA WakeupStep == PoolInv /\ TypeOK' /\ [Next]_vars => NoLostWakeup'
<1> SUFFICES ASSUME PoolInv, TypeOK', [Next]_vars PROVE NoLostWakeup'
  OBVIOUS
<1> USE DEF PoolInv, NoLostWakeup
<1>a. IsFiniteSet(AwakeIdle) /\ Cardinality(AwakeIdle) \in Nat
  BY AwakeFinite
<1>b. /\ Len(tasks) \in Nat /\ toNotify \in Nat
      /\ Len(tasks') \in Nat /\ toNotify' \in Nat
  BY DEF TypeOK
<1>c. ASSUME NEW w \in asleep,
             AwakeIdle' = AwakeIdle \cup {w}
      PROVE  Cardinality(AwakeIdle') = Cardinality(AwakeIdle) + 1
  <2>1. w \notin AwakeIdle
    BY DEF AwakeIdle
  <2> QED
    BY <1>a, <1>c, <2>1, FS_AddElement
<1>1. ASSUME NEW k \in Task, Emplace(k) PROVE NoLostWakeup'
  <2>1. AwakeIdle' = AwakeIdle
    BY <1>1 DEF Emplace, AwakeIdle
  <2>2. Len(tasks') = Len(tasks) + 1 /\ toNotify' = toNotify + 1 /\ asleep' = asleep
    BY <1>1 DEF Emplace, TypeOK
  <2> QED
    BY <1>a, <1>b, <2>1, <2>2
<1>2. ASSUME UNCHANGED <<tasks, running, asleep, toNotify, exited>> PROVE NoLostWakeup'
  BY <1>2 DEF AwakeIdle
<1>3. CASE Notify
  <2>1. CASE asleep = {}
    BY <1>3, <2>1 DEF Notify
  <2>2. ASSUME NEW w \in asleep, asleep' = asleep \ {w} PROVE NoLostWakeup'
    <3>1. AwakeIdle' = AwakeIdle \cup {w}
      BY <1>3, <2>2 DEF Notify, AwakeIdle, WorkersApart, TypeOK
    <3>2. Cardinality(AwakeIdle') = Cardinality(AwakeIdle) + 1
      BY <1>c, <3>1
    <3>3. tasks' = tasks /\ toNotify' = toNotify - 1
      BY <1>3 DEF Notify
    <3> QED
      BY <1>a, <1>b, <3>2, <3>3
  <2> QED
    BY <1>3, <2>1, <2>2 DEF Notify
<1>4. ASSUME NEW w \in Worker, SpuriousWakeup(w) PROVE NoLostWakeup'
  <2>1. AwakeIdle' = AwakeIdle \cup {w}
    BY <1>4 DEF SpuriousWakeup, AwakeIdle, WorkersApart
  <2>2. Cardinality(AwakeIdle') = Cardinality(AwakeIdle) + 1
    BY <1>4, <1>c, <2>1 DEF SpuriousWakeup
  <2>3. tasks' = tasks /\ toNotify' = toNotify /\ asleep # {}
    BY <1>4 DEF SpuriousWakeup
  <2> QED
    BY <1>a, <1>b, <2>2, <2>3
<1>5. ASSUME NEW w \in Worker, Sleep(w) \/ Exit(w) PROVE NoLostWakeup'
  <2>1. Len(tasks') = 0 /\ toNotify' = toNotify
    BY <1>5 DEF Sleep, Exit
  <2>2. IsFiniteSet(AwakeIdle') /\ Cardinality(AwakeIdle') \in Nat
    <3>1. AwakeIdle' \subseteq Worker
      BY DEF AwakeIdle
    <3> QED
      BY <3>1, ThreadPoolAssumption, FS_Subset, FS_CardinalityType
  <2> QED
    BY <1>b, <2>1, <2>2
<1>6. ASSUME NEW w \in Worker, Take(w) PROVE NoLostWakeup'
  <2>1. Head(tasks) \in Task
    BY <1>6, HeadTailProperties DEF Take, TypeOK
  <2>2. AwakeIdle' = AwakeIdle \ {w} /\ w \in AwakeIdle
    BY <1>6, <2>1, ThreadPoolAssumption DEF Take, AwakeIdle, TypeOK
  <2>3. Cardinality(AwakeIdle') = Cardinality(AwakeIdle) - 1
    BY <1>a, <2>2, FS_RemoveElement
  <2>4. Len(tasks') = Len(tasks) - 1 /\ toNotify' = toNotify /\ asleep' = asleep
    BY <1>6, HeadTailProperties DEF Take, TypeOK
  <2> QED
    BY <1>a, <1>b, <2>3, <2>4
<1>7. ASSUME NEW w \in Worker, NEW o \in {"value", "exception"}, Complete(w, o)
      PROVE  NoLostWakeup'
  <2>1. AwakeIdle \subseteq AwakeIdle'
    BY <1>7, ThreadPoolAssumption DEF Complete, AwakeIdle, TypeOK
  <2>2. IsFiniteSet(AwakeIdle')
    <3>1. AwakeIdle' \subseteq Worker
      BY DEF AwakeIdle
    <3> QED
      BY <3>1, ThreadPoolAssumption, FS_Subset
  <2>3. Cardinality(AwakeIdle) <= Cardinality(AwakeIdle') /\ Cardinality(AwakeIdle') \in Nat
    BY <2>1, <2>2, FS_Subset, FS_CardinalityType
  <2>4. tasks' = tasks /\ toNotify' = toNotify /\ asleep' = asleep
    BY <1>7 DEF Complete
  <2> QED
    BY <1>a, <1>b, <2>3, <2>4
<1>8. CASE NotifyAll
  BY <1>8 DEF NotifyAll
<1> QED
  BY <1>1, <1>2, <1>3, <1>4, <1>5, <1>6, <1>7, <1>8
  DEF Next, WorkerStep, vars, Refuse, GetResult, StopPool, JoinWorkers

(* A task leaves the queue only into a worker and the worker only with its *)
(* result.                                                                 *)
LEMMA PendingStep == PoolInv /\ [Next]_vars => PendingIsInPool'
<1> SUFFICES ASSUME PoolInv, [Next]_vars PROVE PendingIsInPool'
  OBVIOUS
<1> USE DEF PoolInv, TypeOK, PendingIsInPool
<1>1. ASSUME NEW k \in Task, Emplace(k) PROVE PendingIsInPool'
  <2> SUFFICES ASSUME NEW j \in Task, future'[j] = "pending"
               PROVE  \/ \E i \in 1 .. Len(tasks') : tasks'[i] = j
                      \/ \E w \in Worker : running'[w] = j
    OBVIOUS
  <2>1. /\ Len(tasks') = Len(tasks) + 1 /\ tasks'[Len(tasks) + 1] = k
        /\ \A i \in 1 .. Len(tasks) : tasks'[i] = tasks[i]
    BY <1>1, AppendProperties DEF Emplace
  <2>2. CASE j = k
    BY <2>1, <2>2
  <2>3. CASE j # k
    <3>1. future[j] = "pending" /\ running' = running
      BY <1>1, <2>3 DEF Emplace
    <3>2. CASE \E w \in Worker : running[w] = j
      BY <3>1, <3>2
    <3>3. CASE \E i \in 1 .. Len(tasks) : tasks[i] = j
      BY <2>1, <3>3
    <3> QED
      BY <3>1, <3>2, <3>3
  <2> QED
    BY <2>2, <2>3
<1>2. ASSUME NEW w \in Worker, Take(w) PROVE PendingIsInPool'
  <2> SUFFICES ASSUME NEW j \in Task, future'[j] = "pending"
               PROVE  \/ \E i \in 1 .. Len(tasks') : tasks'[i] = j
                      \/ \E v \in Worker : running'[v] = j
    OBVIOUS
  <2>1. /\ future' = future /\ running' = [running EXCEPT ![w] = tasks[1]]
        /\ running[w] = NoTask
        /\ Len(tasks') = Len(tasks) - 1
        /\ \A i \in 1 .. Len(tasks') : tasks'[i] = tasks[i + 1]
    BY <1>2, HeadTailProperties DEF Take, AwakeIdle
  <2>2. CASE \E v \in Worker : running[v] = j
    BY <2>1, <2>2, ThreadPoolAssumption
  <2>3. ASSUME NEW i \in 1 .. Len(tasks), tasks[i] = j
        PROVE  \/ \E n \in 1 .. Len(tasks') : tasks'[n] = j
               \/ \E v \in Worker : running'[v] = j
    <3>1. CASE i = 1
      BY <2>1, <2>3, <3>1
    <3>2. CASE i # 1
      <4>1. i - 1 \in 1 .. Len(tasks') /\ tasks'[i - 1] = j
        BY <2>1, <2>3, <3>2
      <4> QED
        BY <4>1
    <3> QED
      BY <3>1, <3>2
  <2> QED
    BY <2>1, <2>2, <2>3
<1>3. ASSUME NEW w \in Worker, NEW o \in {"value", "exception"}, Complete(w, o)
      PROVE  PendingIsInPool'
  BY <1>3, ThreadPoolAssumption DEF Complete
<1>4. ASSUME NEW k \in Task, Refuse(k) \/ GetResult(k) PROVE PendingIsInPool'
  BY <1>4 DEF Refuse, GetResult
<1>5. ASSUME UNCHANGED <<tasks, running, future>> PROVE PendingIsInPool'
  BY <1>5
<1> QED
  BY <1>1, <1>2, <1>3, <1>4, <1>5
  DEF Next, WorkerStep, vars, Notify, Sleep, Exit, SpuriousWakeup, StopPool, NotifyAll, JoinWorkers

(* The invariant of every reachable state of the pool.                     *)
THEOREM PoolInvariant == Spec => []PoolInv
<1>1. Init => PoolInv
  BY InitPool
<1>2. PoolInv /\ [Next]_vars => PoolInv'
  BY TypeStep, ApartStep, WakeupStep, PendingStep DEF PoolInv
<1> QED
  BY <1>1, <1>2, PTL DEF Spec

(* No wakeup is lost, for any number of tasks and workers: ThreadPool.hpp  *)
(* may call notify_one after it has released the mutex.                    *)
THEOREM NoWakeupIsLost == Spec => []NoLostWakeup
<1>1. PoolInv => NoLostWakeup
  BY DEF PoolInv
<1> QED
  BY <1>1, PoolInvariant, PTL

NothingAbandoned == destructor = "joined" => \A k \in Task : future[k] # "pending"

(* When the destructor has returned no accepted task is left: the futures  *)
(* of the client are ready or were never accepted.                         *)
THEOREM DestroyedPoolIsEmpty == Spec => []NothingAbandoned
<1>1. PoolInv => NothingAbandoned
  <2> SUFFICES ASSUME PoolInv, destructor = "joined", NEW k \in Task, future[k] = "pending"
               PROVE  FALSE
    BY DEF NothingAbandoned
  <2>1. exited = Worker /\ tasks = <<>> /\ \A w \in Worker : running[w] = NoTask
    BY ThreadPoolAssumption DEF PoolInv, WorkersApart
  <2> QED
    BY <2>1, ThreadPoolAssumption DEF PoolInv, PendingIsInPool
<1> QED
  BY <1>1, PoolInvariant, PTL

-----------------------------------------------------------------------------
(* Every step of a worker, a client or the destructor is a step of the     *)
(* abstract pool or leaves it as it is.                                    *)
LEMMA PoolStepRefines == TypeOK /\ [Next]_vars => [Abstract!Next]_(Abstract!taskVars)
<1> SUFFICES ASSUME TypeOK, [Next]_vars
             PROVE  Abstract!Next \/ UNCHANGED Abstract!taskVars
  OBVIOUS
<1> USE DEF TypeOK
<1>1. ASSUME NEW k \in Task, Emplace(k) PROVE Abstract!Enqueue("pool", k)
  BY <1>1 DEF Emplace, Abstract!Enqueue, OnePool
<1>2. ASSUME NEW k \in Task, Refuse(k) PROVE UNCHANGED Abstract!taskVars
  BY <1>2 DEF Refuse, Abstract!taskVars
<1>3. ASSUME NEW k \in Task, GetResult(k) PROVE Abstract!GetResult(k)
  BY <1>3 DEF GetResult, Abstract!GetResult
<1>4. ASSUME NEW w \in Worker, Take(w) PROVE Abstract!Take(w)
  BY <1>4 DEF Take, AwakeIdle, Abstract!Take, OnePool
<1>5. ASSUME NEW w \in Worker, NEW o \in {"value", "exception"}, Complete(w, o)
      PROVE  Abstract!Complete(w, o)
  BY <1>5, ThreadPoolAssumption DEF Complete, Abstract!Complete
<1>6. ASSUME UNCHANGED <<tasks, running, future>> PROVE UNCHANGED Abstract!taskVars
  BY <1>6 DEF Abstract!taskVars
<1>7. "pool" \in OnePool
  BY DEF OnePool
<1> QED
  BY <1>1, <1>2, <1>3, <1>4, <1>5, <1>6, <1>7
  DEF Next, WorkerStep, vars, Notify, Sleep, Exit, SpuriousWakeup, StopPool, NotifyAll,
      JoinWorkers, Abstract!Next

(* ThreadPool.hpp is a TaskPool: each task is started once, in the order   *)
(* of the calls of enqueue, by an idle worker, whatever sleeps and wakes.  *)
THEOREM ThreadPoolIsTaskPool == Spec => ImplementsTaskPool
<1>1. Init => Abstract!Init
  BY DEF Init, Abstract!Init
<1>2. PoolInv => TypeOK
  BY DEF PoolInv
<1> QED
  BY <1>1, <1>2, PoolInvariant, PoolStepRefines, PTL
  DEF Spec, ImplementsTaskPool, Abstract!Spec

=============================================================================
