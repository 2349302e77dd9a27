----------------------------- MODULE ThreadPool -----------------------------
(***************************************************************************)
(* ThreadPool.hpp: one pool of workers, its task queue, the mutex and      *)
(* condition variable of the queue, and the destructor.  A worker sleeps   *)
(* in condition.wait until there is a task or the pool stops; enqueue      *)
(* notifies one sleeping worker AFTER it has released the mutex, so other  *)
(* threads may run in between.                                             *)
(***************************************************************************)
EXTENDS Naturals, Sequences, FiniteSets

CONSTANTS Task, Worker, NoTask

ASSUME ThreadPoolAssumption ==
  /\ IsFiniteSet(Worker) /\ Worker # {}
  /\ NoTask \notin Task

VARIABLES
  tasks,      (* the queue of tasks not started                              *)
  running,    (* running[w]: the task w executes outside the mutex           *)
  future,     (* future[k]: as in TaskPool, or "refused" by a stopped pool   *)
  asleep,     (* the workers blocked in condition.wait                       *)
  toNotify,   (* enqueue calls between the unlock and notify_one             *)
  stop,       (* the stop flag                                               *)
  exited,     (* workers whose loop has returned                             *)
  destructor  (* "none", "stopping" (flag set), "joining", "joined"          *)

vars == <<tasks, running, future, asleep, toNotify, stop, exited, destructor>>

AwakeIdle == {w \in Worker : running[w] = NoTask} \ (asleep \cup exited)

-----------------------------------------------------------------------------
(* enqueue, its critical section.                                          *)
Emplace(k) ==
  /\ future[k] = "none"
  /\ ~stop
  /\ tasks' = Append(tasks, k)
  /\ future' = [future EXCEPT ![k] = "pending"]
  /\ toNotify' = toNotify + 1
  /\ UNCHANGED <<running, asleep, stop, exited, destructor>>

(* enqueue on a stopped pool throws before the task enters the queue.      *)
Refuse(k) ==
  /\ future[k] = "none"
  /\ stop /\ destructor # "joined"
  /\ future' = [future EXCEPT ![k] = "refused"]
  /\ UNCHANGED <<tasks, running, asleep, toNotify, stop, exited, destructor>>

(* enqueue, after the mutex is released: condition.notify_one().           *)
Notify ==
  /\ toNotify > 0
  /\ toNotify' = toNotify - 1
  /\ \/ asleep = {} /\ UNCHANGED asleep
     \/ \E w \in asleep : asleep' = asleep \ {w}
  /\ UNCHANGED <<tasks, running, future, stop, exited, destructor>>

(* Mutant: condition.wait without its predicate.                           *)
MutantSleepAlways(w) ==
  /\ w \in AwakeIdle
  /\ asleep' = asleep \cup {w}
  /\ UNCHANGED <<tasks, running, future, toNotify, stop, exited, destructor>>

(* The predicate of condition.wait is false: the worker sleeps.            *)
Sleep(w) ==
  /\ w \in AwakeIdle
  /\ tasks = <<>> /\ ~stop
  /\ asleep' = asleep \cup {w}
  /\ UNCHANGED <<tasks, running, future, toNotify, stop, exited, destructor>>

SpuriousWakeup(w) ==
  /\ w \in asleep
  /\ asleep' = asleep \ {w}
  /\ UNCHANGED <<tasks, running, future, toNotify, stop, exited, destructor>>

(* Mutant: the task is not removed from the queue.                         *)
MutantTakeWithoutPop(w) ==
  /\ w \in AwakeIdle
  /\ tasks # <<>>
  /\ running' = [running EXCEPT ![w] = Head(tasks)]
  /\ UNCHANGED <<tasks, future, asleep, toNotify, stop, exited, destructor>>

Take(w) ==
  /\ w \in AwakeIdle
  /\ tasks # <<>>
  /\ running' = [running EXCEPT ![w] = Head(tasks)]
  /\ tasks' = Tail(tasks)
  /\ UNCHANGED <<future, asleep, toNotify, stop, exited, destructor>>

(* task(): the packaged_task stores the value or the exception.            *)
Complete(w, outcome) ==
  /\ running[w] # NoTask
  /\ future' = [future EXCEPT ![running[w]] = outcome]
  /\ running' = [running EXCEPT ![w] = NoTask]
  /\ UNCHANGED <<tasks, asleep, toNotify, stop, exited, destructor>>

Exit(w) ==
  /\ w \in AwakeIdle
  /\ stop /\ tasks = <<>>
  /\ exited' = exited \cup {w}
  /\ UNCHANGED <<tasks, running, future, asleep, toNotify, stop, destructor>>

(* future::get by the thread that enqueued the task.                       *)
GetResult(k) ==
  /\ future[k] \in {"value", "exception"}
  /\ future' = [future EXCEPT ![k] = "consumed"]
  /\ UNCHANGED <<tasks, running, asleep, toNotify, stop, exited, destructor>>

(* ~ThreadPool: set the flag under the mutex, notify all, join.            *)
StopPool ==
  /\ destructor = "none"
  /\ destructor' = "stopping"
  /\ stop' = TRUE
  /\ UNCHANGED <<tasks, running, future, asleep, toNotify, exited>>

(* Mutant: notify_one in the destructor.                                   *)
MutantNotifyOneOnStop ==
  /\ destructor = "stopping"
  /\ destructor' = "joining"
  /\ \/ asleep = {} /\ UNCHANGED asleep
     \/ \E w \in asleep : asleep' = asleep \ {w}
  /\ UNCHANGED <<tasks, running, future, toNotify, stop, exited>>

NotifyAll ==
  /\ destructor = "stopping"
  /\ destructor' = "joining"
  /\ asleep' = {}
  /\ UNCHANGED <<tasks, running, future, toNotify, stop, exited>>

JoinWorkers ==
  /\ destructor = "joining"
  /\ exited = Worker
  /\ destructor' = "joined"
  /\ UNCHANGED <<tasks, running, future, asleep, toNotify, stop, exited>>

-----------------------------------------------------------------------------
Init ==
  /\ tasks = <<>>
  /\ running = [w \in Worker |-> NoTask]
  /\ future = [k \in Task |-> "none"]
  /\ asleep = {}
  /\ toNotify = 0
  /\ stop = FALSE
  /\ exited = {}
  /\ destructor = "none"

WorkerStep(w) ==
  \/ Sleep(w)
  \/ Take(w)
  \/ Exit(w)
  \/ \E o \in {"value", "exception"} : Complete(w, o)

Next ==
  \/ \E k \in Task : Emplace(k) \/ Refuse(k) \/ GetResult(k)
  \/ Notify
  \/ \E w \in Worker : WorkerStep(w) \/ SpuriousWakeup(w)
  \/ StopPool
  \/ NotifyAll
  \/ JoinWorkers

(* The threads are scheduled and a task terminates; nothing forces a       *)
(* client to enqueue, to take a result or to destroy the pool.             *)
Fairness ==
  /\ \A w \in Worker : WF_vars(WorkerStep(w))
  /\ WF_vars(Notify)
  /\ WF_vars(NotifyAll)
  /\ WF_vars(JoinWorkers)

Spec == Init /\ [][Next]_vars /\ Fairness

-----------------------------------------------------------------------------
TypeOK ==
  /\ tasks \in Seq(Task)
  /\ running \in [Worker -> Task \cup {NoTask}]
  /\ future \in [Task -> {"none", "pending", "value", "exception", "consumed", "refused"}]
  /\ asleep \subseteq Worker
  /\ toNotify \in Nat
  /\ stop \in BOOLEAN
  /\ exited \subseteq Worker
  /\ destructor \in {"none", "stopping", "joining", "joined"}

(* No lost wakeup: while workers sleep in a pool that is not notifying its *)
(* destruction, every queued task has an awake idle worker that will see   *)
(* it or an enqueue call about to notify.  notify_one outside the mutex    *)
(* and one notification per task are enough.                               *)
NoLostWakeup ==
  asleep # {} => Len(tasks) <= Cardinality(AwakeIdle) + toNotify

(* Every accepted task is finished, also when the pool is being destroyed. *)
TasksFinish ==
  \A k \in Task : future[k] = "pending" ~> future[k] \in {"value", "exception"}

(* The destructor returns once it was entered.                             *)
DestructorReturns == destructor = "stopping" ~> destructor = "joined"

(* The class implements the TaskPool the codec relies on.  A refused task  *)
(* never entered the pool.                                                 *)
OnePool == {"pool"}
Abstract == INSTANCE TaskPool WITH
  Pool <- OnePool,
  PoolOf <- [w \in Worker |-> "pool"],
  tasks <- [p \in OnePool |-> tasks],
  future <- [k \in Task |-> IF future[k] = "refused" THEN "none" ELSE future[k]]

ImplementsTaskPool == Abstract!Spec
=============================================================================
