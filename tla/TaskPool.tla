------------------------------ MODULE TaskPool ------------------------------
(***************************************************************************)
(* What the rest of the codec relies on a ThreadPool for: a task handed to *)
(* a pool is started once, in the order of the calls of enqueue, by one    *)
(* worker of that pool that has nothing else to do, and its future is made *)
(* ready with a value or with the exception the task let escape.  Several  *)
(* pools are described at once; ThreadPool.tla is the class itself.        *)
(***************************************************************************)
EXTENDS Naturals, Sequences, FiniteSets

CONSTANTS
  Task,     (* everything that may be enqueued, each task at most once       *)
  Pool,     (* the thread pools                                              *)
  Worker,   (* the threads of all the pools                                  *)
  PoolOf,   (* PoolOf[w]: the pool worker w belongs to                       *)
  NoTask    (* the worker runs nothing                                       *)

VARIABLES
  tasks,    (* tasks[p]: the tasks of pool p not started yet, oldest first   *)
  running,  (* running[w]: the task worker w executes                        *)
  future    (* future[k]: the state of the future of task k                  *)

taskVars == <<tasks, running, future>>

(* A future is "none" before its task is enqueued, "pending" until the     *)
(* task has ended with a "value" or an "exception", and "consumed" once    *)
(* future::get took the result, after which it is invalid.                 *)
Enqueue(p, k) ==
  /\ future[k] = "none"
  /\ tasks' = [tasks EXCEPT ![p] = Append(@, k)]
  /\ future' = [future EXCEPT ![k] = "pending"]
  /\ UNCHANGED running

Take(w) ==
  /\ running[w] = NoTask
  /\ tasks[PoolOf[w]] # <<>>
  /\ running' = [running EXCEPT ![w] = Head(tasks[PoolOf[w]])]
  /\ tasks' = [tasks EXCEPT ![PoolOf[w]] = Tail(@)]
  /\ UNCHANGED future

Complete(w, outcome) ==
  /\ running[w] # NoTask
  /\ future' = [future EXCEPT ![running[w]] = outcome]
  /\ running' = [running EXCEPT ![w] = NoTask]
  /\ UNCHANGED tasks

(* future::get on a ready future hands the result over, once.              *)
GetResult(k) ==
  /\ future[k] \in {"value", "exception"}
  /\ future' = [future EXCEPT ![k] = "consumed"]
  /\ UNCHANGED <<tasks, running>>

-----------------------------------------------------------------------------
Init ==
  /\ tasks = [p \in Pool |-> <<>>]
  /\ running = [w \in Worker |-> NoTask]
  /\ future = [k \in Task |-> "none"]

Next ==
  \/ \E p \in Pool, k \in Task : Enqueue(p, k)
  \/ \E w \in Worker : Take(w)
  \/ \E w \in Worker, o \in {"value", "exception"} : Complete(w, o)
  \/ \E k \in Task : GetResult(k)

Spec == Init /\ [][Next]_taskVars
=============================================================================
