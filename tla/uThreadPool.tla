----------------------------- MODULE uThreadPool -----------------------------
(***************************************************************************)
(* uThreadPool.cpp: tasks are given to idle workers through a list under a  *)
(* mutex and a condition variable; when no worker is idle a new one is      *)
(* created for the task.                                                    *)
(*                                                                          *)
(* A critical section of the pool's mutex is one step: within it only       *)
(* idleuThreads is visible outside, and it changes at most once.            *)
(***************************************************************************)
EXTENDS Naturals, Sequences, FiniteSets, Functions

CONSTANTS W,      \* workers: uThreads the pool may create
          Task,   \* tasks that callers hand to uThreadExecute, each at most once
          NULL

ASSUME PoolAssumption == /\ IsFiniteSet(W) /\ IsFiniteSet(Task)
                         /\ Cardinality(W) >= Cardinality(Task) /\ NULL \notin Task

VARIABLES
  call,      \* per task: where its uThreadExecute is: none, then create and count, or
             \* push, and done
  idle,      \* idleuThreads
  total,     \* totalnumuThreads
  taskList,
  cv,        \* workers that wait on cv, oldest first
  pc,        \* per worker: none, task (runs one), loop (wants the mutex), wait
  task,      \* per worker: the task it runs
  finished   \* history: tasks that have been run

vars == <<call, idle, total, taskList, cv, pc, task, finished>>

Init == /\ call = [t \in Task |-> "none"] /\ idle = 0 /\ total = 0 /\ taskList = <<>> /\ cv = <<>>
        /\ pc = [w \in W |-> "none"] /\ task = [w \in W |-> NULL] /\ finished = {}

\* Worker w starts to run t.
Runs(w, t) == pc' = [pc EXCEPT ![w] = "task"] /\ task' = [task EXCEPT ![w] = t]

\* idleuThreads is read.
Execute(t) ==
  /\ call[t] = "none" /\ call' = [call EXCEPT ![t] = IF idle = 0 THEN "create" ELSE "push"]
  /\ UNCHANGED <<idle, total, taskList, cv, pc, task, finished>>

\* It was 0: a new worker is started with the task, and counted after that.
Create(t) ==
  /\ call[t] = "create" /\ call' = [call EXCEPT ![t] = "count"]
  /\ \E w \in W : pc[w] = "none" /\ Runs(w, t)
  /\ UNCHANGED <<idle, total, taskList, cv, finished>>

Count(t) ==
  /\ call[t] = "count" /\ call' = [call EXCEPT ![t] = "done"] /\ total' = total + 1
  /\ UNCHANGED <<idle, taskList, cv, pc, task, finished>>

\* Variant for mutation: no signal.
SignalNone == UNCHANGED <<cv, pc>>

\* cv.signal(mutex): the oldest waiter, if there is one, wants the mutex again.
Signal == IF cv = <<>> THEN UNCHANGED <<cv, pc>>
                       ELSE cv' = Tail(cv) /\ pc' = [pc EXCEPT ![Head(cv)] = "loop"]

Push(t) ==
  /\ call[t] = "push" /\ call' = [call EXCEPT ![t] = "done"]
  /\ taskList' = Append(taskList, t) /\ Signal
  /\ UNCHANGED <<idle, total, task, finished>>

\* A task returns: the worker is about to become idle.
Finish(w) ==
  /\ pc[w] = "task" /\ pc' = [pc EXCEPT ![w] = "loop"] /\ idle' = idle + 1
  /\ finished' = finished \cup {task[w]} /\ task' = [task EXCEPT ![w] = NULL]
  /\ UNCHANGED <<call, total, taskList, cv>>

Wait(w) ==
  /\ pc[w] = "loop" /\ taskList = <<>>
  /\ pc' = [pc EXCEPT ![w] = "wait"] /\ cv' = Append(cv, w)
  /\ UNCHANGED <<call, idle, total, taskList, task, finished>>

Pop == taskList' = Tail(taskList)

\* Variant for mutation: a worker that was waiting stays counted as idle.
BusyKeep == UNCHANGED idle

Busy == idle' = idle - 1

Take(w) ==
  /\ pc[w] = "loop" /\ taskList # <<>>
  /\ Busy /\ Runs(w, Head(taskList)) /\ Pop
  /\ UNCHANGED <<call, total, cv, finished>>

Worker(w) == Wait(w) \/ Take(w)

Caller(t) == Create(t) \/ Count(t) \/ Push(t)

Next == \/ \E t \in Task : Execute(t) \/ Caller(t)
        \/ \E w \in W : Finish(w) \/ Worker(w)

Spec == Init /\ [][Next]_vars

\* A started call goes on, and workers do; the mutex goes to its waiters in turn.
\* Tasks return.
FairSpec == /\ Spec /\ \A t \in Task : WF_vars(Caller(t))
            /\ \A w \in W : WF_vars(Worker(w)) /\ WF_vars(Finish(w))

-----------------------------------------------------------------------------
(* Properties *)

\* Every variable keeps its type; idleuThreads counts the workers without a task: as
\* an unsigned counter it never passes below zero; and totalnumuThreads lags behind
\* the workers by those that a caller has still to count.
TypeOK ==
  /\ call \in [Task -> {"none", "create", "count", "push", "done"}] /\ finished \subseteq Task
  /\ pc \in [W -> {"none", "task", "loop", "wait"}] /\ task \in [W -> Task \cup {NULL}]
  /\ taskList \in Seq(Task) /\ cv \in Seq(W)
  /\ idle = Cardinality({w \in W : pc[w] \in {"loop", "wait"}})
  /\ total \in Nat
  /\ total + Cardinality({t \in Task : call[t] = "count"}) = Cardinality({w \in W : pc[w] # "none"})

\* No worker sleeps on cv while the list holds a task that no worker is on its way
\* to: each signal that finds a waiter is worth one task.
NoStrandedTask == cv # <<>> => Len(taskList) <= Cardinality({w \in W : pc[w] = "loop"})

\* A worker has a task exactly while it runs one, and waits on cv once, exactly
\* while it sleeps.
Workers ==
  /\ \A w \in W : task[w] # NULL <=> pc[w] = "task"
  /\ IsInjective(cv) /\ Range(cv) = {w \in W : pc[w] = "wait"}

\* A task is run at most once: no two workers run it, it is not twice in the list,
\* and it is either in the list, or with a worker, or finished, and nowhere before
\* uThreadExecute has placed it.
TaskInOnePlace ==
  LET queued == Range(taskList)
      running == {task[w] : w \in W}
  IN  /\ IsInjective(taskList)
      /\ \A v, w \in W : task[v] = task[w] /\ task[v] # NULL => v = w
      /\ queued \cap running = {} /\ finished \cap (queued \cup running) = {}
      /\ \A t \in Task : call[t] \in {"none", "create", "push"} => t \notin queued \cup running \cup finished

\* The counters, the workers and the places of the tasks agree.
Consistent == TypeOK /\ Workers /\ TaskInOnePlace

\* Every task given to the pool is run, if tasks return.
TaskRuns == \A t \in Task : (call[t] # "none") ~> (t \in finished)
=============================================================================
