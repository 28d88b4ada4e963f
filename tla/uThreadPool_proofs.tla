------------------------- MODULE uThreadPool_proofs -------------------------
(***************************************************************************)
(* Proofs about module uThreadPool, for any number of workers and tasks:    *)
(* a task is run at most once, idleuThreads counts the idle workers, and    *)
(* no task is left in the list that no worker is on its way to.             *)
(***************************************************************************)
EXTENDS uThreadPool, FiniteSetTheorems, TLAPS

\* The invariant.
IInv == Consistent /\ NoStrandedTask

\* The workers that idleuThreads counts, and those on their way to the mutex.
Idle == {w \in W : pc[w] \in {"loop", "wait"}}
Created == {w \in W : pc[w] # "none"}
Loop == {w \in W : pc[w] = "loop"}

\* The calls that have still to count the worker they created.
Counting == {t \in Task : call[t] = "count"}

-----------------------------------------------------------------------------
(* Sequences *)

\* Append adds the element to the range and keeps an injective sequence
\* injective when the element is new.
LEMMA AppendRange ==
  ASSUME NEW S, NEW q \in Seq(S), NEW e \in S
  PROVE  /\ Append(q, e) \in Seq(S) /\ Append(q, e) # <<>> /\ Len(Append(q, e)) = Len(q) + 1
         /\ Range(Append(q, e)) = Range(q) \cup {e}
         /\ IsInjective(q) /\ e \notin Range(q) => IsInjective(Append(q, e))
<1>1. /\ Append(q, e) \in Seq(S) /\ Len(Append(q, e)) = Len(q) + 1 /\ Append(q, e) # <<>>
      /\ DOMAIN q = 1 .. Len(q) /\ DOMAIN Append(q, e) = 1 .. Len(q) + 1 /\ Len(q) \in Nat
      /\ \A i \in 1 .. Len(q) : Append(q, e)[i] = q[i]
      /\ Append(q, e)[Len(q) + 1] = e
  OBVIOUS
<1>2. Range(Append(q, e)) = Range(q) \cup {e}
  BY <1>1 DEF Range
<1>3. IsInjective(q) /\ e \notin Range(q) => IsInjective(Append(q, e))
  BY <1>1 DEF Range, IsInjective
<1> QED
  BY <1>1, <1>2, <1>3

\* Tail removes the head from the range of an injective sequence.
LEMMA TailRange ==
  ASSUME NEW S, NEW q \in Seq(S), q # <<>>
  PROVE  /\ Tail(q) \in Seq(S) /\ Len(Tail(q)) = Len(q) - 1 /\ Len(q) \in Nat
         /\ Head(q) \in S /\ Head(q) \in Range(q)
         /\ IsInjective(q) => IsInjective(Tail(q)) /\ Range(Tail(q)) = Range(q) \ {Head(q)}
<1>1. /\ Tail(q) \in Seq(S) /\ Len(Tail(q)) = Len(q) - 1 /\ Len(q) \in Nat /\ Len(q) >= 1
      /\ DOMAIN q = 1 .. Len(q) /\ DOMAIN Tail(q) = 1 .. Len(q) - 1
      /\ \A i \in 1 .. Len(q) - 1 : Tail(q)[i] = q[i + 1]
      /\ Head(q) = q[1] /\ Head(q) \in S
  OBVIOUS
<1>2. Head(q) \in Range(q)
  BY <1>1 DEF Range
<1>3. ASSUME IsInjective(q) PROVE IsInjective(Tail(q))
  BY <1>1, <1>3 DEF IsInjective
<1>4. ASSUME IsInjective(q) PROVE Range(Tail(q)) = Range(q) \ {Head(q)}
  <2>1. \A i \in 2 .. Len(q) : q[i] # Head(q) /\ i - 1 \in 1 .. Len(q) - 1 /\ Tail(q)[i - 1] = q[i]
    BY <1>1, <1>4 DEF IsInjective
  <2>2. ASSUME NEW x \in Range(Tail(q)) PROVE x \in Range(q) \ {Head(q)}
    <3>1. PICK i \in 1 .. Len(q) - 1 : x = Tail(q)[i]
      BY <1>1, <2>2 DEF Range
    <3>2. i + 1 \in 2 .. Len(q) /\ i + 1 \in DOMAIN q /\ x = q[i + 1]
      BY <1>1, <3>1
    <3> QED
      BY <2>1, <3>2 DEF Range
  <2>3. ASSUME NEW x \in Range(q) \ {Head(q)} PROVE x \in Range(Tail(q))
    <3>1. PICK i \in 1 .. Len(q) : x = q[i]
      BY <1>1, <2>3 DEF Range
    <3>2. i \in 2 .. Len(q)
      BY <1>1, <2>3, <3>1
    <3> QED
      BY <1>1, <2>1, <3>1, <3>2 DEF Range
  <2> QED
    BY <2>2, <2>3
<1> QED
  BY <1>1, <1>2, <1>3, <1>4

\* The empty sequence.
LEMMA EmptyRange == Range(<<>>) = {} /\ IsInjective(<<>>)
  BY DEF Range, IsInjective

\* A worker, or a task, enters or leaves a set that is counted.
LEMMA Counted ==
  ASSUME NEW A, IsFiniteSet(A), NEW S \in SUBSET A, NEW w \in A
  PROVE  /\ IsFiniteSet(S) /\ Cardinality(S) \in Nat
         /\ w \notin S => Cardinality(S \cup {w}) = Cardinality(S) + 1
         /\ w \in S => Cardinality(S \ {w}) = Cardinality(S) - 1 /\ Cardinality(S) > 0
<1>1. IsFiniteSet(S)
  BY FS_Subset
<1>2. Cardinality(S) \in Nat /\ (Cardinality(S) = 0 <=> S = {})
  BY <1>1, FS_CardinalityType, FS_EmptySet
<1>3. w \notin S => Cardinality(S \cup {w}) = Cardinality(S) + 1
  BY <1>1, FS_AddElement
<1>4. w \in S => Cardinality(S \ {w}) = Cardinality(S) - 1
  BY <1>1, FS_RemoveElement
<1> QED
  BY <1>1, <1>2, <1>3, <1>4

-----------------------------------------------------------------------------
(* The initial states and the steps *)

\* Initially nothing is placed and nobody waits.
LEMMA InitInv == Init => IInv
<1> SUFFICES ASSUME Init PROVE IInv
  OBVIOUS
<1>1. Idle = {} /\ Created = {} /\ Counting = {}
  BY DEF Init, Idle, Created, Counting
<1>2. TypeOK
  <2>1. idle = Cardinality(Idle) /\ total + Cardinality(Counting) = Cardinality(Created)
    BY <1>1, FS_EmptySet DEF Init
  <2> QED
    BY <2>1 DEF Init, TypeOK, Idle, Created, Counting
<1>3. Workers
  BY EmptyRange DEF Init, Workers
<1>4. TaskInOnePlace
  <2>1. /\ Range(taskList) = {} /\ IsInjective(taskList) /\ finished = {}
        /\ \A w \in W : task[w] = NULL
    BY EmptyRange DEF Init
  <2> QED
    BY <2>1, PoolAssumption DEF TaskInOnePlace
<1>5. NoStrandedTask
  BY DEF Init, NoStrandedTask
<1> QED
  BY <1>2, <1>3, <1>4, <1>5 DEF IInv, Consistent

\* The counted sets, of which TypeOK and NoStrandedTask speak.
LEMMA CountedSets ==
  /\ Idle \in SUBSET W /\ Created \in SUBSET W /\ Loop \in SUBSET W /\ IsFiniteSet(W)
  /\ Counting \in SUBSET Task /\ IsFiniteSet(Task)
  /\ TypeOK => /\ idle = Cardinality(Idle) /\ total \in Nat
               /\ total + Cardinality(Counting) = Cardinality(Created)
  BY PoolAssumption DEF Idle, Created, Loop, Counting, TypeOK

\* A step that changes none of the calls of Counting leaves total to be what it was.
LEMMA TotalKept ==
  ASSUME TypeOK, UNCHANGED total, Created' = Created, Counting' = Counting
  PROVE  total' \in Nat /\ total' + Cardinality(Counting') = Cardinality(Created')
  BY CountedSets

\* uThreadExecute reads idleuThreads: nothing is placed yet.
LEMMA ExecuteInv == ASSUME IInv, NEW t \in Task, Execute(t) PROVE IInv'
<1>i. TypeOK /\ Workers /\ TaskInOnePlace /\ NoStrandedTask
  BY DEF IInv, Consistent
<1>1. /\ call[t] = "none" /\ UNCHANGED <<idle, total, taskList, cv, pc, task, finished>>
      /\ call' = [call EXCEPT ![t] = "create"] \/ call' = [call EXCEPT ![t] = "push"]
  BY DEF Execute
<1>2. /\ call' \in [Task -> {"none", "create", "count", "push", "done"}]
      /\ \A s \in Task : call'[s] \in {"count", "done"} <=> call[s] \in {"count", "done"}
      /\ \A s \in Task : call'[s] = "count" <=> call[s] = "count"
  BY <1>i, <1>1 DEF TypeOK
<1>3. TypeOK'
  <2>1. Created' = Created /\ Counting' = Counting
    BY <1>1, <1>2 DEF Created, Counting
  <2>2. total' \in Nat /\ total' + Cardinality(Counting') = Cardinality(Created')
    BY <1>i, <1>1, <2>1, TotalKept
  <2> QED
    BY <1>i, <1>1, <1>2, <2>2 DEF TypeOK, Created, Counting
<1>4. Workers' /\ NoStrandedTask'
  BY <1>i, <1>1 DEF Workers, NoStrandedTask
<1>5. TaskInOnePlace'
  <2>1. \A s \in Task : call'[s] \in {"none", "create", "push"} => call[s] \in {"none", "create", "push"}
    BY <1>i, <1>1 DEF TypeOK
  <2> QED
    BY <1>i, <1>1, <2>1 DEF TaskInOnePlace
<1> QED
  BY <1>3, <1>4, <1>5 DEF IInv, Consistent

\* The new worker has the task, and is not counted yet.
LEMMA CreateInv == ASSUME IInv, NEW t \in Task, Create(t) PROVE IInv'
<1>i. TypeOK /\ Workers /\ TaskInOnePlace /\ NoStrandedTask
  BY DEF IInv, Consistent
<1>e. /\ call[t] = "create" /\ call' = [call EXCEPT ![t] = "count"]
      /\ UNCHANGED <<idle, total, taskList, cv, finished>>
  BY DEF Create
<1>1. PICK w \in W : pc[w] = "none" /\ Runs(w, t)
  BY DEF Create
<1>2. /\ pc' = [pc EXCEPT ![w] = "task"] /\ task' = [task EXCEPT ![w] = t]
      /\ pc \in [W -> {"none", "task", "loop", "wait"}] /\ task \in [W -> Task \cup {NULL}]
      /\ task[w] = NULL /\ t # NULL /\ call \in [Task -> {"none", "create", "count", "push", "done"}]
  BY <1>i, <1>1, PoolAssumption DEF Runs, TypeOK, Workers
<1>3. Idle' = Idle /\ Created' = Created \cup {w} /\ w \notin Created /\ Loop' = Loop
  BY <1>1, <1>2 DEF Idle, Created, Loop
<1>4. Counting' = Counting \cup {t} /\ t \notin Counting
  BY <1>e, <1>2 DEF Counting
<1>5. TypeOK'
  <2>1. Cardinality(Created') = Cardinality(Created) + 1
    BY <1>3, Counted, CountedSets
  <2>2. Cardinality(Counting') = Cardinality(Counting) + 1 /\ Cardinality(Counting) \in Nat
    BY <1>4, Counted, CountedSets
  <2>3. total' \in Nat /\ total' + Cardinality(Counting') = Cardinality(Created')
    BY <1>i, <1>e, <2>1, <2>2, CountedSets
  <2>4. idle' = Cardinality(Idle')
    BY <1>i, <1>e, <1>3, CountedSets
  <2> QED
    BY <1>i, <1>e, <1>2, <2>3, <2>4 DEF TypeOK, Idle, Created, Counting
<1>6. Workers'
  BY <1>i, <1>e, <1>1, <1>2 DEF Workers
<1>7. TaskInOnePlace'
  <2>1. {task'[v] : v \in W} \subseteq {task[v] : v \in W} \cup {t}
    BY <1>2
  <2>2. t \notin Range(taskList) \cup {task[v] : v \in W} \cup finished
    BY <1>i, <1>e DEF TaskInOnePlace
  <2>3. \A v, x \in W : task'[v] = task'[x] /\ task'[v] # NULL => v = x
    BY <1>i, <1>2, <2>2 DEF TaskInOnePlace
  <2>4. \A s \in Task : call'[s] \in {"none", "create", "push"} =>
          s # t /\ call[s] \in {"none", "create", "push"}
    BY <1>e, <1>2
  <2> QED
    BY <1>i, <1>e, <2>1, <2>2, <2>3, <2>4 DEF TaskInOnePlace
<1>8. NoStrandedTask'
  BY <1>i, <1>e, <1>3 DEF NoStrandedTask, Loop
<1> QED
  BY <1>5, <1>6, <1>7, <1>8 DEF IInv, Consistent

\* The caller counts the worker it created.
LEMMA CountInv == ASSUME IInv, NEW t \in Task, Count(t) PROVE IInv'
<1>i. TypeOK /\ Workers /\ TaskInOnePlace /\ NoStrandedTask
  BY DEF IInv, Consistent
<1>e. /\ call[t] = "count" /\ call' = [call EXCEPT ![t] = "done"] /\ total' = total + 1
      /\ UNCHANGED <<idle, taskList, cv, pc, task, finished>>
  BY DEF Count
<1>t. call \in [Task -> {"none", "create", "count", "push", "done"}]
  BY <1>i DEF TypeOK
<1>1. Counting' = Counting \ {t} /\ t \in Counting /\ Created' = Created
  BY <1>e, <1>t DEF Counting, Created
<1>2. TypeOK'
  <2>1. Cardinality(Counting') = Cardinality(Counting) - 1 /\ Cardinality(Counting) \in Nat
    BY <1>1, Counted, CountedSets
  <2>2. total' \in Nat /\ total' + Cardinality(Counting') = Cardinality(Created')
    BY <1>i, <1>e, <1>1, <2>1, CountedSets
  <2> QED
    BY <1>i, <1>e, <1>t, <2>2 DEF TypeOK, Created, Counting
<1>3. Workers' /\ NoStrandedTask'
  BY <1>i, <1>e DEF Workers, NoStrandedTask
<1>4. TaskInOnePlace'
  <2>1. \A s \in Task : call'[s] \in {"none", "create", "push"} => call[s] \in {"none", "create", "push"}
    BY <1>e, <1>t
  <2> QED
    BY <1>i, <1>e, <2>1 DEF TaskInOnePlace
<1> QED
  BY <1>2, <1>3, <1>4 DEF IInv, Consistent

\* A push makes the list longer by one, and its signal, if somebody waits, puts
\* one worker on its way.
LEMMA PushInv == ASSUME IInv, NEW t \in Task, Push(t) PROVE IInv'
<1>i. TypeOK /\ Workers /\ TaskInOnePlace /\ NoStrandedTask
  BY DEF IInv, Consistent
<1>e. /\ call[t] = "push" /\ call' = [call EXCEPT ![t] = "done"] /\ taskList' = Append(taskList, t)
      /\ Signal /\ UNCHANGED <<idle, total, task, finished>>
  BY DEF Push
<1>t. /\ call \in [Task -> {"none", "create", "count", "push", "done"}] /\ taskList \in Seq(Task) /\ cv \in Seq(W)
      /\ pc \in [W -> {"none", "task", "loop", "wait"}]
  BY <1>i DEF TypeOK
<1>q. /\ taskList' \in Seq(Task) /\ Len(taskList') = Len(taskList) + 1
      /\ Range(taskList') = Range(taskList) \cup {t}
      /\ IsInjective(taskList) /\ t \notin Range(taskList) => IsInjective(taskList')
  BY <1>e, <1>t, AppendRange
<1>1. TaskInOnePlace'
  <2>1. t \notin Range(taskList) \cup {task[v] : v \in W} \cup finished
    BY <1>i, <1>e DEF TaskInOnePlace
  <2>2. \A s \in Task : call'[s] \in {"none", "create", "push"} =>
          s # t /\ call[s] \in {"none", "create", "push"}
    BY <1>e, <1>t
  <2> QED
    BY <1>i, <1>e, <1>q, <2>1, <2>2 DEF TaskInOnePlace
<1>c. Counting' = Counting
  BY <1>e, <1>t DEF Counting
<1>2. CASE cv = <<>>
  <2>1. UNCHANGED <<cv, pc>>
    BY <1>e, <1>2 DEF Signal
  <2>2. TypeOK'
    <3>1. total' \in Nat /\ total' + Cardinality(Counting') = Cardinality(Created')
      BY <1>i, <1>e, <1>c, <2>1, TotalKept DEF Created
    <3> QED
      BY <1>i, <1>e, <1>t, <1>q, <2>1, <3>1 DEF TypeOK, Created, Counting
  <2>3. Workers' /\ NoStrandedTask'
    BY <1>i, <1>e, <1>2, <2>1 DEF Workers, NoStrandedTask
  <2> QED
    BY <1>1, <2>2, <2>3 DEF IInv, Consistent
<1>3. CASE cv # <<>>
  <2>1. PICK w : w = Head(cv)
    OBVIOUS
  <2>2. cv' = Tail(cv) /\ pc' = [pc EXCEPT ![w] = "loop"]
    BY <1>e, <1>3, <2>1 DEF Signal
  <2>3. /\ Tail(cv) \in Seq(W) /\ w \in W /\ w \in Range(cv) /\ IsInjective(Tail(cv))
        /\ Range(Tail(cv)) = Range(cv) \ {w}
    BY <1>i, <1>t, <1>3, <2>1, TailRange DEF Workers
  <2>4. pc[w] = "wait" /\ task[w] = NULL
    BY <1>i, <2>3 DEF Workers
  <2>5. Idle' = Idle /\ Created' = Created /\ Loop' = Loop \cup {w} /\ w \notin Loop
    BY <1>t, <2>2, <2>3, <2>4 DEF Idle, Created, Loop
  <2>6. TypeOK'
    <3>1. idle' = Cardinality(Idle')
      BY <1>i, <1>e, <2>5, CountedSets
    <3>2. total' \in Nat /\ total' + Cardinality(Counting') = Cardinality(Created')
      BY <1>i, <1>e, <1>c, <2>5, TotalKept
    <3> QED
      BY <1>i, <1>e, <1>t, <1>q, <2>2, <2>3, <3>1, <3>2 DEF TypeOK, Idle, Created, Counting
  <2>7. Workers'
    BY <1>i, <1>e, <1>t, <2>2, <2>3, <2>4 DEF Workers
  <2>8. NoStrandedTask'
    <3>1. Cardinality(Loop') = Cardinality(Loop) + 1 /\ Cardinality(Loop) \in Nat
      BY SMTT(30), <2>3, <2>5, Counted, CountedSets
    <3>2. Len(taskList) <= Cardinality(Loop) /\ Len(taskList) \in Nat
      BY <1>i, <1>t, <1>3 DEF NoStrandedTask, Loop
    <3> QED
      BY <1>q, <3>1, <3>2 DEF NoStrandedTask, Loop
  <2> QED
    BY <1>1, <2>6, <2>7, <2>8 DEF IInv, Consistent
<1> QED
  BY <1>2, <1>3

\* A worker whose task has returned counts itself idle before it takes the mutex.
LEMMA FinishInv == ASSUME IInv, NEW w \in W, Finish(w) PROVE IInv'
<1>i. TypeOK /\ Workers /\ TaskInOnePlace /\ NoStrandedTask
  BY DEF IInv, Consistent
<1>e. /\ pc[w] = "task" /\ pc' = [pc EXCEPT ![w] = "loop"] /\ idle' = idle + 1
      /\ finished' = finished \cup {task[w]} /\ task' = [task EXCEPT ![w] = NULL]
      /\ UNCHANGED <<call, total, taskList, cv>>
  BY DEF Finish
<1>t. /\ pc \in [W -> {"none", "task", "loop", "wait"}] /\ task \in [W -> Task \cup {NULL}]
      /\ task[w] # NULL /\ task[w] \in Task /\ taskList \in Seq(Task)
  BY <1>i, <1>e DEF TypeOK, Workers
<1>1. /\ Idle' = Idle \cup {w} /\ w \notin Idle /\ Created' = Created
      /\ Loop' = Loop \cup {w} /\ w \notin Loop
  BY <1>e, <1>t DEF Idle, Created, Loop
<1>2. TypeOK'
  <2>1. idle' = Cardinality(Idle')
    BY SMTT(30), <1>i, <1>e, <1>1, Counted, CountedSets
  <2>2. total' \in Nat /\ total' + Cardinality(Counting') = Cardinality(Created')
    BY <1>i, <1>e, <1>1, TotalKept DEF Counting
  <2> QED
    BY <1>i, <1>e, <1>t, <2>1, <2>2 DEF TypeOK, Idle, Created, Counting
<1>3. Workers'
  BY <1>i, <1>e, <1>t DEF Workers
<1>4. TaskInOnePlace'
  <2>1. {task'[v] : v \in W} \subseteq ({task[v] : v \in W} \ {task[w]}) \cup {NULL}
    BY <1>i, <1>e, <1>t DEF TaskInOnePlace
  <2>2. NULL \notin finished' /\ NULL \notin Range(taskList)
    BY <1>i, <1>e, <1>t, PoolAssumption DEF TypeOK, Range
  <2>3. \A v, x \in W : task'[v] = task'[x] /\ task'[v] # NULL => v = x
    BY <1>i, <1>e, <1>t DEF TaskInOnePlace
  <2>4. task[w] \in {task[v] : v \in W}
    OBVIOUS
  <2> QED
    BY <1>i, <1>e, <2>1, <2>2, <2>3, <2>4, PoolAssumption DEF TaskInOnePlace
<1>5. NoStrandedTask'
  <2>1. Cardinality(Loop') = Cardinality(Loop) + 1 /\ Cardinality(Loop) \in Nat
    BY <1>1, Counted, CountedSets
  <2> QED
    BY <1>i, <1>e, <1>t, <2>1 DEF NoStrandedTask, Loop
<1> QED
  BY <1>2, <1>3, <1>4, <1>5 DEF IInv, Consistent

\* A worker that finds the list empty waits: then there is no task to strand.
LEMMA WaitInv == ASSUME IInv, NEW w \in W, Wait(w) PROVE IInv'
<1>i. TypeOK /\ Workers /\ TaskInOnePlace /\ NoStrandedTask
  BY DEF IInv, Consistent
<1>e. /\ pc[w] = "loop" /\ taskList = <<>> /\ pc' = [pc EXCEPT ![w] = "wait"]
      /\ cv' = Append(cv, w) /\ UNCHANGED <<call, idle, total, taskList, task, finished>>
  BY DEF Wait
<1>t. pc \in [W -> {"none", "task", "loop", "wait"}] /\ cv \in Seq(W) /\ task[w] = NULL
  BY <1>i, <1>e DEF TypeOK, Workers
<1>1. Idle' = Idle /\ Created' = Created /\ Loop' \in SUBSET W
  BY <1>e, <1>t DEF Idle, Created, Loop
<1>2. /\ cv' \in Seq(W) /\ Range(cv') = Range(cv) \cup {w}
      /\ w \notin Range(cv) /\ IsInjective(cv')
  BY <1>i, <1>e, <1>t, AppendRange DEF Workers
<1>3. TypeOK'
  <2>1. idle' = Cardinality(Idle')
    BY <1>i, <1>e, <1>1 DEF TypeOK, Idle
  <2>2. total' \in Nat /\ total' + Cardinality(Counting') = Cardinality(Created')
    BY <1>i, <1>e, <1>1, TotalKept DEF Counting
  <2> QED
    BY <1>i, <1>e, <1>t, <1>2, <2>1, <2>2 DEF TypeOK, Idle, Created, Counting
<1>4. Workers'
  BY <1>i, <1>e, <1>t, <1>2 DEF Workers
<1>5. TaskInOnePlace'
  BY <1>i, <1>e DEF TaskInOnePlace
<1>6. NoStrandedTask'
  <2>1. Cardinality(Loop') \in Nat /\ Len(taskList') = 0
    BY <1>e, <1>1, Counted, CountedSets
  <2> QED
    BY <2>1 DEF NoStrandedTask, Loop
<1> QED
  BY <1>3, <1>4, <1>5, <1>6 DEF IInv, Consistent

\* A worker that takes a task makes the list and the workers on their way shorter
\* by one.
LEMMA TakeInv == ASSUME IInv, NEW w \in W, Take(w) PROVE IInv'
<1>i. TypeOK /\ Workers /\ TaskInOnePlace /\ NoStrandedTask
  BY DEF IInv, Consistent
<1>1. PICK t : t = Head(taskList)
  OBVIOUS
<1>e. /\ pc[w] = "loop" /\ taskList # <<>> /\ idle' = idle - 1 /\ taskList' = Tail(taskList)
      /\ pc' = [pc EXCEPT ![w] = "task"] /\ task' = [task EXCEPT ![w] = t]
      /\ UNCHANGED <<call, total, cv, finished>>
  BY <1>1 DEF Take, Busy, Runs, Pop
<1>t. /\ pc \in [W -> {"none", "task", "loop", "wait"}] /\ task \in [W -> Task \cup {NULL}]
      /\ task[w] = NULL /\ taskList \in Seq(Task) /\ IsInjective(taskList)
  BY <1>i, <1>e DEF TypeOK, Workers, TaskInOnePlace
<1>2. /\ taskList' \in Seq(Task) /\ IsInjective(taskList') /\ t \in Task /\ t \in Range(taskList)
      /\ Range(taskList') = Range(taskList) \ {t} /\ t # NULL
      /\ Len(taskList') = Len(taskList) - 1 /\ Len(taskList) \in Nat
  BY <1>e, <1>t, <1>1, TailRange, PoolAssumption
<1>3. /\ Idle' = Idle \ {w} /\ w \in Idle /\ Created' = Created
      /\ Loop' = Loop \ {w} /\ w \in Loop
  BY <1>e, <1>t DEF Idle, Created, Loop
<1>4. TypeOK'
  <2>1. idle' = Cardinality(Idle')
    <3>1. idle = Cardinality(Idle)
      BY SMTT(30), <1>i DEF TypeOK, Idle
    <3> QED
      BY <1>e, <1>3, <3>1, Counted, CountedSets
  <2>2. total' \in Nat /\ total' + Cardinality(Counting') = Cardinality(Created')
    BY <1>i, <1>e, <1>3, TotalKept DEF Counting
  <2> QED
    BY <1>i, <1>e, <1>t, <1>2, <2>1, <2>2 DEF TypeOK, Idle, Created, Counting
<1>5. Workers'
  BY SMTT(30), <1>i, <1>e, <1>t, <1>2 DEF Workers
<1>6. TaskInOnePlace'
  <2>1. {task'[v] : v \in W} \subseteq {task[v] : v \in W} \cup {t}
    BY <1>e, <1>t
  <2>2. t \notin {task[v] : v \in W} /\ t \notin finished
    BY <1>i, <1>2 DEF TaskInOnePlace
  <2>3. \A v, x \in W : task'[v] = task'[x] /\ task'[v] # NULL => v = x
    BY <1>i, <1>e, <1>t, <2>2 DEF TaskInOnePlace
  <2>4. \A s \in Task : call[s] \in {"none", "create", "push"} => s # t
    BY <1>i, <1>2 DEF TaskInOnePlace
  <2> QED
    BY <1>i, <1>e, <1>2, <2>1, <2>2, <2>3, <2>4 DEF TaskInOnePlace
<1>7. NoStrandedTask'
  <2>1. Cardinality(Loop') = Cardinality(Loop) - 1 /\ Cardinality(Loop) \in Nat
    BY <1>3, Counted, CountedSets
  <2> QED
    BY <1>i, <1>e, <1>2, <2>1 DEF NoStrandedTask, Loop
<1> QED
  BY <1>4, <1>5, <1>6, <1>7 DEF IInv, Consistent

\* Every step preserves the invariant: one case for each action.
LEMMA StepInv == IInv /\ [Next]_vars => IInv'
<1> SUFFICES ASSUME IInv, [Next]_vars PROVE IInv'
  OBVIOUS
<1>1. CASE UNCHANGED vars
  <2>1. UNCHANGED <<call, idle, total, taskList, cv, pc, task, finished>>
    BY <1>1 DEF vars
  <2>2. TypeOK' /\ Workers'
    BY <2>1 DEF IInv, Consistent, TypeOK, Workers
  <2>3. TaskInOnePlace' /\ NoStrandedTask'
    BY <2>1 DEF IInv, Consistent, TaskInOnePlace, NoStrandedTask
  <2> QED
    BY <2>2, <2>3 DEF IInv, Consistent
<1> QED
  BY <1>1, ExecuteInv, CreateInv, CountInv, PushInv, FinishInv, WaitInv, TakeInv DEF Next, Caller, Worker

-----------------------------------------------------------------------------
(* Theorems *)

\* The inductive invariant holds in every state the pool can reach.
THEOREM Invariance == Spec => []IInv
  BY InitInv, StepInv, PTL DEF Spec

\* idleuThreads is the number of workers without a task, workers that sleep are
\* exactly those that wait on the condition variable, and a task is in one place
\* at a time, so that it is run at most once.
THEOREM PoolConsistent == Spec => []Consistent
<1>1. IInv => Consistent
  BY DEF IInv
<1> QED
  BY <1>1, Invariance, PTL

\* No worker sleeps while the list holds a task that no worker is on its way to.
THEOREM NothingStranded == Spec => []NoStrandedTask
<1>1. IInv => NoStrandedTask
  BY DEF IInv
<1> QED
  BY <1>1, Invariance, PTL
=============================================================================
