------------------------------- MODULE Cluster -------------------------------
(***************************************************************************)
(* Clusters and the kThreads in them (Cluster.cpp, kThread.cpp): how a      *)
(* kThread is constructed while its kernel thread already runs, how a       *)
(* uThread gets its home kThread when it is started or migrates, and that   *)
(* it then runs there.  The scheduler is a queue per kThread; module        *)
(* Scheduler02 models it.                                                   *)
(***************************************************************************)
EXTENDS Naturals, Sequences, FiniteSets

CONSTANTS KT,         \* kThread objects
          defaultKT,  \* the one that runs main()
          UT,         \* uThreads
          initUT,     \* the one that is main()
          C,          \* clusters
          defaultC,   \* Cluster::defaultCluster
          Garbage,    \* sizes that a torn read of the ends of ktVector can give
          NULL

ASSUME ClusterAssumption ==
  /\ IsFiniteSet(KT) /\ defaultKT \in KT /\ initUT \in UT /\ defaultC \in C
  /\ Garbage \subseteq Nat \ {0} /\ NULL \notin KT \cup C \cup UT

VARIABLES
  ktVector,     \* Cluster::ktVector
  emplacing,    \* the kThread that addNewkThread is putting into ktVector, or NULL
  ktLast,       \* Cluster::ktLast
  number,       \* Cluster::numberOfkThreads
  localCluster, \* kThread::localCluster
  ctor,         \* how far the constructor of a kThread is
  run,          \* what a kernel thread does: none, loop (defaultRun), or func (runWithFunc)
  queue,        \* the ready queue of a kThread
  currentUT,    \* kThread::currentUT, NULL for mainUT
  pc,           \* where a uThread is
  next, kt,     \* locals of assignkThread
  raced,        \* history: a read of ktVector has met the emplace_back that moves it
  cluster,      \* uThread::currentCluster
  home          \* uThread::homekThread

ctVars == <<ktVector, emplacing, number, localCluster, ctor>>
assignVars == <<ktLast, next, kt, raced>>
vars == <<ctVars, assignVars, run, queue, currentUT, pc, cluster, home>>

\* The static objects: defaultCluster with defaultKT, which runs initUT, that is,
\* main().
Init ==
  /\ ktVector = [c \in C |-> IF c = defaultC THEN <<defaultKT>> ELSE <<>>]
  /\ emplacing = [c \in C |-> NULL] /\ ktLast = [c \in C |-> 0]
  /\ number = [c \in C |-> Len(ktVector[c])]
  /\ localCluster = [k \in KT |-> IF k = defaultKT THEN defaultC ELSE NULL]
  /\ ctor = [k \in KT |-> IF k = defaultKT THEN "done" ELSE "none"]
  /\ run = [k \in KT |-> IF k = defaultKT THEN "loop" ELSE "none"]
  /\ queue = [k \in KT |-> <<>>] /\ currentUT = [k \in KT |-> IF k = defaultKT THEN initUT ELSE NULL]
  /\ pc = [u \in UT |-> IF u = initUT THEN "running" ELSE "new"]
  /\ cluster = [u \in UT |-> IF u = initUT THEN defaultC ELSE NULL]
  /\ home = [u \in UT |-> IF u = initUT THEN defaultKT ELSE NULL]
  /\ next = [u \in UT |-> 0] /\ kt = [u \in UT |-> 0] /\ raced = FALSE

-----------------------------------------------------------------------------
(* Construction of kThreads *)

AfterSpawn(func) == IF func THEN "sync" ELSE "add"

\* kThread(Cluster&) and kThread(Cluster&, func, args): the kernel thread starts and
\* is detached before the constructor goes on.
Spawn(k, c, func) ==
  /\ ctor[k] = "none" /\ ctor' = [ctor EXCEPT ![k] = AfterSpawn(func)]
  /\ localCluster' = [localCluster EXCEPT ![k] = c]
  /\ run' = [run EXCEPT ![k] = IF func THEN "func" ELSE "init"]
  /\ UNCHANGED <<ktVector, emplacing, number, assignVars, queue, currentUT, pc, cluster, home>>

\* addNewkThread, under mtx: emplace_back may move the whole vector.
AddBegin(k) ==
  LET c == localCluster[k] IN
  /\ ctor[k] = "add" /\ emplacing[c] = NULL
  /\ emplacing' = [emplacing EXCEPT ![c] = k] /\ ctor' = [ctor EXCEPT ![k] = "adding"]
  /\ UNCHANGED <<ktVector, number, localCluster, assignVars, run, queue, currentUT, pc, cluster, home>>

Count(c) == number' = [number EXCEPT ![c] = @ + 1]

AddEnd(k) ==
  LET c == localCluster[k] IN
  /\ ctor[k] = "adding" /\ ctor' = [ctor EXCEPT ![k] = "sync"]
  /\ ktVector' = [ktVector EXCEPT ![c] = Append(@, k)] /\ emplacing' = [emplacing EXCEPT ![c] = NULL]
  /\ Count(c)
  /\ UNCHANGED <<localCluster, assignVars, run, queue, currentUT, pc, cluster, home>>

\* kThread::initialSynchronization: the constructor ends.
Synchronize(k) ==
  /\ ctor[k] = "sync" /\ ctor' = [ctor EXCEPT ![k] = "done"]
  /\ UNCHANGED <<ktVector, emplacing, number, localCluster, assignVars, run, queue, currentUT, pc, cluster, home>>

\* run, on the new kernel thread: currentKT, ktlocal and mainUT are set, and
\* defaultRun begins.
RunInit(k) ==
  /\ run[k] = "init" /\ run' = [run EXCEPT ![k] = "loop"]
  /\ UNCHANGED <<ctVars, assignVars, queue, currentUT, pc, cluster, home>>

-----------------------------------------------------------------------------
(* assignkThread *)

\* Variant for mutation: the index is not wrapped around.
NextIndexNoWrap(last, size) == last + 1

NextIndex(last, size) == (last + 1) % size

\* What size() can give without mtx: while emplace_back moves the vector, the size
\* before or after, or the difference of an old pointer and a new one.  A size of 0
\* ends the program, by the division.
Sizes(c) ==
  {Len(ktVector[c])} \cup IF emplacing[c] = NULL THEN {} ELSE {Len(ktVector[c]) + 1} \cup Garbage

Race(c) == raced' = (raced \/ emplacing[c] # NULL)

Load(u) ==
  LET c == cluster[u] IN
  /\ pc[u] = "load" /\ pc' = [pc EXCEPT ![u] = "exchange"]
  /\ \E size \in Sizes(c) : next' = [next EXCEPT ![u] = NextIndex(ktLast[c], size)]
  /\ Race(c)
  /\ UNCHANGED <<ctVars, ktLast, kt, run, queue, currentUT, cluster, home>>

Exchange(u) ==
  LET c == cluster[u] IN
  /\ pc[u] = "exchange" /\ pc' = [pc EXCEPT ![u] = "index"]
  /\ ktLast' = [ktLast EXCEPT ![c] = next[u]] /\ next' = [next EXCEPT ![u] = 0]
  /\ kt' = [kt EXCEPT ![u] = ktLast[c]]
  /\ UNCHANGED <<ctVars, raced, run, queue, currentUT, cluster, home>>

\* The elements a read of ktVector[i] without mtx can give: outside the vector, and
\* while emplace_back moves it, whatever the memory holds.
Elements(c, i) ==
  IF emplacing[c] = NULL /\ i < Len(ktVector[c]) THEN {ktVector[c][i + 1]} ELSE KT \cup {NULL}

Index(u) ==
  LET c == cluster[u] IN
  /\ pc[u] = "index" /\ pc' = [pc EXCEPT ![u] = "assigned"]
  /\ \E k \in Elements(c, kt[u]) : home' = [home EXCEPT ![u] = k]
  /\ kt' = [kt EXCEPT ![u] = 0] /\ Race(c)
  /\ UNCHANGED <<ctVars, ktLast, next, run, queue, currentUT, cluster>>

-----------------------------------------------------------------------------
(* uThreads *)

\* start: a new or recycled uThread has no home, resume() assigns one.  The cluster
\* must have a kThread (assert in assignkThread); more may be added at any time.
MayAssign(c) == ktVector[c] # <<>>

Start(u, c) ==
  /\ pc[u] = "new" /\ MayAssign(c) /\ cluster' = [cluster EXCEPT ![u] = c]
  /\ pc' = [pc EXCEPT ![u] = IF home[u] = NULL THEN "load" ELSE "assigned"]
  /\ UNCHANGED <<ctVars, assignVars, run, queue, currentUT, home>>

\* Variant for mutation: the uThread goes to the front of the queue.
EnqueueFront(q, u) == <<u>> \o q

Enqueue(q, u) == Append(q, u)

\* Scheduler::schedule, on the home kThread; at the end of resume(), called by
\* start, by whoever wakes u, and by postSwitchFunc for MIGRATE and YIELD; in that
\* case the kThread that u leaves is free for the next one.
Schedule(u) ==
  /\ pc[u] = "assigned" /\ home[u] # NULL /\ pc' = [pc EXCEPT ![u] = "ready"]
  /\ queue' = [queue EXCEPT ![home[u]] = Enqueue(@, u)]
  /\ currentUT' = [k \in KT |-> IF currentUT[k] = u THEN NULL ELSE currentUT[k]]
  /\ UNCHANGED <<ctVars, assignVars, run, cluster, home>>

\* defaultRun: blockingSwitch and switchContext.
Dispatch(k) ==
  /\ run[k] = "loop" /\ currentUT[k] = NULL /\ queue[k] # <<>>
  /\ currentUT' = [currentUT EXCEPT ![k] = Head(queue[k])] /\ queue' = [queue EXCEPT ![k] = Tail(@)]
  /\ pc' = [pc EXCEPT ![Head(queue[k])] = "running"]
  /\ UNCHANGED <<ctVars, assignVars, run, cluster, home>>

Runs(k) == currentUT[k] # NULL /\ pc[currentUT[k]] = "running"

\* yield, or suspend and a later resume: u keeps its home.
Suspend(k) ==
  /\ Runs(k) /\ currentUT' = [currentUT EXCEPT ![k] = NULL]
  /\ pc' = [pc EXCEPT ![currentUT[k]] = "assigned"]
  /\ UNCHANGED <<ctVars, assignVars, run, queue, cluster, home>>

\* Variant for mutation: the home kThread is kept.
MigrateKeepHome(k, c) ==
  /\ Runs(k) /\ localCluster[k] # c /\ MayAssign(c)
  /\ cluster' = [cluster EXCEPT ![currentUT[k]] = c]
  /\ pc' = [pc EXCEPT ![currentUT[k]] = "assigned"]
  /\ UNCHANGED <<ctVars, assignVars, run, queue, currentUT, home>>

\* migrate: a new cluster and, still running on k, a new home; then u is switched out.
Migrate(k, c) ==
  /\ Runs(k) /\ localCluster[k] # c /\ MayAssign(c)
  /\ cluster' = [cluster EXCEPT ![currentUT[k]] = c]
  /\ pc' = [pc EXCEPT ![currentUT[k]] = "load"]
  /\ UNCHANGED <<ctVars, assignVars, run, queue, currentUT, home>>

\* Variant for mutation: a recycled uThread keeps its home.
ResetKeepHome(u) == UNCHANGED home /\ cluster' = [cluster EXCEPT ![u] = NULL]

Reset(u) == home' = [home EXCEPT ![u] = NULL] /\ cluster' = [cluster EXCEPT ![u] = NULL]

\* terminate, and reset() on the way into the cache.  main() does not terminate: its
\* return ends the program.
Terminate(k) ==
  /\ Runs(k) /\ currentUT[k] # initUT /\ currentUT' = [currentUT EXCEPT ![k] = NULL]
  /\ pc' = [pc EXCEPT ![currentUT[k]] = "new"] /\ Reset(currentUT[k])
  /\ UNCHANGED <<ctVars, assignVars, run, queue>>

-----------------------------------------------------------------------------
Construct(k) == AddBegin(k) \/ AddEnd(k) \/ Synchronize(k)
Assign(u) == Load(u) \/ Exchange(u) \/ Index(u) \/ Schedule(u)
Leave(k) == Suspend(k) \/ Terminate(k) \/ \E c \in C : Migrate(k, c)
Thread(k) == RunInit(k) \/ Dispatch(k) \/ Leave(k)

Next == \/ \E k \in KT : Construct(k) \/ Thread(k)
        \/ \E k \in KT, c \in C, func \in BOOLEAN : Spawn(k, c, func)
        \/ \E u \in UT : Assign(u) \/ \E c \in C : Start(u, c)
        \/ raced /\ UNCHANGED vars  \* a null home ends the program

Spec == Init /\ [][Next]_vars

\* Kernel threads run, and a running uThread leaves its kThread now and then.
FairSpec == /\ Spec /\ \A u \in UT : WF_vars(Assign(u))
            /\ \A k \in KT : WF_vars(RunInit(k)) /\ WF_vars(Dispatch(k)) /\ WF_vars(Leave(k))

-----------------------------------------------------------------------------
(* Properties *)

\* Every variable keeps its type, and numberOfkThreads is the size of ktVector.
TypeOK ==
  /\ ktVector \in [C -> Seq(KT)] /\ ktLast \in [C -> Nat]
  /\ next \in [UT -> Nat] /\ kt \in [UT -> Nat] /\ raced \in BOOLEAN
  /\ number = [c \in C |-> Len(ktVector[c])]
  /\ localCluster \in [KT -> C \cup {NULL}] /\ run \in [KT -> {"none", "init", "loop", "func"}]
  /\ cluster \in [UT -> C \cup {NULL}] /\ home \in [UT -> KT \cup {NULL}]

\* Until a read meets emplace_back, assignkThread indexes inside ktVector, although
\* kThreads are added between its read of the size, the exchange and the index, and
\* although the index it uses was computed by another thread, from an older size.
IndexInRange ==
  ~raced => \A u \in UT : /\ pc[u] = "exchange" => next[u] < Len(ktVector[cluster[u]])
                          /\ pc[u] = "exchange" => ktLast[cluster[u]] < Len(ktVector[cluster[u]])
                          /\ pc[u] = "index" => kt[u] < Len(ktVector[cluster[u]])

\* Until then, a uThread runs only on a kThread of the cluster it was started in or
\* migrated to.
RunsInItsCluster ==
  ~raced => \A k \in KT : Runs(k) => localCluster[k] = cluster[currentUT[k]]

\* A uThread that is ready runs, also when the kernel thread of its home kThread has
\* not reached its loop yet: only kThreads that will loop are in ktVector.  A race
\* may give it a home that never does.
ReadyRuns == \A u \in UT : (pc[u] = "ready") ~> (pc[u] = "running" \/ raced)

\* What assignkThread hands out, until then, is a kThread of the cluster.
AssignsKThread ==
  ~raced => \A u \in UT : pc[u] = "assigned" => home[u] \in KT /\ localCluster[home[u]] = cluster[u]

-----------------------------------------------------------------------------
(* The inductive invariant of Cluster_proofs. *)

Assigning == {"load", "exchange", "index"}
Placed == {"assigned", "ready", "running"}

Types ==
  /\ TypeOK /\ emplacing \in [C -> KT \cup {NULL}]
  /\ ctor \in [KT -> {"none", "add", "adding", "sync", "done"}]
  /\ pc \in [UT -> {"new"} \cup Assigning \cup Placed]
  /\ currentUT \in [KT -> UT \cup {NULL}] /\ queue \in [KT -> Seq(UT)]

\* A kThread in ktVector or on its way into it is one of this cluster.
Members ==
  /\ \A c \in C : \A i \in 1..Len(ktVector[c]) :
       localCluster[ktVector[c][i]] = c /\ ctor[ktVector[c][i]] # "none"
  /\ \A k \in KT : ctor[k] \in {"add", "adding"} => localCluster[k] \in C
  /\ \A k \in KT : ctor[k] = "adding" => emplacing[localCluster[k]] = k

\* The vector that assignkThread uses is not empty, and the indices are inside.
Indices ==
  /\ \A u \in UT : pc[u] \in Assigning => cluster[u] \in C /\ ktVector[cluster[u]] # <<>>
  /\ ~raced => \A c \in C : IF ktVector[c] = <<>> THEN ktLast[c] = 0 ELSE ktLast[c] < Len(ktVector[c])
  /\ ~raced => \A u \in UT : pc[u] = "exchange" => next[u] < Len(ktVector[cluster[u]])
  /\ ~raced => \A u \in UT : pc[u] = "index" => kt[u] < Len(ktVector[cluster[u]])

\* A uThread that has been assigned has its home in its cluster, a recycled one has none.
Homes ==
  /\ \A u \in UT : pc[u] = "new" => home[u] = NULL
  /\ ~raced => \A u \in UT : pc[u] \in Placed =>
       /\ cluster[u] \in C /\ home[u] \in KT
       /\ localCluster[home[u]] = cluster[u] /\ ctor[home[u]] # "none"

\* It is queued, once, or runs on its home; one that migrates still occupies the kThread.
Places ==
  /\ \A k \in KT : \A i \in 1..Len(queue[k]) : pc[queue[k][i]] = "ready" /\ home[queue[k][i]] = k
  /\ \A k \in KT : \A i, j \in 1..Len(queue[k]) : queue[k][i] = queue[k][j] => i = j
  /\ \A k \in KT : currentUT[k] # NULL =>
       /\ pc[currentUT[k]] \notin {"new", "ready"}
       /\ pc[currentUT[k]] = "running" => home[currentUT[k]] = k

\* Together: ktVector, its index, the home of every uThread and its place in a queue
\* or on a kThread agree.
IInv == Types /\ Members /\ Indices /\ Homes /\ Places
=============================================================================
