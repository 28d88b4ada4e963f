---------------------------- MODULE BlockingSync ----------------------------
(***************************************************************************)
(* Mutex, OwnerLock, ConditionVariable and Semaphore: synchronisation      *)
(* objects that block uThreads and not kernel threads.  A uThread that     *)
(* must wait is put in a BlockingQueue, and the lock is released, by the   *)
(* kThread after it has switched away from it; a uThread that is woken     *)
(* gets the mutex itself (baton passing).                                  *)
(*                                                                         *)
(* What runs is a kThread: pc, mx, ret and res are its registers, and what *)
(* a suspended uThread does when it runs again is kept in cont.  The ready *)
(* queue of a kThread is the FIFO queue ReadyQueue promises.               *)
(***************************************************************************)
EXTENDS Naturals, Sequences

CONSTANTS
  UT,        \* uThreads
  KT,        \* kThreads
  home,      \* uThread::homekThread, fixed once assigned
  NULL,      \* nullptr; as the current uThread it is mainUT
  Programs,  \* what the uThreads of a program use: sets of the names in Uses
  MaxDepth,  \* bound: nested acquires of the OwnerLock
  MaxCount   \* bound: V is not called at this value of the Semaphore

ASSUME HomeAssumption == home \in [UT -> KT] /\ NULL \notin UT \cup KT

Uses == {"mutex", "cv", "semaphore", "ownerlock"}
ASSUME ProgramsAssumption == Programs \subseteq SUBSET Uses

ASSUME BoundAssumption == MaxDepth \in Nat /\ MaxCount \in Nat

\* The Mutex that goes with the ConditionVariable, the one inside the
\* Semaphore, and the one an OwnerLock is.
Mutexes == {"m", "sm", "ol"}

VARIABLES
  ops,      \* what the uThreads of this program use
  lock,     \* Mutex::lock, a std::mutex: the kThread that holds it
  owner,    \* Mutex::owner
  bq,       \* Mutex::bq
  cvq,      \* ConditionVariable::bq
  semq,     \* Semaphore::bq
  counter,  \* Semaphore::counter
  olcount,  \* OwnerLock::counter
  depth,    \* auxiliary: how often each uThread holds the OwnerLock
  state,    \* uThread::state
  cont,     \* where a uThread goes on when it runs again
  rq,       \* the ready queue of each kThread
  cur,      \* kThread::currentUT
  pc, mx, ret, res   \* each kThread: where it is, the mutex it works on,
                     \* where acquire or release returns to, the uThread
                     \* to resume or the result of OwnerLock::release

mutexVars == <<lock, owner, bq>>
condVars == <<cvq, semq, counter>>
olVars == <<olcount, depth>>
utVars == <<state, cont, rq, cur>>
vars == <<ops, mutexVars, condVars, olVars, utVars, pc, mx, ret, res>>

Init ==
  /\ ops \in Programs
  /\ lock = [m \in Mutexes |-> NULL]
  /\ owner = [m \in Mutexes |-> NULL]
  /\ bq = [m \in Mutexes |-> <<>>]
  /\ cvq = <<>> /\ semq = <<>> /\ counter = 0
  /\ olcount = 0 /\ depth = [u \in UT |-> 0]
  /\ state = [u \in UT |-> "INITIALIZED"]
  /\ cont = [u \in UT |-> "idle"]
  /\ rq = [k \in KT |-> <<>>]
  /\ cur = [k \in KT |-> NULL]
  /\ pc = [k \in KT |-> "main"]
  /\ mx = [k \in KT |-> "m"]
  /\ ret = [k \in KT |-> "main"]
  /\ res = [k \in KT |-> NULL]

Goto(k, loc) == pc' = [pc EXCEPT ![k] = loc]

\* k calls acquire() or release() of mutex m and goes on at loc.
Call(k, entry, m, loc) ==
  /\ Goto(k, entry)
  /\ mx' = [mx EXCEPT ![k] = m]
  /\ ret' = [ret EXCEPT ![k] = loc]

\* acquire() or release() returns.  "main" is the end of a context switch
\* to mainUT.  A register that is dead has its initial value.
Return(k) ==
  /\ Goto(k, ret[k])
  /\ ret' = [ret EXCEPT ![k] = "main"]
  /\ cur' = IF ret[k] = "main" THEN [cur EXCEPT ![k] = NULL] ELSE cur

-----------------------------------------------------------------------------
(* uThreads and kThreads.                                                  *)

\* uThread::resume: a uThread that waits, is new or yielded is scheduled.
Resume(u) ==
  IF state[u] \in {"WAITING", "INITIALIZED", "YIELD"}
  THEN /\ state' = [state EXCEPT ![u] = "READY"]
       /\ rq' = [rq EXCEPT ![home[u]] = Append(@, u)]
  ELSE UNCHANGED <<state, rq>>

\* uThread::start, called from outside the instance.
Start(u) ==
  /\ state[u] = "INITIALIZED"
  /\ Resume(u)
  /\ UNCHANGED <<ops, mutexVars, condVars, olVars, cont, cur, pc, mx, ret, res>>

\* k takes the next uThread.  A uThread that waited on the
\* ConditionVariable goes on with mutex.acquire().
Dispatch(k) ==
  /\ pc[k] = "main"
  /\ rq[k] # <<>>
  /\ LET u == Head(rq[k]) IN
     /\ cur' = [cur EXCEPT ![k] = u]
     /\ state' = [state EXCEPT ![u] = "RUNNING"]
     /\ IF cont[u] = "reacquire"
        THEN Call(k, "acquire", "m", "critical")
        ELSE Goto(k, cont[u]) /\ UNCHANGED <<mx, ret>>
  /\ rq' = [rq EXCEPT ![k] = Tail(@)]
  /\ UNCHANGED <<ops, mutexVars, condVars, olVars, cont, res>>

\* uThread::yield.  The uThread is resumed by the next one's post-switch
\* function; with nothing else to run it goes on, and its state stays YIELD.
Yield(k) ==
  /\ pc[k] \in {"idle", "critical"}
  /\ \/ /\ rq[k] = <<>>
        /\ state' = [state EXCEPT ![cur[k]] = "YIELD"]
        /\ UNCHANGED <<cont, rq, cur, pc>>
     \/ /\ rq[k] # <<>>
        /\ cont' = [cont EXCEPT ![cur[k]] = pc[k]]
        /\ state' = [state EXCEPT ![cur[k]] = "READY"]
        /\ rq' = [rq EXCEPT ![k] = Append(@, cur[k])]
        /\ cur' = [cur EXCEPT ![k] = NULL]
        /\ Goto(k, "main")
  /\ UNCHANGED <<ops, mutexVars, condVars, olVars, mx, ret, res>>

\* uThread::suspend: the current uThread waits, and k goes on with the
\* post-switch function at loc, still on its behalf.
Suspend(k, loc, after) ==
  /\ state' = [state EXCEPT ![cur[k]] = "WAITING"]
  /\ cont' = [cont EXCEPT ![cur[k]] = after]
  /\ Goto(k, loc)

-----------------------------------------------------------------------------
(* Mutex.                                                                  *)

\* lock.lock(), in acquire, release and OwnerLock::release.
Lock(k) ==
  /\ pc[k] \in {"acquire", "release", "olRelease"}
  /\ lock[mx[k]] = NULL
  /\ lock' = [lock EXCEPT ![mx[k]] = k]
  /\ Goto(k, CASE pc[k] = "acquire" -> "acquireBody"
               [] pc[k] = "release" -> "releaseBody"
               [] pc[k] = "olRelease" -> "olReleaseBody")
  /\ UNCHANGED <<ops, owner, bq, condVars, olVars, utVars, mx, ret, res>>

Unlock(m) == lock' = [lock EXCEPT ![m] = NULL]

\* Variant for mutation: lock is released before the switch.
AcquireBodyUnlockFirst(k) ==
  LET m == mx[k]
      free == owner[m] = NULL \/ (m = "ol" /\ owner[m] = cur[k])
  IN
  /\ pc[k] = "acquireBody"
  /\ Unlock(m)
  /\ \/ /\ free
        /\ owner' = [owner EXCEPT ![m] = cur[k]]
        /\ Return(k)
        /\ UNCHANGED <<state, cont>>
     \/ /\ ~free
        /\ Suspend(k, "lockPostSwitch", ret[k])
        /\ UNCHANGED <<owner, cur, ret>>
  /\ UNCHANGED <<ops, bq, condVars, olVars, rq, mx, res>>

\* internalAcquire: a mutex that is free, or an OwnerLock that is held by
\* the caller, is taken; otherwise the caller suspends with lock held.
AcquireBody(k) ==
  LET m == mx[k]
      free == owner[m] = NULL \/ (m = "ol" /\ owner[m] = cur[k])
  IN
  /\ pc[k] = "acquireBody"
  /\ \/ /\ free
        /\ owner' = [owner EXCEPT ![m] = cur[k]]
        /\ Unlock(m)
        /\ Return(k)
        /\ UNCHANGED <<state, cont>>
     \/ /\ ~free
        /\ Suspend(k, "lockPostSwitch", ret[k])
        /\ UNCHANGED <<lock, owner, cur, ret>>
  /\ UNCHANGED <<ops, bq, condVars, olVars, rq, mx, res>>

\* postSwitchFunc<std::mutex>: push_back, then unlock.
LockPostSwitch(k) ==
  /\ pc[k] = "lockPostSwitch"
  /\ bq' = [bq EXCEPT ![mx[k]] = Append(@, cur[k])]
  /\ Unlock(mx[k])
  /\ cur' = [cur EXCEPT ![k] = NULL]
  /\ Goto(k, "main")
  /\ ret' = [ret EXCEPT ![k] = "main"]
  /\ UNCHANGED <<ops, owner, condVars, olVars, state, cont, rq, mx, res>>

\* Variant for mutation: the waiter is resumed but the mutex is set free.
ReleaseBodyNoBaton(k) ==
  LET m == mx[k] IN
  /\ pc[k] = "releaseBody"
  /\ Unlock(m)
  /\ owner' = [owner EXCEPT ![m] = NULL]
  /\ Return(k)
  /\ \/ /\ bq[m] # <<>>
        /\ Resume(Head(bq[m]))
        /\ bq' = [bq EXCEPT ![m] = Tail(@)]
     \/ /\ bq[m] = <<>>
        /\ UNCHANGED <<bq, state, rq>>
  /\ UNCHANGED <<ops, condVars, olVars, cont, mx, res>>

\* Variant for mutation: pop_front is missing.
ReleaseBodyNoPop(k) ==
  LET m == mx[k] IN
  /\ pc[k] = "releaseBody"
  /\ Unlock(m)
  /\ \/ /\ bq[m] # <<>>
        /\ owner' = [owner EXCEPT ![m] = Head(bq[m])]
        /\ Goto(k, "handOver")
        /\ UNCHANGED <<cur, ret>>
     \/ /\ bq[m] = <<>>
        /\ owner' = [owner EXCEPT ![m] = NULL]
        /\ Return(k)
  /\ UNCHANGED <<ops, bq, condVars, olVars, state, cont, rq, mx, res>>

\* internalRelease and signal(lock, owner): the first waiter becomes the
\* owner before lock is released.
ReleaseBody(k) ==
  LET m == mx[k] IN
  /\ pc[k] = "releaseBody"
  /\ Unlock(m)
  /\ \/ /\ bq[m] # <<>>
        /\ owner' = [owner EXCEPT ![m] = Head(bq[m])]
        /\ bq' = [bq EXCEPT ![m] = Tail(@)]
        /\ Goto(k, "handOver")
        /\ UNCHANGED <<cur, ret>>
     \/ /\ bq[m] = <<>>
        /\ owner' = [owner EXCEPT ![m] = NULL]
        /\ Return(k)
        /\ UNCHANGED bq
  /\ UNCHANGED <<ops, condVars, olVars, state, cont, rq, mx, res>>

\* Variant for mutation: owner->resume() is missing.
HandOverNoResume(k) ==
  /\ pc[k] = "handOver"
  /\ Return(k)
  /\ UNCHANGED <<ops, mutexVars, condVars, olVars, state, rq, cont, mx, res>>

\* owner->resume(), with lock released: owner is a reference to
\* Mutex::owner, which is read here.
HandOver(k) ==
  /\ pc[k] = "handOver"
  /\ Resume(owner[mx[k]])
  /\ Return(k)
  /\ UNCHANGED <<ops, mutexVars, condVars, olVars, cont, mx, res>>

MutexAcquire(k) ==
  /\ pc[k] = "idle" /\ "mutex" \in ops
  /\ Call(k, "acquire", "m", "critical")
  /\ UNCHANGED <<ops, mutexVars, condVars, olVars, utVars, res>>

MutexRelease(k) ==
  /\ pc[k] = "critical"
  /\ Call(k, "release", "m", "idle")
  /\ UNCHANGED <<ops, mutexVars, condVars, olVars, utVars, res>>

-----------------------------------------------------------------------------
(* ConditionVariable.                                                      *)

\* wait(mutex): suspend, and postSwitchFunc<Mutex> pushes back and then
\* calls mutex.release(), a whole release of its own.
ConditionWait(k) ==
  /\ pc[k] = "critical" /\ "cv" \in ops
  /\ Suspend(k, "waitPostSwitch", "reacquire")
  /\ UNCHANGED <<ops, mutexVars, condVars, olVars, rq, cur, mx, ret, res>>

WaitPostSwitch(k) ==
  /\ pc[k] = "waitPostSwitch"
  /\ cvq' = Append(cvq, cur[k])
  /\ Call(k, "release", "m", "main")
  /\ UNCHANGED <<ops, mutexVars, semq, counter, olVars, utVars, res>>

\* signal(mutex): release the mutex, then resume the first waiter.
ConditionSignal(k) ==
  /\ pc[k] = "critical" /\ "cv" \in ops
  /\ \/ /\ cvq # <<>>
        /\ res' = [res EXCEPT ![k] = Head(cvq)]
        /\ cvq' = Tail(cvq)
        /\ Call(k, "release", "m", "signalled")
     \/ /\ cvq = <<>>
        /\ Call(k, "release", "m", "idle")
        /\ UNCHANGED <<res, cvq>>
  /\ UNCHANGED <<ops, mutexVars, semq, counter, olVars, utVars>>

\* owner->resume() at the end of signal(Mutex&).
Signalled(k) ==
  /\ pc[k] = "signalled"
  /\ Resume(res[k])
  /\ res' = [res EXCEPT ![k] = NULL]
  /\ Goto(k, "idle")
  /\ UNCHANGED <<ops, mutexVars, condVars, olVars, cont, cur, mx, ret>>

\* signalAll(mutex): resume every waiter, then release.
ConditionSignalAll(k) ==
  /\ pc[k] = "critical" /\ "cv" \in ops
  /\ Goto(k, "signalAll")
  /\ UNCHANGED <<ops, mutexVars, condVars, olVars, utVars, mx, ret, res>>

\* Variant for mutation: the queue is cleared after the first waiter.
SignalAllStepClear(k) ==
  /\ pc[k] = "signalAll"
  /\ \/ /\ cvq # <<>>
        /\ cvq' = <<>>
        /\ Resume(Head(cvq))
        /\ UNCHANGED <<pc, mx, ret>>
     \/ /\ cvq = <<>>
        /\ Call(k, "release", "m", "idle")
        /\ UNCHANGED <<cvq, state, rq>>
  /\ UNCHANGED <<ops, mutexVars, semq, counter, olVars, cont, cur, res>>

SignalAllStep(k) ==
  /\ pc[k] = "signalAll"
  /\ \/ /\ cvq # <<>>
        /\ cvq' = Tail(cvq)
        /\ Resume(Head(cvq))
        /\ UNCHANGED <<pc, mx, ret>>
     \/ /\ cvq = <<>>
        /\ Call(k, "release", "m", "idle")
        /\ UNCHANGED <<cvq, state, rq>>
  /\ UNCHANGED <<ops, mutexVars, semq, counter, olVars, cont, cur, res>>

-----------------------------------------------------------------------------
(* Semaphore.                                                              *)

P(k) ==
  /\ pc[k] = "idle" /\ "semaphore" \in ops
  /\ Call(k, "acquire", "sm", "P")
  /\ UNCHANGED <<ops, mutexVars, condVars, olVars, utVars, res>>

\* internalP
InternalP(k) ==
  /\ pc[k] = "P"
  /\ \/ /\ counter < 1
        /\ Suspend(k, "semPostSwitch", "idle")
        /\ UNCHANGED <<counter, mx, ret>>
     \/ /\ counter >= 1
        /\ counter' = counter - 1
        /\ Call(k, "release", "sm", "idle")
        /\ UNCHANGED <<state, cont>>
  /\ UNCHANGED <<ops, mutexVars, cvq, semq, olVars, rq, cur, res>>

SemPostSwitch(k) ==
  /\ pc[k] = "semPostSwitch"
  /\ semq' = Append(semq, cur[k])
  /\ Call(k, "release", "sm", "main")
  /\ UNCHANGED <<ops, mutexVars, cvq, counter, olVars, utVars, res>>

V(k) ==
  /\ pc[k] = "idle" /\ "semaphore" \in ops
  /\ counter < MaxCount
  /\ Call(k, "acquire", "sm", "V")
  /\ UNCHANGED <<ops, mutexVars, condVars, olVars, utVars, res>>

\* Variant for mutation: the counter is incremented although somebody waits.
VBodyNoBaton(k) ==
  /\ pc[k] = "V"
  /\ counter' = counter + 1
  /\ Call(k, "release", "sm", "idle")
  /\ UNCHANGED <<ops, mutexVars, cvq, semq, olVars, utVars, res>>

\* The first waiter gets the unit; the counter is only incremented when
\* nobody waits.
VBody(k) ==
  /\ pc[k] = "V"
  /\ \/ /\ semq # <<>>
        /\ res' = [res EXCEPT ![k] = Head(semq)]
        /\ semq' = Tail(semq)
        /\ Call(k, "release", "sm", "signalled")
        /\ UNCHANGED counter
     \/ /\ semq = <<>>
        /\ counter' = counter + 1
        /\ Call(k, "release", "sm", "idle")
        /\ UNCHANGED <<res, semq>>
  /\ UNCHANGED <<ops, mutexVars, cvq, olVars, utVars>>

-----------------------------------------------------------------------------
(* OwnerLock.                                                              *)

OwnerAcquire(k) ==
  /\ pc[k] = "idle" /\ "ownerlock" \in ops
  /\ depth[cur[k]] < MaxDepth
  /\ Call(k, "acquire", "ol", "olAcquired")
  /\ UNCHANGED <<ops, mutexVars, condVars, olVars, utVars, res>>

\* return ++counter, without lock.
OwnerAcquired(k) ==
  /\ pc[k] = "olAcquired"
  /\ olcount' = olcount + 1
  /\ depth' = [depth EXCEPT ![cur[k]] = @ + 1]
  /\ Goto(k, "idle")
  /\ UNCHANGED <<ops, mutexVars, condVars, utVars, mx, ret, res>>

OwnerRelease(k) ==
  /\ pc[k] = "idle" /\ cur[k] # NULL /\ depth[cur[k]] > 0
  /\ Call(k, "olRelease", "ol", "olReturn")
  /\ UNCHANGED <<ops, mutexVars, condVars, olVars, utVars, res>>

\* Variant for mutation: every release gives the lock away.
OwnerReleaseBodyAlways(k) ==
  /\ pc[k] = "olReleaseBody"
  /\ olcount' = olcount - 1
  /\ depth' = [depth EXCEPT ![cur[k]] = @ - 1]
  /\ Goto(k, "releaseBody")
  /\ UNCHANGED <<ops, mutexVars, condVars, utVars, mx, ret, res>>

\* if(--counter == 0) internalRelease(); else lock.unlock();
OwnerReleaseBody(k) ==
  /\ pc[k] = "olReleaseBody"
  /\ olcount' = olcount - 1
  /\ depth' = [depth EXCEPT ![cur[k]] = @ - 1]
  /\ \/ /\ olcount = 1
        /\ Goto(k, "releaseBody")
        /\ UNCHANGED lock
     \/ /\ olcount # 1
        /\ Unlock("ol")
        /\ Goto(k, "olReturn")
  /\ UNCHANGED <<ops, owner, bq, condVars, utVars, mx, ret, res>>

\* return counter, read after the lock was released.
OwnerReturn(k) ==
  /\ pc[k] = "olReturn"
  /\ res' = [res EXCEPT ![k] = olcount]
  /\ Goto(k, "olReturned")
  /\ UNCHANGED <<ops, mutexVars, condVars, olVars, utVars, mx, ret>>

OwnerReturned(k) ==
  /\ pc[k] = "olReturned"
  /\ res' = [res EXCEPT ![k] = NULL]
  /\ Goto(k, "idle")
  /\ UNCHANGED <<ops, mutexVars, condVars, olVars, utVars, mx, ret>>

-----------------------------------------------------------------------------

\* Steps of the library, once a uThread has called it.
Internal(k) ==
  \/ Dispatch(k) \/ Lock(k) \/ AcquireBody(k) \/ LockPostSwitch(k)
  \/ ReleaseBody(k) \/ HandOver(k)
  \/ WaitPostSwitch(k) \/ Signalled(k) \/ SignalAllStep(k)
  \/ InternalP(k) \/ SemPostSwitch(k) \/ VBody(k)
  \/ OwnerAcquired(k) \/ OwnerReleaseBody(k) \/ OwnerReturn(k)
  \/ OwnerReturned(k)

\* What the uThreads choose to do.
Client(k) ==
  \/ Yield(k) \/ MutexAcquire(k) \/ MutexRelease(k)
  \/ ConditionWait(k) \/ ConditionSignal(k) \/ ConditionSignalAll(k)
  \/ P(k) \/ V(k) \/ OwnerAcquire(k) \/ OwnerRelease(k)

Next ==
  \/ \E u \in UT : Start(u)
  \/ \E k \in KT : Internal(k) \/ Client(k)

Spec == Init /\ [][Next]_vars

\* The library's own steps are not delayed for ever.  A uThread that holds
\* the mutex releases it, and a uThread that runs yields: the library is
\* cooperative.
Fairness ==
  /\ \A u \in UT : WF_vars(Start(u))
  /\ \A k \in KT : WF_vars(Internal(k)) /\ SF_vars(Yield(k))
  /\ \A u \in UT : SF_vars(\E k \in KT : cur[k] = u /\ MutexRelease(k))

FairSpec == Spec /\ Fairness

-----------------------------------------------------------------------------
(* Properties.                                                             *)

Loc == {"main", "idle", "critical", "acquire", "acquireBody",
        "lockPostSwitch", "release", "releaseBody", "handOver",
        "waitPostSwitch", "signalled", "signalAll", "P", "semPostSwitch",
        "V", "olAcquired", "olRelease", "olReleaseBody", "olReturn",
        "olReturned"}
Cont == {"idle", "critical", "reacquire", "P", "V", "olAcquired"}

TypeOK ==
  /\ ops \subseteq Uses
  /\ lock \in [Mutexes -> KT \cup {NULL}]
  /\ owner \in [Mutexes -> UT \cup {NULL}]
  /\ bq \in [Mutexes -> Seq(UT)] /\ cvq \in Seq(UT) /\ semq \in Seq(UT)
  /\ counter \in Nat /\ olcount \in Nat /\ depth \in [UT -> Nat]
  /\ state \in [UT -> {"INITIALIZED", "READY", "RUNNING", "WAITING",
                     "YIELD"}]
  /\ cont \in [UT -> Cont]
  /\ rq \in [KT -> Seq(UT)]
  /\ cur \in [KT -> UT \cup {NULL}]
  /\ pc \in [KT -> Loc]
  /\ mx \in [KT -> Mutexes]
  /\ ret \in [KT -> Loc]
  /\ res \in [KT -> UT \cup Nat \cup {NULL}]

Inside(m) ==
  CASE m = "m"  -> {"critical", "signalAll"}
    [] m = "sm" -> {"P", "V"}
    [] m = "ol" -> {"olAcquired"}

\* u is in the section that mutex m protects, or will be when it runs.
InCritical(u, m) ==
  \/ \E k \in KT : cur[k] = u /\ pc[k] \in Inside(m)
  \/ state[u] = "READY" /\ cont[u] \in Inside(m)
  \/ m = "ol" /\ depth[u] > 0

\* Mutual exclusion, of uThreads on any kThreads: whoever acquire() let in,
\* at once or by baton passing, is alone until its release().
MutualExclusion ==
  \A m \in Mutexes : \A u, v \in UT :
    InCritical(u, m) /\ InCritical(v, m) => u = v

\* The queues a uThread may wait in.
Queues == {bq[m] : m \in Mutexes} \cup {cvq, semq}
Positions(u, q) == {i \in 1 .. Len(q) : q[i] = u}
InQueue(u, q) == Positions(u, q) # {}

\* k has taken u out of its queue and is going to resume it.
WillResume(k, u) ==
  \/ pc[k] = "handOver" /\ owner[mx[k]] = u
  \/ /\ res[k] = u
     /\ \/ pc[k] = "signalled"
        \/ pc[k] \in {"release", "releaseBody", "handOver"} /\ ret[k] = "signalled"

\* k has switched away from u and is going to put it in its queue.
WillQueue(k, u) ==
  cur[k] = u /\ pc[k] \in {"lockPostSwitch", "waitPostSwitch", "semPostSwitch"}

\* Where u is queued or on its way.
Places(u) ==
  (UNION {{<<m, i>> : i \in Positions(u, bq[m])} : m \in Mutexes})
  \cup {<<"cvq", i>> : i \in Positions(u, cvq)}
  \cup {<<"semq", i>> : i \in Positions(u, semq)}
  \cup {<<"resume", k>> : k \in {x \in KT : WillResume(x, u)}}
  \cup {<<"queue", k>> : k \in {x \in KT : WillQueue(x, u)}}
  \cup {<<"ready", i>> : i \in Positions(u, rq[home[u]])}

\* No uThread is lost or in two places: one that waits is in one queue, or
\* one kThread is about to put it there or to resume it; one that is ready
\* is in the ready queue of its home, once.
WaitsInOnePlace ==
  \A u \in UT :
    IF state[u] \in {"WAITING", "READY"}
    THEN /\ \E p \in Places(u) : Places(u) = {p}
         /\ state[u] = "READY" <=> InQueue(u, rq[home[u]])
    ELSE Places(u) = {}

\* Baton passing: when the releasing kThread reads Mutex::owner again,
\* after it unlocked, it still finds the uThread it chose, which waits for
\* exactly this resume.
HandOverTarget ==
  \A k \in KT : pc[k] = "handOver" =>
    /\ owner[mx[k]] \in UT
    /\ state[owner[mx[k]]] = "WAITING"
    /\ \A q \in Queues : ~InQueue(owner[mx[k]], q)

\* A mutex nobody owns has no waiter, not even one whose kThread is still
\* switching away from it.
NoWaiterOnFreeMutex ==
  \A m \in Mutexes : owner[m] = NULL =>
    /\ bq[m] = <<>>
    /\ \A k \in KT : pc[k] = "lockPostSwitch" => mx[k] # m

\* A Semaphore has units or waiters, never both, where uThreads can see it.
NoWaiterWithUnits ==
  counter > 0 =>
    /\ semq = <<>>
    /\ \A k \in KT : pc[k] # "semPostSwitch"

\* OwnerLock::counter is how often the owner holds the lock, although it is
\* incremented outside lock.
OwnerCount ==
  /\ owner["ol"] = NULL => olcount = 0
  /\ \A u \in UT : IF owner["ol"] = u THEN olcount = depth[u] ELSE depth[u] = 0

\* OwnerLock::release returns 0 when it released the lock completely.
OwnerReleaseResult ==
  \A k \in KT : pc[k] = "olReturned" /\ depth[cur[k]] = 0 => res[k] = 0

\* A uThread that waits for the mutex gets it and runs.
LockGranted ==
  \A u \in UT :
    InQueue(u, bq["m"]) ~> \E k \in KT : cur[k] = u /\ pc[k] = "critical"

-----------------------------------------------------------------------------
(* The inductive invariant: what implies the ones above.                   *)

Releasing == {"release", "releaseBody", "handOver"}
Switching == {"lockPostSwitch", "waitPostSwitch", "semPostSwitch"}

\* k holds Mutex::lock of the mutex it works on.
Locked(k) ==
  pc[k] \in {"acquireBody", "lockPostSwitch", "releaseBody", "olReleaseBody"}

\* k works on mutex m for its owner.
Holds(k, m) ==
  \/ pc[k] \in Inside(m)
  \/ pc[k] \in {"release", "releaseBody", "olRelease", "olReleaseBody"} /\ mx[k] = m
  \/ pc[k] = "waitPostSwitch" /\ m = "m"
  \/ pc[k] = "semPostSwitch" /\ m = "sm"

\* k releases a mutex for a uThread that it has already put in a queue.
Behind(k) == pc[k] \in Releasing /\ ret[k] = "main"

\* k is going to resume res[k].
Resuming(k) == pc[k] = "signalled" \/ (pc[k] \in Releasing /\ ret[k] = "signalled")

Distinct(q) == \A i, j \in 1 .. Len(q) : q[i] = q[j] => i = j

\* Each mutex is taken to enter its own section only, and k's registers fit
\* its place in the code.
Registers ==
  \A k \in KT :
    /\ pc[k] = "main" <=> cur[k] = NULL
    /\ pc[k] \in {"acquire", "acquireBody", "lockPostSwitch"} => ret[k] \in Inside(mx[k]) /\ ret[k] # "signalAll"
    /\ pc[k] \in Releasing /\ mx[k] = "ol" => ret[k] = "olReturn"
    /\ pc[k] \in Releasing /\ mx[k] # "ol" => ret[k] \in {"idle", "main", "signalled"}
    /\ pc[k] \in {"olRelease", "olReleaseBody"} => mx[k] = "ol" /\ ret[k] = "olReturn"
    /\ pc[k] = "release" => mx[k] # "ol"
    /\ Locked(k) => lock[mx[k]] = k

\* Whoever is in the section of a mutex, or is about to leave it, owns it.
Ownership ==
  \A m \in Mutexes :
    /\ \A k \in KT : Holds(k, m) => owner[m] = cur[k]
    /\ \A u \in UT : state[u] = "READY" /\ cont[u] \in Inside(m) => owner[m] = u

\* The OwnerLock is given away only when its counter is back at 0.
Counts ==
  /\ OwnerCount
  /\ \A k \in KT : pc[k] = "releaseBody" /\ mx[k] = "ol" => olcount = 0
  /\ \A k \in KT : pc[k] \in {"olRelease", "olReleaseBody"} => depth[cur[k]] > 0

\* The current uThread of k runs, except between suspend() and the end of
\* the post-switch function.
Current ==
  \A k \in KT : cur[k] # NULL =>
    /\ home[cur[k]] = k
    /\ pc[k] \in Switching =>
         /\ state[cur[k]] = "WAITING"
         /\ cont[cur[k]] = CASE pc[k] = "lockPostSwitch" -> ret[k]
                             [] pc[k] = "waitPostSwitch" -> "reacquire"
                             [] pc[k] = "semPostSwitch" -> "idle"
         /\ ~InQueue(cur[k], cvq) /\ ~InQueue(cur[k], semq)
         /\ \A j \in KT : Resuming(j) => res[j] # cur[k]
    /\ Behind(k) => state[cur[k]] \in {"WAITING", "READY"} /\ cont[cur[k]] \in {"reacquire", "idle"}
    /\ pc[k] \notin Switching /\ ~Behind(k) => state[cur[k]] \in {"RUNNING", "YIELD"}

\* What a uThread goes on with tells the queue it waits in.
Waiting ==
  /\ \A m \in Mutexes :
       /\ Distinct(bq[m])
       /\ \A u \in UT : InQueue(u, bq[m]) =>
            state[u] = "WAITING" /\ cont[u] \in Inside(m) /\ \A k \in KT : cur[k] # u
  /\ Distinct(cvq) /\ \A u \in UT : InQueue(u, cvq) => state[u] = "WAITING" /\ cont[u] = "reacquire"
  /\ Distinct(semq) /\ \A u \in UT : InQueue(u, semq) => state[u] = "WAITING" /\ cont[u] = "idle"

\* A uThread that was taken out of its queue is resumed by one kThread, and
\* the one a mutex was handed to does nothing until then.
Resumes ==
  /\ \A k \in KT : Resuming(k) =>
       /\ res[k] \in UT /\ state[res[k]] = "WAITING" /\ cont[res[k]] \in {"reacquire", "idle"}
       /\ ~InQueue(res[k], cvq) /\ ~InQueue(res[k], semq)
       /\ \A j \in KT : Resuming(j) /\ res[j] = res[k] => j = k
  /\ \A k \in KT : pc[k] = "handOver" =>
       LET u == owner[mx[k]] IN
       /\ u \in UT /\ state[u] = "WAITING" /\ cont[u] \in Inside(mx[k])
       /\ ~InQueue(u, bq[mx[k]])
       /\ \A j \in KT : cur[j] # u /\ (pc[j] = "handOver" /\ mx[j] = mx[k] => j = k)

\* The ready queues hold the uThreads that are ready, each at its home.
Ready ==
  /\ \A k \in KT : Distinct(rq[k]) /\ \A u \in UT : InQueue(u, rq[k]) => state[u] = "READY" /\ home[u] = k
  /\ \A u \in UT : state[u] = "READY" => InQueue(u, rq[home[u]])
  /\ \A u \in UT : state[u] = "INITIALIZED" => cont[u] = "idle"

\* A uThread that waits is somewhere.
Somewhere ==
  \A u \in UT : state[u] = "WAITING" =>
    \/ \E m \in Mutexes : InQueue(u, bq[m])
    \/ InQueue(u, cvq) \/ InQueue(u, semq)
    \/ \E k \in KT : WillResume(k, u) \/ WillQueue(k, u)

\* All of it.
IInv ==
  /\ TypeOK /\ Registers /\ Ownership /\ Counts /\ Current
  /\ Waiting /\ Resumes /\ Ready /\ Somewhere
  /\ NoWaiterOnFreeMutex /\ NoWaiterWithUnits
=============================================================================
