----------------------------- MODULE uThreadLife -----------------------------
(***************************************************************************)
(* The life of a uThread (uThread.cpp, uThread.h, uThreadCache.h): create,  *)
(* start, terminate, join, detach, destruction, and reuse through the       *)
(* cache of terminated uThreads.                                            *)
(*                                                                          *)
(* join and terminate meet in waitOrSignal, on a Mutex, a ConditionVariable *)
(* and a Semaphore inside the uThread object itself.  Their operations are  *)
(* the steps that module BlockingSync shows them to be: acquire takes a     *)
(* free mutex, wait queues the caller and releases, signal takes a waiter   *)
(* out, releases, and then resumes it.                                      *)
(***************************************************************************)
EXTENDS Naturals, Sequences, FiniteSets, Functions

CONSTANTS UT,         \* uThread objects: places in memory
          Creators,   \* uThreads that create others; only they join or detach them
          CacheSize,  \* uThreadCache::size
          NULL

ASSUME SetsAssumption == IsFiniteSet(UT) /\ UT \cap Creators = {} /\ NULL \notin UT \cup Creators
ASSUME CacheAssumption == CacheSize \in Nat

VARIABLES
  life,       \* what the memory of a uThread is: none (free), live, or cached
  jState,     \* uThread::jState
  joinMtx,    \* owner of uThread::joinMtx
  joinWait,   \* uThread::joinWait, oldest waiter first
  afterJoin,  \* counter of uThread::afterJoin
  cache,      \* uThreadCache::stack, its top last
  total,      \* uThread::totalNumberofUTs, the creators not counted
  pc,         \* where each uThread is
  tgt,        \* the uThread a creator holds a pointer to, to join or detach it
  woken,      \* the waiter that a signal has taken out and not yet resumed
  stale       \* history: memory was used or handed out under a detach() that came late

syncVars == <<joinMtx, joinWait, afterJoin>>
memVars == <<life, cache, total>>
vars == <<syncVars, memVars, jState, pc, tgt, woken, stale>>

Actor == UT \cup Creators
O(x) == IF x \in UT THEN x ELSE tgt[x]
Goto(x, loc) == pc' = [pc EXCEPT ![x] = loc]
SetMtx(u, x) == joinMtx' = [joinMtx EXCEPT ![u] = x]

Init ==
  /\ life = [u \in UT |-> "none"] /\ cache = <<>> /\ total = 0
  /\ jState = [u \in UT |-> "DETACHED"]
  /\ joinMtx = [u \in UT |-> NULL] /\ joinWait = [u \in UT |-> <<>>] /\ afterJoin = [u \in UT |-> 0]
  /\ pc = [x \in Actor |-> IF x \in UT THEN "none" ELSE "idle"]
  /\ tgt = [p \in Creators |-> NULL] /\ woken = [x \in Actor |-> NULL] /\ stale = FALSE

-----------------------------------------------------------------------------
(* create and destory *)

\* u is started: it runs, and a creator keeps the pointer of a joinable one.  A
\* detach() that is still at work on the memory of u now works on another uThread.
Start(p, u) ==
  \E joinable \in BOOLEAN :
    /\ jState' = [jState EXCEPT ![u] = IF joinable THEN "JOINABLE" ELSE "DETACHED"]
    /\ tgt' = IF joinable THEN [tgt EXCEPT ![p] = u] ELSE tgt
    /\ pc' = [pc EXCEPT ![u] = "body", ![p] = IF joinable THEN "handle" ELSE "idle"]
    /\ life' = [life EXCEPT ![u] = "live"] /\ stale' = \E q \in Creators : tgt[q] = u

\* The constructor: a stack is allocated and every member initialised.  It is also
\* what create does when the cache's try_lock fails.
CreateNew(p) ==
  /\ pc[p] = "idle"
  /\ \E u \in UT :
       /\ life[u] = "none" /\ Start(p, u) /\ SetMtx(u, NULL)
       /\ joinWait' = [joinWait EXCEPT ![u] = <<>>] /\ afterJoin' = [afterJoin EXCEPT ![u] = 0]
  /\ total' = total + 1 /\ UNCHANGED <<cache, woken>>

CountCached == total' = total + 1

\* uThreadCache::pop: the top of the stack, with the members it was left with.
CreateCached(p) ==
  /\ pc[p] = "idle" /\ cache # <<>>
  /\ Start(p, cache[Len(cache)]) /\ cache' = SubSeq(cache, 1, Len(cache) - 1) /\ CountCached
  /\ UNCHANGED <<syncVars, woken>>

\* postSwitchFunc for TERMINATED, destory: uThreadCache::push resets the uThread
\* and keeps it; when the cache is full, or its try_lock fails, it is freed.
Destory(u) ==
  /\ pc[u] = "terminated" /\ Goto(u, "none") /\ total' = total - 1
  /\ \/ /\ Len(cache) < CacheSize
        /\ cache' = Append(cache, u) /\ life' = [life EXCEPT ![u] = "cached"]
        /\ jState' = [jState EXCEPT ![u] = "DETACHED"]
     \/ life' = [life EXCEPT ![u] = "none"] /\ UNCHANGED <<cache, jState>>
  /\ UNCHANGED <<syncVars, tgt, woken, stale>>

-----------------------------------------------------------------------------
(* terminate, join and waitOrSignal *)

\* The function of u has returned: a detached uThread ends, another one meets
\* its joiner.
Terminate(u) ==
  /\ pc[u] = "body" /\ Goto(u, IF jState[u] = "DETACHED" THEN "terminated" ELSE "acquire")
  /\ UNCHANGED <<syncVars, memVars, jState, tgt, woken, stale>>

\* Variant for mutation: join marks the uThread and returns.
JoinNoWait(p) ==
  /\ pc[p] = "handle" /\ jState[tgt[p]] = "JOINABLE"
  /\ jState' = [jState EXCEPT ![tgt[p]] = "JOINING"] /\ Goto(p, "idle")
  /\ tgt' = [tgt EXCEPT ![p] = NULL] /\ UNCHANGED <<syncVars, memVars, woken, stale>>

Join(p) ==
  /\ pc[p] = "handle" /\ jState[tgt[p]] = "JOINABLE"
  /\ jState' = [jState EXCEPT ![tgt[p]] = "JOINING"] /\ Goto(p, "acquire")
  /\ UNCHANGED <<syncVars, memVars, tgt, woken, stale>>

Acquire(x) ==
  /\ pc[x] = "acquire" /\ joinMtx[O(x)] = NULL /\ SetMtx(O(x), x) /\ Goto(x, "test")
  /\ UNCHANGED <<joinWait, afterJoin, memVars, jState, tgt, woken, stale>>

\* signal: the oldest waiter is taken out and the mutex released.
TakeWaiter(x) ==
  /\ woken' = [woken EXCEPT ![x] = Head(joinWait[O(x)])]
  /\ joinWait' = [joinWait EXCEPT ![O(x)] = Tail(@)] /\ SetMtx(O(x), NULL)

\* Whoever comes first waits, the other one signals.
WaitOrSignal(x) ==
  /\ pc[x] = "test"
  /\ IF joinWait[O(x)] = <<>>
     THEN /\ joinWait' = [joinWait EXCEPT ![O(x)] = <<x>>] /\ SetMtx(O(x), NULL)
          /\ Goto(x, "cv") /\ UNCHANGED woken
     ELSE TakeWaiter(x) /\ Goto(x, "resume")
  /\ UNCHANGED <<afterJoin, memVars, jState, tgt, stale>>

\* Variant for mutation: the uThread that ends does not wait for afterJoin.
AfterSignalAtOnce(x) == IF x \in UT THEN "terminated" ELSE "idle"

\* if(!caller) afterJoin.P(): the uThread that ends waits until its joiner is done
\* with the object; join() by the creator returns.
AfterSignal(x) == IF x \in UT THEN "P" ELSE "idle"

\* A creator that returns from join has no pointer any more.
Forget(x) == tgt' = [p \in Creators |-> IF p = x THEN NULL ELSE tgt[p]]

\* The waiter is resumed.
ResumeWaiter(x) ==
  /\ pc[x] = "resume"
  /\ pc' = [pc EXCEPT ![woken[x]] = "reacquire", ![x] = AfterSignal(x)]
  /\ woken' = [woken EXCEPT ![x] = NULL] /\ Forget(x)
  /\ UNCHANGED <<syncVars, memVars, jState, stale>>

\* wait() ends by taking the mutex again; waitOrSignal releases it.
Reacquire(x) ==
  /\ pc[x] = "reacquire" /\ joinMtx[O(x)] = NULL /\ SetMtx(O(x), x) /\ Goto(x, "release")
  /\ UNCHANGED <<joinWait, afterJoin, memVars, jState, tgt, woken, stale>>

\* Variant for mutation: both sides do V().
AfterWaitBoth(x) == "V"

\* if(caller) afterJoin.V(): only the joiner does.
AfterWait(x) == IF x \in UT THEN "terminated" ELSE "V"

Release(x) ==
  /\ pc[x] = "release" /\ SetMtx(O(x), NULL) /\ Goto(x, AfterWait(x))
  /\ UNCHANGED <<joinWait, afterJoin, memVars, jState, tgt, woken, stale>>

\* Variant for mutation: the joiner returns without V().
PostNone(u) == UNCHANGED afterJoin

Post(u) == afterJoin' = [afterJoin EXCEPT ![u] = @ + 1]

V(x) ==
  /\ pc[x] = "V" /\ Post(O(x))
  /\ Goto(x, IF x \in UT THEN "terminated" ELSE "idle") /\ Forget(x)
  /\ UNCHANGED <<joinMtx, joinWait, memVars, jState, woken, stale>>

P(x) ==
  /\ pc[x] = "P" /\ afterJoin[x] > 0 /\ afterJoin' = [afterJoin EXCEPT ![x] = @ - 1]
  /\ Goto(x, "terminated")
  /\ UNCHANGED <<joinMtx, joinWait, memVars, jState, tgt, woken, stale>>

-----------------------------------------------------------------------------
(* detach *)

\* detach() works on the uThread after it has set DETACHED, which lets the uThread
\* end, be destroyed and be recycled meanwhile.
Detach(p) ==
  /\ pc[p] = "handle"
  /\ jState' = [jState EXCEPT ![tgt[p]] = "DETACHED"] /\ Goto(p, "dAcquire")
  /\ UNCHANGED <<syncVars, memVars, tgt, woken, stale>>

\* detach() uses a member of the uThread, whose memory may have been freed.
Use(p) == stale' = (life[tgt[p]] = "none")

DetachAcquire(p) ==
  /\ pc[p] = "dAcquire" /\ joinMtx[tgt[p]] = NULL /\ SetMtx(tgt[p], p) /\ Goto(p, "dTest")
  /\ Use(p) /\ UNCHANGED <<joinWait, afterJoin, memVars, jState, tgt, woken>>

\* A uThread that already waits for its joiner is signalled, which releases the
\* mutex; then the mutex is released in any case.
DetachTest(p) ==
  /\ pc[p] = "dTest" /\ Use(p)
  /\ IF joinWait[tgt[p]] = <<>> THEN Goto(p, "dRelease") /\ UNCHANGED <<joinMtx, joinWait, woken>>
                                ELSE Goto(p, "dResume") /\ TakeWaiter(p)
  /\ UNCHANGED <<afterJoin, memVars, jState, tgt>>

DetachResume(p) ==
  /\ pc[p] = "dResume" /\ pc' = [pc EXCEPT ![woken[p]] = "reacquire", ![p] = "dRelease"]
  /\ woken' = [woken EXCEPT ![p] = NULL] /\ UNCHANGED <<syncVars, memVars, jState, tgt, stale>>

DetachRelease(p) ==
  /\ pc[p] = "dRelease" /\ SetMtx(tgt[p], NULL) /\ Goto(p, "idle") /\ Forget(p)
  /\ Use(p) /\ UNCHANGED <<joinWait, afterJoin, memVars, jState, woken>>

-----------------------------------------------------------------------------
Meet(x) == Acquire(x) \/ WaitOrSignal(x) \/ ResumeWaiter(x) \/ Reacquire(x) \/ Release(x) \/ V(x)
Ends(u) == Terminate(u) \/ P(u) \/ Destory(u)
Detaches(p) == DetachAcquire(p) \/ DetachTest(p) \/ DetachResume(p) \/ DetachRelease(p)

Step == \/ \E x \in Actor : Meet(x)
        \/ \E u \in UT : Ends(u)
        \/ \E p \in Creators : CreateNew(p) \/ CreateCached(p) \/ Join(p) \/ Detach(p) \/ Detaches(p)

\* What a program does once a detach() has come too late is not defined: the model
\* ends there.
Next == ~stale /\ Step

Spec == Init /\ [][Next]_vars

\* Started uThreads run to their end and calls go on once made; whether a creator
\* creates, joins or detaches is its own affair.  A mutex is held for a few
\* statements and has at most two contenders, hence weak fairness.
FairSpec == /\ Spec /\ \A x \in Actor : WF_vars(~stale /\ Meet(x))
            /\ \A u \in UT : WF_vars(~stale /\ Ends(u))
            /\ \A p \in Creators : WF_vars(~stale /\ Detaches(p))

-----------------------------------------------------------------------------
(* Properties *)

Joining == {"acquire", "test", "cv", "resume", "reacquire", "release", "V"}
Detaching == {"dAcquire", "dTest", "dResume", "dRelease"}

\* Every variable keeps its type, and the total counts the uThreads that exist.
TypeOK ==
  /\ life \in [UT -> {"none", "live", "cached"}] /\ jState \in [UT -> {"DETACHED", "JOINABLE", "JOINING"}]
  /\ joinMtx \in [UT -> Actor \cup {NULL}] /\ joinWait \in [UT -> Seq(Actor)]
  /\ afterJoin \in [UT -> 0..1] /\ cache \in Seq(UT) /\ Len(cache) <= CacheSize
  /\ total = Cardinality({u \in UT : life[u] = "live"})
  /\ tgt \in [Creators -> UT \cup {NULL}] /\ woken \in [Actor -> Actor \cup {NULL}]
  /\ pc \in [Actor -> {"idle", "handle", "none", "body", "P", "terminated"} \cup Joining
                        \cup Detaching]

\* join() returns only after the function of the joined uThread has returned.
JoinAfterEnd ==
  [][\A p \in Creators : tgt[p] # NULL /\ tgt'[p] = NULL /\ pc[p] # "dRelease"
                            => pc[tgt[p]] \notin {"none", "body"}]_vars

\* While a joiner still has to touch the joined uThread's mutex, condition or
\* semaphore, or a detach() the uThread that it takes out of joinWait, the uThread
\* is not destroyed and not recycled.
TouchesLive ==
  ~stale => \A p \in Creators :
    pc[p] \in {"acquire", "test", "cv", "reacquire", "release", "V", "dResume"} => life[tgt[p]] = "live"

\* A uThread leaves the cache with its mutex free, nobody waiting and no token in
\* its semaphore, although detach() may touch them after it was destroyed: reset()
\* does not set them and the next user relies on them.
CleanRecycle ==
  \A u \in UT : life[u] = "cached" /\ (\A p \in Creators : tgt[p] # u) =>
    joinMtx[u] = NULL /\ joinWait[u] = <<>> /\ afterJoin[u] = 0

\* A uThread exists while it runs, and the cache holds, once each, those it kept.
Lives ==
  /\ \A u \in UT : (life[u] = "live" <=> pc[u] # "none") /\ (life[u] = "cached" <=> u \in Range(cache))
  /\ IsInjective(cache)

\* A creator has a pointer while it may use it, and jState says what it does.
Handle(p) ==
  /\ pc[p] \in {"idle", "handle"} \cup Joining \cup Detaching
  /\ tgt[p] = NULL <=> pc[p] = "idle"
  /\ tgt[p] # NULL => /\ pc[p] = "handle" <=> jState[tgt[p]] = "JOINABLE"
                      /\ pc[p] \in Joining <=> jState[tgt[p]] = "JOINING"

\* No two creators have the same pointer.
Handles ==
  \A p \in Creators :
    /\ Handle(p)
    /\ \A q \in Creators : tgt[p] = tgt[q] /\ tgt[p] # NULL => p = q

\* x holds u's mutex, or nobody does.
Owned(u, x, holds) == joinMtx[u] = IF holds THEN x ELSE NULL

\* Where a creator p and the uThread u that it has the pointer of can be together:
\* nobody waits, one of them does, one has taken the other out of joinWait, or
\* the meeting is over.
Meeting(p, u) ==
  /\ afterJoin[u] = 0 /\ (pc[p] \notin Detaching => pc[u] \notin {"none", "terminated"})
  /\ \/ /\ pc[p] \in {"handle", "acquire", "test", "dAcquire", "dTest", "dRelease"}
        /\ pc[u] \in {"body", "acquire", "test", "terminated", "none"} /\ joinWait[u] = <<>>
        /\ joinMtx[u] = p <=> pc[p] \in {"test", "dTest", "dRelease"}
        /\ joinMtx[u] = u <=> pc[u] = "test"
        /\ joinMtx[u] \in {p, u, NULL}
     \/ /\ pc[p] = "cv" /\ pc[u] \in {"body", "acquire", "test"} /\ joinWait[u] = <<p>>
        /\ Owned(u, u, pc[u] = "test")
     \/ /\ pc[p] \in {"handle", "acquire", "test", "dAcquire", "dTest"}
        /\ pc[u] = "cv" /\ joinWait[u] = <<u>> /\ Owned(u, p, pc[p] \in {"test", "dTest"})
     \/ pc[p] = "cv" /\ pc[u] = "resume" /\ woken[u] = p /\ joinWait[u] = <<>> /\ joinMtx[u] = NULL
     \/ /\ pc[p] \in {"resume", "dResume"} /\ woken[p] = u
        /\ pc[u] = "cv" /\ joinWait[u] = <<>> /\ joinMtx[u] = NULL
     \/ /\ pc[p] \in {"reacquire", "release", "V"} /\ pc[u] = "P" /\ joinWait[u] = <<>>
        /\ Owned(u, p, pc[p] = "release")
     \/ /\ pc[p] = "dRelease" /\ pc[u] \in {"reacquire", "release", "terminated", "none"}
        /\ joinWait[u] = <<>> /\ Owned(u, u, pc[u] = "release")

\* Where a uThread is that no creator has the pointer of: on its way to its end,
\* waiting for a joiner that has passed, or owed the token of its semaphore.
Solo(u) ==
  \/ life[u] = "none"
  \/ /\ pc[u] \in {"none", "body", "acquire", "test", "reacquire", "release", "terminated"}
     /\ joinWait[u] = <<>> /\ afterJoin[u] = 0
     /\ joinMtx[u] = NULL \/ (joinMtx[u] = u /\ pc[u] \in {"test", "release"})
  \/ pc[u] = "cv" /\ joinWait[u] = <<u>> /\ afterJoin[u] = 0 /\ joinMtx[u] = NULL
  \/ pc[u] = "P" /\ joinWait[u] = <<>> /\ afterJoin[u] = 1 /\ joinMtx[u] = NULL

\* Every pointer is in a meeting and every other uThread alone.
Meetings ==
  /\ \A p \in Creators : tgt[p] # NULL => Meeting(p, tgt[p])
  /\ \A u \in UT : (\A p \in Creators : tgt[p] # u) => Solo(u)

\* The counters, the memory of uThreads, live, cached or free, and the states of
\* their joins and detaches agree, until a detach() comes too late.
Consistent == ~stale => TypeOK /\ CleanRecycle /\ Lives /\ Handles /\ Meetings

\* A join, once called, returns, and the joined uThread is destroyed.  It is stated
\* for any one creator and any one uThread: all of them do the same.
JoinCompletes ==
  LET p == CHOOSE p \in Creators : TRUE
      u == CHOOSE u \in UT : TRUE
  IN  /\ (pc[p] = "acquire") ~> (pc[p] = "idle" \/ stale)
      /\ (pc[u] = "P") ~> (pc[u] = "none" \/ stale)
=============================================================================
