------------------------- MODULE BlockingSync_proofs -------------------------
(***************************************************************************)
(* Proofs about BlockingSync, for any number of uThreads and kThreads: the  *)
(* steps of a ConditionVariable, a Semaphore and an OwnerLock preserve the  *)
(* inductive invariant IInv too, so that it holds always; and what follows  *)
(* from it.                                                                 *)
(***************************************************************************)
EXTENDS BlockingSync_mutex

-----------------------------------------------------------------------------
(* Steps that begin to resume a uThread *)

\* k begins to resume u, which it took out of a queue: nobody else resumes u.
LEMMA ResumesBegun ==
  ASSUME Resumes, NEW k \in KT, Alone(k), NEW u \in UT,
         UNCHANGED <<state, cont, owner, bq>>, cur'[k] = cur[k],
         \A v : (InQueue(v, cvq') => InQueue(v, cvq)) /\ (InQueue(v, semq') => InQueue(v, semq)),
         InQueue(u, cvq) \/ InQueue(u, semq), ~InQueue(u, cvq') /\ ~InQueue(u, semq'),
         state[u] = "WAITING", cont[u] \in {"reacquire", "idle"},
         res'[k] = u, pc'[k] # "handOver"
  PROVE  Resumes'
<1>1. ASSUME NEW j \in KT, j # k, Resuming(j)'
      PROVE  Resuming(j) /\ res'[j] = res[j] /\ res[j] # u
  <2>1. Resuming(j) /\ res'[j] = res[j]
    BY Zenon, <1>1 DEF Alone, Resuming
  <2> QED
    BY Zenon, <2>1 DEF Resumes
<1>2. ASSUME NEW j \in KT, Resuming(j)'
      PROVE  /\ res'[j] \in UT /\ state'[res'[j]] = "WAITING"
             /\ cont'[res'[j]] \in {"reacquire", "idle"}
             /\ ~InQueue(res'[j], cvq') /\ ~InQueue(res'[j], semq')
             /\ \A i \in KT : Resuming(i)' /\ res'[i] = res'[j] => i = j
  BY <1>1, <1>2 DEF Resumes
<1>3. ASSUME NEW j \in KT, pc'[j] = "handOver" PROVE pc[j] = "handOver" /\ mx'[j] = mx[j]
  BY Zenon, <1>3 DEF Alone
<1>4. \A j \in KT : cur'[j] = cur[j]
  BY Zenon DEF Alone
<1> QED
  BY <1>2, <1>3, <1>4 DEF Resumes

-----------------------------------------------------------------------------
(* ConditionVariable *)

\* wait(): the caller prepares to be queued at the condition variable.
LEMMA ConditionWaitInv ==
  ASSUME IInv, NEW k \in KT, ConditionWait(k)
  PROVE  IInv'
<1> SUFFICES ASSUME TypeOK, Registers, Ownership, Counts, Current, Waiting, Resumes, Ready,
                    Somewhere, NoWaiterOnFreeMutex, NoWaiterWithUnits
             PROVE  IInv'
  BY Zenon DEF IInv
<1>c. cur[k] \in UT /\ pc[k] = "critical"
  BY Zenon, Types DEF Registers, ConditionWait
<1>s. home[cur[k]] = k /\ state[cur[k]] \in {"RUNNING", "YIELD"}
  BY Types, <1>c DEF Current, Switching, Behind, Releasing
<1>e. /\ state' = [state EXCEPT ![cur[k]] = "WAITING"]
      /\ cont' = [cont EXCEPT ![cur[k]] = "reacquire"]
      /\ pc' = [pc EXCEPT ![k] = "waitPostSwitch"]
      /\ UNCHANGED <<ops, cvq, semq, counter, olcount, lock, owner, bq, depth, rq, cur,
                     mx, ret, res>>
  BY Zenon DEF ConditionWait, Suspend, mutexVars, condVars, olVars, Goto
<1>1. Registers'
  BY ZenonT(30), Types, Domains, <1>c, <1>e DEF Registers, Releasing, Locked
<1>2. Ownership'
  BY Sections, <1>c, <1>e DEF Ownership, Holds
<1>3. Counts'
  BY Zenon, Types, Domains, <1>e DEF Counts, OwnerCount
<1>4. Current'
  BY Domains, <1>c, <1>e
     DEF Current, Switching, Behind, Resuming, Releasing, Registers, Waiting, Resumes
<1>5. Waiting'
  BY SMTT(30), <1>s, <1>e DEF Waiting
<1>6. Resumes'
  BY <1>e DEF Resumes, Resuming, Releasing
<1>7. Ready'
  BY <1>s, <1>e DEF Ready
<1>8. Somewhere'
  BY Domains, <1>c, <1>e DEF Somewhere, WillResume, WillQueue
<1>9. NoWaiterOnFreeMutex'
  BY Zenon, Types, Domains, <1>e DEF NoWaiterOnFreeMutex
<1>10. NoWaiterWithUnits'
  BY Zenon, Types, Domains, <1>e DEF NoWaiterWithUnits
<1>11. TypeOK'
  BY Zenon, <1>c, <1>s, <1>e DEF TypeOK, Loc, Cont
<1> QED
  BY Zenon, <1>1, <1>2, <1>3, <1>4, <1>5, <1>6, <1>7, <1>8, <1>9, <1>10, <1>11 DEF IInv

\* The waiter is queued, and the mutex released after that.
LEMMA WaitPostSwitchInv ==
  ASSUME IInv, NEW k \in KT, WaitPostSwitch(k)
  PROVE  IInv'
<1> SUFFICES ASSUME TypeOK, Registers, Ownership, Counts, Current, Waiting, Resumes, Ready,
                    Somewhere, NoWaiterOnFreeMutex, NoWaiterWithUnits
             PROVE  IInv'
  BY Zenon DEF IInv
<1>c. cur[k] \in UT /\ pc[k] = "waitPostSwitch"
  BY Zenon, Types DEF Registers, WaitPostSwitch
<1>s. /\ home[cur[k]] = k /\ state[cur[k]] = "WAITING" /\ cont[cur[k]] = "reacquire"
      /\ ~InQueue(cur[k], cvq)
  BY Zenon, Types, <1>c DEF Current, Switching
<1>p. PICK q : q = Append(cvq, cur[k]) /\ Appended(cvq, cur[k], q)
  BY Zenon, <1>c, QueueAppend DEF TypeOK
<1>q. Appended(cvq, cur[k], q)
  BY Zenon, <1>p
<1>e. /\ cvq' = q /\ pc' = [pc EXCEPT ![k] = "release"]
      /\ mx' = [mx EXCEPT ![k] = "m"] /\ ret' = [ret EXCEPT ![k] = "main"]
      /\ UNCHANGED <<ops, semq, counter, olcount, lock, owner, bq, state, cont, depth,
                     rq, cur, res>>
  BY Zenon, <1>p DEF WaitPostSwitch, Call, mutexVars, olVars, utVars, Goto
<1>f. /\ Alone(k) /\ pc'[k] = "release" /\ mx'[k] = "m" /\ ret'[k] = "main"
      /\ cur'[k] = cur[k] /\ res'[k] = res[k]
  BY Zenon, Types, Domains, <1>e DEF Alone
<1>1. Registers'
  BY Zenon, RegistersKept, Types, <1>c, <1>e, <1>f DEF Releasing, Locked, Registers
<1>2. Ownership'
  BY ZenonT(30), OwnershipKept, Sections, <1>c, <1>e, <1>f DEF Holds
<1>3. Counts'
  BY Zenon, Types, Domains, <1>e DEF Counts, OwnerCount
<1>4. Current'
  BY Domains, <1>s, <1>q, <1>e DEF Current, Switching, Behind, Resuming, Releasing, Appended
<1>5. Waiting'
  BY ZenonT(30), <1>s, <1>q, <1>e DEF Waiting, Appended
<1>6. Resumes'
  BY Types, Domains, <1>c, <1>q, <1>e
     DEF Resumes, Resuming, Locked, Current, Switching, Appended
<1>7. Somewhere'
  BY <1>c, <1>q, <1>e DEF Somewhere, WillResume, WillQueue, Appended
<1>8. NoWaiterOnFreeMutex'
  BY Zenon, Types, Domains, <1>c, <1>e DEF NoWaiterOnFreeMutex
<1>9. NoWaiterWithUnits'
  BY Zenon, Types, Domains, <1>e DEF NoWaiterWithUnits
<1>10. Ready'
  BY Zenon, <1>e DEF Ready
<1>11. TypeOK'
  BY Zenon, Types, <1>c, <1>s, <1>q, <1>e DEF TypeOK, Loc, Mutexes, Appended
<1> QED
  BY Zenon, <1>1, <1>2, <1>3, <1>4, <1>5, <1>6, <1>7, <1>8, <1>9, <1>10, <1>11 DEF IInv

\* signal() takes the oldest waiter out, or only releases.
LEMMA ConditionSignalInv ==
  ASSUME IInv, NEW k \in KT, ConditionSignal(k)
  PROVE  IInv'
<1> SUFFICES ASSUME TypeOK, Registers, Ownership, Counts, Current, Waiting, Resumes, Ready,
                    Somewhere, NoWaiterOnFreeMutex, NoWaiterWithUnits
             PROVE  IInv'
  BY Zenon DEF IInv
<1>c. cur[k] \in UT /\ pc[k] = "critical"
  BY Zenon, Types DEF Registers, ConditionSignal
<1>s. home[cur[k]] = k /\ state[cur[k]] \in {"RUNNING", "YIELD"}
  BY ZenonT(30), Types, <1>c DEF Current, Switching, Behind, Releasing
<1>1. CASE cvq # <<>>
  <2>p. PICK u, t : u = Head(cvq) /\ t = Tail(cvq) /\ Popped(cvq, u, t)
    BY Zenon, <1>1, QueueTail DEF TypeOK
  <2>q. Popped(cvq, u, t)
    BY Zenon, <2>p
  <2>w. state[u] = "WAITING" /\ cont[u] \in {"reacquire", "idle"}
    BY Zenon, <2>q DEF Waiting, Popped
  <2>e. /\ cvq' = t /\ pc' = [pc EXCEPT ![k] = "release"]
        /\ mx' = [mx EXCEPT ![k] = "m"] /\ ret' = [ret EXCEPT ![k] = "signalled"]
        /\ res' = [res EXCEPT ![k] = u]
        /\ UNCHANGED <<ops, semq, counter, olcount, lock, owner, bq, state, cont, depth,
                       rq, cur>>
    BY Zenon, <1>1, <2>p DEF ConditionSignal, Call, mutexVars, olVars, utVars, Goto
  <2>f. /\ Alone(k) /\ pc'[k] = "release" /\ mx'[k] = "m" /\ ret'[k] = "signalled"
        /\ res'[k] = u /\ cur'[k] = cur[k]
    BY Zenon, Types, Domains, <2>e DEF Alone
  <2>1. Registers'
    BY Zenon, Domains, <1>c, <2>e DEF Registers, Locked
  <2>2. Ownership'
    BY Zenon, OwnershipKept, Types, Sections, <1>c, <2>e, <2>f DEF Holds
  <2>3. Counts'
    BY Zenon, Types, Domains, <2>e DEF Counts, OwnerCount
  <2>4. Current'
    BY Domains, <1>s, <2>q, <2>e DEF Current, Switching, Behind, Resuming, Popped
  <2>5. Waiting'
    BY Zenon, <2>q, <2>e DEF Waiting, Popped
  <2>6. Resumes'
    <3>1. u \in UT /\ InQueue(u, cvq) /\ ~InQueue(u, t) /\ ~InQueue(u, semq)
      BY <2>q DEF Waiting, Popped
    <3> QED
      BY Zenon, ResumesBegun, <2>q, <2>w, <3>1, <2>e, <2>f DEF Popped
  <2>7. Somewhere'
    BY SMTT(30), Domains, <1>c, <2>q, <2>e DEF Somewhere, WillResume, WillQueue, Popped
  <2>8. NoWaiterOnFreeMutex'
    BY Zenon, Types, Domains, <1>c, <2>e DEF NoWaiterOnFreeMutex
  <2>9. NoWaiterWithUnits'
    BY Zenon, Types, Domains, <2>e DEF NoWaiterWithUnits
  <2>10. Ready'
    BY Zenon, <2>e DEF Ready
  <2>11. TypeOK'
    BY Zenon, Types, <1>1, <1>c, <1>s, <2>q, <2>w, <2>e DEF TypeOK, Loc, Mutexes, Popped
  <2> QED
    BY Zenon, <2>1, <2>2, <2>3, <2>4, <2>5, <2>6, <2>7, <2>8, <2>9, <2>10, <2>11 DEF IInv
<1>2. CASE cvq = <<>>
  BY Zenon, ReleaseCallInv, <1>2 DEF ConditionSignal, condVars
<1> QED
  BY Zenon, <1>1, <1>2

\* The waiter taken out by signal() is resumed; it was in no queue.
LEMMA SignalledInv ==
  ASSUME IInv, NEW k \in KT, Signalled(k)
  PROVE  IInv'
<1> SUFFICES ASSUME TypeOK, Registers, Ownership, Counts, Current, Waiting, Resumes, Ready,
                    Somewhere, NoWaiterOnFreeMutex, NoWaiterWithUnits
             PROVE  IInv'
  BY Zenon DEF IInv
<1>c. cur[k] \in UT /\ pc[k] = "signalled"
  BY Zenon, Types DEF Registers, Signalled
<1>u. PICK u \in UT : u = res[k]
  BY Zenon, <1>c DEF Resumes, Resuming
<1>h. /\ state[u] = "WAITING" /\ cont[u] \in {"reacquire", "idle"}
      /\ ~InQueue(u, cvq) /\ ~InQueue(u, semq)
      /\ \A j \in KT : Resuming(j) /\ res[j] = u => j = k
  BY Zenon, <1>c, <1>u DEF Resumes, Resuming
<1>r. /\ state' = [state EXCEPT ![u] = "READY"]
      /\ rq' = [rq EXCEPT ![home[u]] = Append(@, u)]
  BY Zenon, <1>u, <1>h DEF Signalled, Resume
<1>p. PICK q : q = Append(rq[home[u]], u) /\ Appended(rq[home[u]], u, q)
  BY Zenon, Types, QueueAppend DEF TypeOK
<1>q. Appended(rq[home[u]], u, q)
  BY Zenon, <1>p
<1>e. /\ state' = [state EXCEPT ![u] = "READY"]
      /\ rq' = [rq EXCEPT ![home[u]] = q]
      /\ pc' = [pc EXCEPT ![k] = "idle"] /\ res' = [res EXCEPT ![k] = NULL]
      /\ UNCHANGED <<ops, cvq, semq, counter, olcount, lock, owner, bq, cont, depth, cur,
                     mx, ret>>
  BY Zenon, <1>r, <1>p DEF Signalled, mutexVars, condVars, olVars, Goto
<1>f. /\ Alone(k) /\ pc'[k] = "idle" /\ res'[k] = NULL /\ cur'[k] = cur[k] /\ mx'[k] = mx[k]
      /\ ret'[k] = ret[k] /\ state'[u] = "READY"
      /\ (\A w \in UT : w # u => state'[w] = state[w])
  BY Zenon, Types, Domains, <1>e DEF Alone
<1>1. Registers'
  BY Zenon, RegistersKept, Types, <1>c, <1>e, <1>f DEF Releasing, Locked, Registers
<1>2. Ownership'
  BY Sections, <1>h, <1>e DEF Ownership, Holds
<1>3. Counts'
  BY Zenon, Types, Domains, <1>e DEF Counts, OwnerCount
<1>4. Current'
  BY <1>c, <1>u, <1>h, <1>e DEF Current, Switching, Behind, Resuming, Releasing
<1>5. Waiting'
  BY SMTT(30), Sections, <1>h, <1>e DEF Waiting
<1>6. Resumes'
  BY SMTT(30), Types, Domains, Sections, <1>h, <1>e DEF Resumes, Resuming, Releasing
<1>7. Ready'
  BY SMTT(30), Types, Domains, <1>h, <1>q, <1>e DEF Ready, Appended
<1>8. Somewhere'
  BY Domains, <1>c, <1>u, <1>e DEF Somewhere, WillResume, WillQueue
<1>9. NoWaiterOnFreeMutex'
  BY Zenon, Types, Domains, <1>e DEF NoWaiterOnFreeMutex
<1>10. NoWaiterWithUnits'
  BY Zenon, Types, Domains, <1>e DEF NoWaiterWithUnits
<1>11. TypeOK'
  BY Zenon, Types, <1>c, <1>u, <1>h, <1>q, <1>e DEF TypeOK, Loc, Appended
<1> QED
  BY Zenon, <1>1, <1>2, <1>3, <1>4, <1>5, <1>6, <1>7, <1>8, <1>9, <1>10, <1>11 DEF IInv

\* signalAll() begins.
LEMMA ConditionSignalAllInv ==
  ASSUME IInv, NEW k \in KT, ConditionSignalAll(k)
  PROVE  IInv'
<1> SUFFICES ASSUME TypeOK, Registers, Ownership, Counts, Current, Waiting, Resumes, Ready,
                    Somewhere, NoWaiterOnFreeMutex, NoWaiterWithUnits
             PROVE  IInv'
  BY Zenon DEF IInv
<1>c. cur[k] \in UT /\ pc[k] = "critical"
  BY Zenon, Types DEF Registers, ConditionSignalAll
<1>s. home[cur[k]] = k /\ state[cur[k]] \in {"RUNNING", "YIELD"}
  BY Types, <1>c DEF Current, Switching, Behind, Releasing
<1>e. /\ pc' = [pc EXCEPT ![k] = "signalAll"]
      /\ UNCHANGED <<ops, cvq, semq, counter, olcount, lock, owner, bq, state, cont,
                     depth, rq, cur, mx, ret, res>>
  BY Zenon DEF ConditionSignalAll, mutexVars, condVars, olVars, utVars, Goto
<1>f. /\ Alone(k) /\ pc'[k] = "signalAll" /\ cur'[k] = cur[k] /\ mx'[k] = mx[k]
      /\ ret'[k] = ret[k] /\ res'[k] = res[k]
  BY Zenon, Types, Domains, <1>e DEF Alone
<1>1. Registers'
  BY Zenon, Types, Domains, <1>c, <1>e DEF Registers, Releasing, Locked
<1>2. Ownership'
  BY ZenonT(30), OwnershipKept, Types, Sections, <1>c, <1>e, <1>f DEF Holds
<1>3. Counts'
  BY Zenon, Types, Domains, <1>e DEF Counts, OwnerCount
<1>4. Current'
  BY Zenon, CurrentKept, Types, Sections, <1>c, <1>s, <1>e, <1>f
     DEF Switching, Behind, Resuming, Releasing
<1>5. Resumes'
  BY Zenon, ResumesKept, Types, Sections, <1>c, <1>s, <1>e, <1>f DEF Resuming, Releasing
<1>6. Somewhere'
  BY Zenon, Types, Domains, <1>c, <1>e DEF Somewhere, WillResume, WillQueue
<1>7. NoWaiterOnFreeMutex'
  BY Zenon, Types, Domains, <1>e DEF NoWaiterOnFreeMutex
<1>8. NoWaiterWithUnits'
  BY Zenon, Types, Domains, <1>e DEF NoWaiterWithUnits
<1>9. Waiting' /\ Ready'
  BY Zenon, QueuesKept, <1>e
<1>10. TypeOK'
  BY Zenon, <1>e DEF TypeOK, Loc
<1> QED
  BY Zenon, <1>1, <1>2, <1>3, <1>4, <1>5, <1>6, <1>7, <1>8, <1>9, <1>10 DEF IInv

\* signalAll() resumes one waiter after the other, and releases at the end.
LEMMA SignalAllStepInv ==
  ASSUME IInv, NEW k \in KT, SignalAllStep(k)
  PROVE  IInv'
<1> SUFFICES ASSUME TypeOK, Registers, Ownership, Counts, Current, Waiting, Resumes, Ready,
                    Somewhere, NoWaiterOnFreeMutex, NoWaiterWithUnits
             PROVE  IInv'
  BY Zenon DEF IInv
<1>c. cur[k] \in UT /\ pc[k] = "signalAll"
  BY Zenon, Types DEF Registers, SignalAllStep
<1>s. home[cur[k]] = k /\ state[cur[k]] \in {"RUNNING", "YIELD"}
  BY Types, <1>c DEF Current, Switching, Behind, Releasing
<1>1. CASE cvq # <<>>
  <2>p. PICK u, t : u = Head(cvq) /\ t = Tail(cvq) /\ Popped(cvq, u, t)
    BY Zenon, <1>1, QueueTail DEF TypeOK
  <2>q. Popped(cvq, u, t)
    BY Zenon, <2>p
  <2>u. u \in UT
    BY Zenon, <2>q DEF Popped
  <2>w. state[u] = "WAITING" /\ cont[u] = "reacquire" /\ InQueue(u, cvq)
    BY Zenon, <2>q, <2>u DEF Waiting, Popped
  <2>r. /\ state' = [state EXCEPT ![u] = "READY"]
        /\ rq' = [rq EXCEPT ![home[u]] = Append(@, u)]
    BY Zenon, <1>1, <2>p, <2>u, <2>w DEF SignalAllStep, Resume
  <2>b. PICK r : r = Append(rq[home[u]], u) /\ Appended(rq[home[u]], u, r)
    BY Zenon, Types, <2>u, QueueAppend DEF TypeOK
  <2>a. Appended(rq[home[u]], u, r)
    BY Zenon, <2>b
  <2>e. /\ cvq' = t /\ state' = [state EXCEPT ![u] = "READY"]
        /\ rq' = [rq EXCEPT ![home[u]] = r]
        /\ UNCHANGED <<ops, semq, counter, olcount, lock, owner, bq, cont, depth, cur,
                       pc, mx, ret, res>>
    BY Zenon, <1>1, <2>r, <2>p, <2>b DEF SignalAllStep, mutexVars, condVars, olVars, utVars
  <2>1. Ownership'
    BY SMTT(30), Sections, <2>w, <2>e DEF Ownership, Holds
  <2>2. Current'
    BY SMTT(30), Types, Domains, Sections, OneCurrent, <1>1, <1>c, <1>s, <2>q, <2>w, <2>e
       DEF Current, Switching, Behind, Resuming, Releasing, Registers, Cont, Locked, Popped
  <2>3. Waiting'
    BY SMTT(30), Sections, <1>c, <2>q, <2>u, <2>w, <2>e DEF Waiting, Popped
  <2>4. Resumes'
    <3>1. \A j \in KT : Resuming(j) => res[j] # u
      BY Zenon, <2>w DEF Resumes
    <3>2. \A j \in KT : pc[j] = "handOver" => owner[mx[j]] # u
      BY SMTT(30), Types, Sections, <2>w DEF Resumes
    <3> QED
      BY Domains, <2>q, <3>1, <3>2, <2>e DEF Resumes, Resuming, Popped
  <2>5. Ready'
    BY SMTT(30), Types, Domains, <1>1, <1>c, <1>s, <2>q, <2>u, <2>w, <2>a, <2>e
       DEF Ready, Popped, Appended
  <2>6. Somewhere'
    BY Types, Domains, <1>1, <1>c, <1>s, <2>q, <2>u, <2>w, <2>a, <2>e
       DEF Somewhere, WillResume, WillQueue, Resuming, Releasing, Popped
  <2>7. Registers' /\ Counts' /\ NoWaiterOnFreeMutex' /\ NoWaiterWithUnits'
    BY Zenon, <2>e
       DEF Registers, Locked, Counts, OwnerCount, NoWaiterOnFreeMutex, NoWaiterWithUnits
  <2>8. TypeOK'
    BY Zenon, Types, <1>1, <1>c, <1>s, <2>q, <2>u, <2>w, <2>a, <2>e DEF TypeOK, Popped, Appended
  <2> QED
    BY Zenon, <2>1, <2>2, <2>3, <2>4, <2>5, <2>6, <2>7, <2>8 DEF IInv
<1>2. CASE cvq = <<>>
  BY Zenon, ReleaseCallInv, <1>2 DEF SignalAllStep, condVars, utVars
<1> QED
  BY Zenon, <1>1, <1>2

-----------------------------------------------------------------------------
(* Semaphore *)

\* P() behind its mutex: a unit is taken, or the caller prepares to be queued.
LEMMA InternalPInv ==
  ASSUME IInv, NEW k \in KT, InternalP(k)
  PROVE  IInv'
<1> SUFFICES ASSUME TypeOK, Registers, Ownership, Counts, Current, Waiting, Resumes, Ready,
                    Somewhere, NoWaiterOnFreeMutex, NoWaiterWithUnits
             PROVE  IInv'
  BY Zenon DEF IInv
<1>c. cur[k] \in UT /\ pc[k] = "P"
  BY Zenon, Types DEF Registers, InternalP
<1>s. home[cur[k]] = k /\ state[cur[k]] \in {"RUNNING", "YIELD"}
  BY Types, <1>c DEF Current, Switching, Behind, Releasing
<1>n. counter \in Nat /\ (counter >= 1 => counter - 1 \in Nat)
  BY SMTT(30) DEF TypeOK
<1>1. CASE counter < 1
  <2>e. /\ state' = [state EXCEPT ![cur[k]] = "WAITING"]
        /\ cont' = [cont EXCEPT ![cur[k]] = "idle"]
        /\ pc' = [pc EXCEPT ![k] = "semPostSwitch"]
        /\ UNCHANGED <<ops, cvq, semq, counter, olcount, lock, owner, bq, depth, rq, cur,
                       mx, ret, res>>
    BY <1>1, <1>n DEF InternalP, Suspend, mutexVars, olVars, Goto
  <2>f. /\ Alone(k) /\ pc'[k] = "semPostSwitch" /\ cur'[k] = cur[k] /\ mx'[k] = mx[k]
        /\ ret'[k] = ret[k] /\ res'[k] = res[k] /\ state'[cur[k]] = "WAITING"
        /\ cont'[cur[k]] = "idle"
        /\ (\A w \in UT : w # cur[k] => state'[w] = state[w] /\ cont'[w] = cont[w])
    BY Zenon, Types, Domains, <1>c, <2>e DEF Alone
  <2>1. Registers'
    BY Zenon, RegistersKept, Types, <1>c, <2>e, <2>f DEF Releasing, Locked, Registers
  <2>2. Ownership'
    BY Sections, <1>c, <2>e DEF Ownership, Holds
  <2>3. Counts'
    BY Zenon, Types, Domains, <2>e DEF Counts, OwnerCount
  <2>4. Current'
    BY SMTT(30), Types, Domains, <1>s, <2>e
       DEF Current, Switching, Behind, Resuming, Releasing, Cont, Locked, Waiting, Resumes
  <2>5. Waiting'
    BY <1>s, <2>e DEF Waiting
  <2>6. Resumes'
    BY ZenonT(30), ResumesKept, Types, <1>c, <1>s, <2>e, <2>f DEF Resuming, Releasing
  <2>7. Ready'
    BY <1>s, <2>e DEF Ready
  <2>8. Somewhere'
    BY Domains, <1>c, <2>e DEF Somewhere, WillResume, WillQueue
  <2>9. NoWaiterOnFreeMutex'
    BY Zenon, Types, Domains, <2>e DEF NoWaiterOnFreeMutex
  <2>10. NoWaiterWithUnits'
    BY <1>1, <1>n, <2>e DEF NoWaiterWithUnits
  <2>11. TypeOK'
    BY Zenon, <1>c, <2>e DEF TypeOK, Loc, Cont
  <2> QED
    BY Zenon, <2>1, <2>2, <2>3, <2>4, <2>5, <2>6, <2>7, <2>8, <2>9, <2>10, <2>11 DEF IInv
<1>2. CASE counter >= 1
  <2>e. /\ counter' = counter - 1 /\ pc' = [pc EXCEPT ![k] = "release"]
        /\ mx' = [mx EXCEPT ![k] = "sm"] /\ ret' = [ret EXCEPT ![k] = "idle"]
        /\ UNCHANGED <<ops, cvq, semq, olcount, lock, owner, bq, state, cont, depth, rq,
                       cur, res>>
    BY <1>2, <1>n DEF InternalP, Call, mutexVars, olVars, Goto
  <2>f. /\ Alone(k) /\ pc'[k] = "release" /\ mx'[k] = "sm" /\ ret'[k] = "idle"
        /\ cur'[k] = cur[k] /\ res'[k] = res[k]
    BY Zenon, Types, Domains, <2>e DEF Alone
  <2>1. Registers'
    BY ZenonT(30), Domains, <1>c, <2>e DEF Registers, Locked
  <2>2. Ownership'
    BY Zenon, OwnershipKept, Types, Sections, <1>c, <2>e, <2>f DEF Holds
  <2>3. Counts'
    BY Zenon, Types, Domains, <2>e DEF Counts, OwnerCount
  <2>4. Current'
    BY Zenon, CurrentKept, <1>s, <2>e, <2>f DEF Switching, Behind, Resuming, Releasing
  <2>5. Resumes'
    BY Zenon, ResumesKept, <2>e, <2>f DEF Resuming, Releasing
  <2>6. Somewhere'
    BY Zenon, Types, Domains, <1>c, <2>e DEF Somewhere, WillResume, WillQueue
  <2>7. NoWaiterOnFreeMutex'
    BY Zenon, Types, Domains, <1>c, <2>e DEF NoWaiterOnFreeMutex
  <2>8. NoWaiterWithUnits'
    BY <1>n, <2>e DEF NoWaiterWithUnits
  <2>9. Waiting' /\ Ready'
    BY Zenon, QueuesKept, <2>e
  <2>10. TypeOK'
    BY Zenon, Types, <1>2, <1>c, <1>s, <1>n, <2>e DEF TypeOK, Loc, Mutexes
  <2> QED
    BY Zenon, <2>1, <2>2, <2>3, <2>4, <2>5, <2>6, <2>7, <2>8, <2>9, <2>10 DEF IInv
<1> QED
  BY Zenon, <1>1, <1>2 DEF InternalP

\* A waiter of P() is queued; the counter is still 0.
LEMMA SemPostSwitchInv ==
  ASSUME IInv, NEW k \in KT, SemPostSwitch(k)
  PROVE  IInv'
<1> SUFFICES ASSUME TypeOK, Registers, Ownership, Counts, Current, Waiting, Resumes, Ready,
                    Somewhere, NoWaiterOnFreeMutex, NoWaiterWithUnits
             PROVE  IInv'
  BY Zenon DEF IInv
<1>c. cur[k] \in UT /\ pc[k] = "semPostSwitch"
  BY Zenon, Types DEF Registers, SemPostSwitch
<1>s. /\ home[cur[k]] = k /\ state[cur[k]] = "WAITING" /\ cont[cur[k]] = "idle"
      /\ ~InQueue(cur[k], semq)
  BY Zenon, Types, <1>c DEF Current, Switching
<1>p. PICK q : q = Append(semq, cur[k]) /\ Appended(semq, cur[k], q)
  BY Zenon, <1>c, QueueAppend DEF TypeOK
<1>q. Appended(semq, cur[k], q)
  BY Zenon, <1>p
<1>e. /\ semq' = q /\ pc' = [pc EXCEPT ![k] = "release"]
      /\ mx' = [mx EXCEPT ![k] = "sm"] /\ ret' = [ret EXCEPT ![k] = "main"]
      /\ UNCHANGED <<ops, cvq, counter, olcount, lock, owner, bq, state, cont, depth, rq,
                     cur, res>>
  BY Zenon, <1>p DEF SemPostSwitch, Call, mutexVars, olVars, utVars, Goto
<1>f. /\ Alone(k) /\ pc'[k] = "release" /\ mx'[k] = "sm" /\ ret'[k] = "main"
      /\ cur'[k] = cur[k] /\ res'[k] = res[k]
  BY Zenon, Types, Domains, <1>e DEF Alone
<1>1. Registers'
  BY Zenon, RegistersKept, Types, <1>c, <1>e, <1>f DEF Releasing, Locked, Registers
<1>2. Ownership'
  BY Zenon, OwnershipKept, Sections, <1>c, <1>e, <1>f DEF Holds
<1>3. Counts'
  BY Zenon, Types, Domains, <1>e DEF Counts, OwnerCount
<1>4. Current'
  BY SMTT(30), Domains, <1>s, <1>q, <1>e
     DEF Current, Switching, Behind, Resuming, Releasing, Registers, Locked, Appended
<1>5. Waiting'
  BY SMTT(30), <1>s, <1>q, <1>e DEF Waiting, Appended
<1>6. Resumes'
  BY SMTT(30), Types, Domains, <1>c, <1>q, <1>e DEF Resumes, Resuming, Current, Switching, Appended
<1>7. Somewhere'
  BY <1>c, <1>q, <1>e DEF Somewhere, WillResume, WillQueue, Resuming, Appended
<1>8. NoWaiterOnFreeMutex'
  BY Zenon, Types, Domains, <1>c, <1>e DEF NoWaiterOnFreeMutex
<1>9. NoWaiterWithUnits'
  BY Zenon, <1>c, <1>e DEF NoWaiterWithUnits
<1>10. Ready'
  BY Zenon, <1>e DEF Ready
<1>11. TypeOK'
  BY Zenon, Types, <1>c, <1>s, <1>q, <1>e DEF TypeOK, Loc, Mutexes, Appended
<1> QED
  BY Zenon, <1>1, <1>2, <1>3, <1>4, <1>5, <1>6, <1>7, <1>8, <1>9, <1>10, <1>11 DEF IInv

\* V() hands its unit to the oldest waiter, or counts it.
LEMMA VBodyInv ==
  ASSUME IInv, NEW k \in KT, VBody(k)
  PROVE  IInv'
<1> SUFFICES ASSUME TypeOK, Registers, Ownership, Counts, Current, Waiting, Resumes, Ready,
                    Somewhere, NoWaiterOnFreeMutex, NoWaiterWithUnits
             PROVE  IInv'
  BY Zenon DEF IInv
<1>c. cur[k] \in UT /\ pc[k] = "V"
  BY Zenon, Types DEF Registers, VBody
<1>s. home[cur[k]] = k /\ state[cur[k]] \in {"RUNNING", "YIELD"}
  BY SMTT(30), Types, <1>c DEF Current, Switching, Behind, Releasing
<1>o. \A j \in KT : pc[j] # "semPostSwitch"
  BY SMTT(30), Types, Sections, OneCurrent, <1>c DEF Ownership, Holds
<1>n. counter \in Nat /\ counter + 1 \in Nat
  BY DEF TypeOK
<1>1. CASE semq # <<>>
  <2>p. PICK u, t : u = Head(semq) /\ t = Tail(semq) /\ Popped(semq, u, t)
    BY Zenon, <1>1, QueueTail DEF TypeOK
  <2>q. Popped(semq, u, t)
    BY Zenon, <2>p
  <2>w. state[u] = "WAITING" /\ cont[u] \in {"reacquire", "idle"}
    BY Zenon, <2>q DEF Waiting, Popped
  <2>e. /\ semq' = t /\ pc' = [pc EXCEPT ![k] = "release"]
        /\ mx' = [mx EXCEPT ![k] = "sm"] /\ ret' = [ret EXCEPT ![k] = "signalled"]
        /\ res' = [res EXCEPT ![k] = u]
        /\ UNCHANGED <<ops, cvq, counter, olcount, lock, owner, bq, state, cont, depth,
                       rq, cur>>
    BY Zenon, <1>1, <2>p DEF VBody, Call, mutexVars, olVars, utVars, Goto
  <2>f. /\ Alone(k) /\ pc'[k] = "release" /\ mx'[k] = "sm" /\ ret'[k] = "signalled"
        /\ res'[k] = u /\ cur'[k] = cur[k]
    BY Zenon, Types, Domains, <2>e DEF Alone
  <2>1. Registers'
    BY Zenon, RegistersKept, Types, <1>c, <2>e, <2>f DEF Releasing, Locked, Registers
  <2>2. Ownership'
    BY ZenonT(30), OwnershipKept, Sections, <1>c, <2>e, <2>f DEF Holds
  <2>3. Counts'
    BY Zenon, Types, Domains, <2>e DEF Counts, OwnerCount
  <2>4. Current'
    BY Domains, <1>s, <2>q, <2>e DEF Current, Switching, Behind, Resuming, Waiting, Popped
  <2>5. Waiting'
    BY Zenon, <2>q, <2>e DEF Waiting, Popped
  <2>6. Resumes'
    <3>1. u \in UT /\ InQueue(u, semq) /\ ~InQueue(u, t) /\ ~InQueue(u, cvq)
      BY SMTT(30), <2>q DEF Waiting, Popped
    <3> QED
      BY Zenon, ResumesBegun, <2>q, <2>w, <3>1, <2>e, <2>f DEF Popped
  <2>7. Somewhere'
    BY Domains, <1>c, <2>q, <2>e DEF Somewhere, WillResume, WillQueue, Popped
  <2>8. NoWaiterOnFreeMutex'
    BY Zenon, Types, Domains, <1>c, <2>e DEF NoWaiterOnFreeMutex
  <2>9. NoWaiterWithUnits'
    BY Zenon, <1>1, <2>e DEF NoWaiterWithUnits
  <2>10. Ready'
    BY Zenon, <2>e DEF Ready
  <2>11. TypeOK'
    BY Zenon, Types, <1>1, <1>c, <1>s, <1>o, <1>n, <2>q, <2>w, <2>e DEF TypeOK, Loc, Mutexes, Popped
  <2> QED
    BY Zenon, <2>1, <2>2, <2>3, <2>4, <2>5, <2>6, <2>7, <2>8, <2>9, <2>10, <2>11 DEF IInv
<1>2. CASE semq = <<>>
  <2>e. /\ counter' = counter + 1 /\ pc' = [pc EXCEPT ![k] = "release"]
        /\ mx' = [mx EXCEPT ![k] = "sm"] /\ ret' = [ret EXCEPT ![k] = "idle"]
        /\ UNCHANGED <<ops, cvq, semq, olcount, lock, owner, bq, state, cont, depth, rq,
                       cur, res>>
    BY Zenon, <1>2 DEF VBody, Call, mutexVars, olVars, utVars, Goto
  <2>f. /\ Alone(k) /\ pc'[k] = "release" /\ mx'[k] = "sm" /\ ret'[k] = "idle"
        /\ cur'[k] = cur[k] /\ res'[k] = res[k]
    BY Zenon, Types, Domains, <2>e DEF Alone
  <2>1. Registers'
    BY ZenonT(30), Domains, <1>c, <2>e DEF Registers, Locked
  <2>2. Ownership'
    BY ZenonT(30), OwnershipKept, Sections, <1>c, <2>e, <2>f DEF Holds
  <2>3. Counts'
    BY Zenon, Types, Domains, <2>e DEF Counts, OwnerCount
  <2>4. Current'
    BY Zenon, CurrentKept, <1>s, <2>e, <2>f DEF Switching, Behind, Resuming, Releasing
  <2>5. Resumes'
    BY Zenon, ResumesKept, Types, Sections, <1>2, <1>c, <1>s, <1>o, <1>n, <2>e, <2>f
       DEF Resuming, Releasing
  <2>6. Somewhere'
    BY Zenon, Types, Domains, <1>c, <2>e DEF Somewhere, WillResume, WillQueue
  <2>7. NoWaiterOnFreeMutex'
    BY Zenon, Types, Domains, <1>c, <2>e DEF NoWaiterOnFreeMutex
  <2>8. NoWaiterWithUnits'
    BY Zenon, Types, Domains, <1>2, <1>o, <2>e DEF NoWaiterWithUnits
  <2>9. Waiting' /\ Ready'
    BY Zenon, QueuesKept, <2>e
  <2>10. TypeOK'
    BY Zenon, <1>n, <2>e DEF TypeOK, Loc, Mutexes
  <2> QED
    BY Zenon, <2>1, <2>2, <2>3, <2>4, <2>5, <2>6, <2>7, <2>8, <2>9, <2>10 DEF IInv
<1> QED
  BY Zenon, <1>1, <1>2

-----------------------------------------------------------------------------
(* OwnerLock *)

\* acquire() of an OwnerLock counts, without its lock.
LEMMA OwnerAcquiredInv ==
  ASSUME IInv, NEW k \in KT, OwnerAcquired(k)
  PROVE  IInv'
<1> SUFFICES ASSUME TypeOK, Registers, Ownership, Counts, Current, Waiting, Resumes, Ready,
                    Somewhere, NoWaiterOnFreeMutex, NoWaiterWithUnits
             PROVE  IInv'
  BY Zenon DEF IInv
<1>c. cur[k] \in UT /\ pc[k] = "olAcquired"
  BY Zenon, Types DEF Registers, OwnerAcquired
<1>s. home[cur[k]] = k /\ state[cur[k]] \in {"RUNNING", "YIELD"}
  BY Types, <1>c DEF Current, Switching, Behind, Releasing
<1>n. olcount \in Nat /\ \A w \in UT : depth[w] \in Nat
  BY Zenon DEF TypeOK
<1>e. /\ olcount' = olcount + 1 /\ depth' = [depth EXCEPT ![cur[k]] = depth[cur[k]] + 1]
      /\ pc' = [pc EXCEPT ![k] = "idle"]
      /\ UNCHANGED <<ops, cvq, semq, counter, lock, owner, bq, state, cont, rq, cur, mx,
                     ret, res>>
  BY Zenon DEF OwnerAcquired, mutexVars, condVars, utVars, Goto
<1>f. /\ Alone(k) /\ pc'[k] = "idle" /\ cur'[k] = cur[k] /\ mx'[k] = mx[k]
      /\ ret'[k] = ret[k] /\ res'[k] = res[k]
  BY Zenon, Types, Domains, <1>e DEF Alone
<1>1. Registers'
  BY ZenonT(30), Types, Domains, <1>c, <1>e DEF Registers, Releasing, Locked
<1>2. Ownership'
  BY ZenonT(30), OwnershipKept, Sections, <1>e, <1>f DEF Holds
<1>3. Counts'
  BY Types, Domains, Sections, OneCurrent, <1>c, <1>e
     DEF Counts, OwnerCount, Ownership, Holds
<1>4. Current'
  BY Zenon, CurrentKept, <1>s, <1>e, <1>f DEF Switching, Behind, Resuming, Releasing
<1>5. Resumes'
  BY Zenon, ResumesKept, Types, Sections, <1>c, <1>n, <1>e, <1>f DEF Resuming, Releasing
<1>6. Somewhere'
  BY ZenonT(30), Types, Domains, <1>c, <1>e DEF Somewhere, WillResume, WillQueue
<1>7. NoWaiterOnFreeMutex'
  BY Types, Domains, Sections, <1>c, <1>s, <1>n, <1>e DEF Registers, NoWaiterOnFreeMutex
<1>8. NoWaiterWithUnits'
  BY Zenon, Types, Domains, <1>e DEF NoWaiterWithUnits
<1>9. Waiting' /\ Ready'
  BY Zenon, QueuesKept, <1>e
<1>10. TypeOK'
  BY SMTT(30), <1>c, <1>e DEF TypeOK, Loc
<1> QED
  BY Zenon, <1>1, <1>2, <1>3, <1>4, <1>5, <1>6, <1>7, <1>8, <1>9, <1>10 DEF IInv

\* The owner of an OwnerLock enters release().
LEMMA OwnerReleaseInv ==
  ASSUME IInv, NEW k \in KT, OwnerRelease(k)
  PROVE  IInv'
<1> SUFFICES ASSUME TypeOK, Registers, Ownership, Counts, Current, Waiting, Resumes, Ready,
                    Somewhere, NoWaiterOnFreeMutex, NoWaiterWithUnits
             PROVE  IInv'
  BY Zenon DEF IInv
<1>c. cur[k] \in UT /\ pc[k] = "idle" /\ depth[cur[k]] > 0
  BY Zenon, Types DEF OwnerRelease
<1>s. home[cur[k]] = k /\ state[cur[k]] \in {"RUNNING", "YIELD"}
  BY Zenon, Types, <1>c DEF Current, Switching, Behind, Releasing
<1>e. /\ pc' = [pc EXCEPT ![k] = "olRelease"] /\ mx' = [mx EXCEPT ![k] = "ol"]
      /\ ret' = [ret EXCEPT ![k] = "olReturn"]
      /\ UNCHANGED <<ops, cvq, semq, counter, olcount, lock, owner, bq, state, cont,
                     depth, rq, cur, res>>
  BY Zenon DEF OwnerRelease, Call, mutexVars, condVars, olVars, utVars, Goto
<1>f. /\ Alone(k) /\ pc'[k] = "olRelease" /\ mx'[k] = "ol" /\ ret'[k] = "olReturn"
      /\ cur'[k] = cur[k] /\ res'[k] = res[k]
  BY Zenon, Types, Domains, <1>e DEF Alone
<1>1. Registers'
  BY Zenon, Domains, <1>c, <1>e DEF Registers, Locked
<1>2. Ownership'
  BY Domains, Sections, <1>c, <1>e DEF Ownership, Holds, Counts, OwnerCount
<1>3. Counts'
  BY Zenon, Types, Domains, <1>c, <1>e DEF Counts, OwnerCount
<1>4. Current'
  BY Zenon, CurrentKept, <1>s, <1>e, <1>f DEF Switching, Behind, Resuming, Releasing
<1>5. Resumes'
  BY Zenon, ResumesKept, <1>e, <1>f DEF Resuming, Releasing
<1>6. Somewhere'
  BY Zenon, Types, Domains, <1>c, <1>e DEF Somewhere, WillResume, WillQueue
<1>7. NoWaiterOnFreeMutex'
  BY Zenon, Types, Domains, <1>c, <1>e DEF NoWaiterOnFreeMutex
<1>8. NoWaiterWithUnits'
  BY Zenon, Types, Domains, <1>e DEF NoWaiterWithUnits
<1>9. Waiting' /\ Ready'
  BY Zenon, QueuesKept, <1>e
<1>10. TypeOK'
  BY Zenon, Types, <1>e DEF TypeOK, Loc
<1> QED
  BY Zenon, <1>1, <1>2, <1>3, <1>4, <1>5, <1>6, <1>7, <1>8, <1>9, <1>10 DEF IInv

\* release() of an OwnerLock: it is released when the count returns to 0.
LEMMA OwnerReleaseBodyInv ==
  ASSUME IInv, NEW k \in KT, OwnerReleaseBody(k)
  PROVE  IInv'
<1> SUFFICES ASSUME TypeOK, Registers, Ownership, Counts, Current, Waiting, Resumes, Ready,
                    Somewhere, NoWaiterOnFreeMutex, NoWaiterWithUnits
             PROVE  IInv'
  BY Zenon DEF IInv
<1>c. cur[k] \in UT /\ pc[k] = "olReleaseBody"
  BY Zenon, Types DEF Registers, OwnerReleaseBody
<1>n. olcount \in Nat /\ \A w \in UT : depth[w] \in Nat
  BY Zenon DEF TypeOK
<1>o. mx[k] = "ol" /\ owner["ol"] = cur[k] /\ olcount = depth[cur[k]] /\ olcount > 0
  BY SMTT(30), <1>c DEF Registers, Counts, OwnerCount
<1>1. CASE olcount = 1
  <2>e. /\ olcount' = olcount - 1 /\ depth' = [depth EXCEPT ![cur[k]] = depth[cur[k]] - 1]
        /\ pc' = [pc EXCEPT ![k] = "releaseBody"]
        /\ UNCHANGED <<ops, cvq, semq, counter, lock, owner, bq, state, cont, rq, cur,
                       mx, ret, res>>
    BY Zenon, <1>1 DEF OwnerReleaseBody, condVars, utVars, Goto
  <2>f. /\ Alone(k) /\ pc'[k] = "releaseBody" /\ cur'[k] = cur[k] /\ mx'[k] = mx[k]
        /\ ret'[k] = ret[k] /\ res'[k] = res[k]
    BY Zenon, Types, Domains, <2>e DEF Alone
  <2>1. Registers'
    BY ZenonT(30), RegistersKept, Types, <1>c, <2>e, <2>f DEF Releasing, Locked, Registers
  <2>2. Ownership'
    BY Sections, <1>o, <2>e DEF Ownership, Holds
  <2>3. Counts'
    BY Domains, OneCurrent, <1>1, <1>o, <2>e DEF Counts, OwnerCount
  <2>4. Current'
    BY ZenonT(30), CurrentKept, Types, <1>c, <2>e, <2>f
       DEF Switching, Behind, Resuming, Releasing, Current, Registers
  <2>5. Resumes'
    BY Zenon, ResumesKept, Types, <1>c, <2>e, <2>f DEF Resuming, Releasing, Registers
  <2>6. Somewhere'
    BY Zenon, Types, Domains, <1>c, <2>e DEF Somewhere, WillResume, WillQueue
  <2>7. NoWaiterOnFreeMutex'
    BY Zenon, Types, Domains, <2>e DEF NoWaiterOnFreeMutex
  <2>8. NoWaiterWithUnits'
    BY Zenon, Types, Domains, <2>e DEF NoWaiterWithUnits
  <2>9. Waiting' /\ Ready'
    BY Zenon, QueuesKept, <2>e
  <2>10. TypeOK'
    BY SMTT(30), <1>c, <1>o, <2>e DEF TypeOK, Loc
  <2> QED
    BY Zenon, <2>1, <2>2, <2>3, <2>4, <2>5, <2>6, <2>7, <2>8, <2>9, <2>10 DEF IInv
<1>2. CASE olcount # 1
  <2>e. /\ olcount' = olcount - 1 /\ lock' = [lock EXCEPT !["ol"] = NULL]
        /\ depth' = [depth EXCEPT ![cur[k]] = depth[cur[k]] - 1]
        /\ pc' = [pc EXCEPT ![k] = "olReturn"]
        /\ UNCHANGED <<ops, cvq, semq, counter, owner, bq, state, cont, rq, cur, mx, ret, res>>
    BY Zenon, <1>2 DEF OwnerReleaseBody, Unlock, condVars, utVars, Goto
  <2>f. /\ Alone(k) /\ pc'[k] = "olReturn" /\ cur'[k] = cur[k] /\ mx'[k] = mx[k]
        /\ ret'[k] = ret[k] /\ res'[k] = res[k]
    BY Zenon, Types, Domains, <2>e DEF Alone
  <2>1. Registers'
    BY Domains, <1>c, <2>e DEF Registers, Locked
  <2>2. Ownership'
    BY ZenonT(30), OwnershipKept, Sections, <2>e, <2>f DEF Holds
  <2>3. Counts'
    BY Domains, <1>2, <1>n, <1>o, <2>e DEF Counts, OwnerCount
  <2>4. Current'
    BY ZenonT(30), CurrentKept, Types, <1>c, <2>e, <2>f
       DEF Switching, Behind, Resuming, Releasing, Current, Registers
  <2>5. Resumes'
    BY Zenon, ResumesKept, <1>c, <2>e, <2>f DEF Resuming, Releasing
  <2>6. Somewhere'
    BY Zenon, Types, Domains, <1>c, <2>e DEF Somewhere, WillResume, WillQueue
  <2>7. NoWaiterOnFreeMutex'
    BY Zenon, Types, Domains, <2>e DEF NoWaiterOnFreeMutex
  <2>8. NoWaiterWithUnits'
    BY Zenon, Types, Domains, <2>e DEF NoWaiterWithUnits
  <2>9. Waiting' /\ Ready'
    BY Zenon, QueuesKept, <2>e
  <2>10. TypeOK'
    BY SMTT(30), <1>c, <1>o, <2>e DEF TypeOK, Loc
  <2> QED
    BY Zenon, <2>1, <2>2, <2>3, <2>4, <2>5, <2>6, <2>7, <2>8, <2>9, <2>10 DEF IInv
<1> QED
  BY Zenon, <1>1, <1>2

\* An inner release() of an OwnerLock unlocks, and nobody is resumed.
LEMMA OwnerReturnInv ==
  ASSUME IInv, NEW k \in KT, OwnerReturn(k)
  PROVE  IInv'
<1> SUFFICES ASSUME TypeOK, Registers, Ownership, Counts, Current, Waiting, Resumes, Ready,
                    Somewhere, NoWaiterOnFreeMutex, NoWaiterWithUnits
             PROVE  IInv'
  BY Zenon DEF IInv
<1>c. cur[k] \in UT /\ pc[k] = "olReturn"
  BY Zenon, Types DEF Registers, OwnerReturn
<1>e. /\ pc' = [pc EXCEPT ![k] = "olReturned"] /\ res' = [res EXCEPT ![k] = olcount]
      /\ UNCHANGED <<ops, cvq, semq, counter, olcount, lock, owner, bq, state, cont,
                     depth, rq, cur, mx, ret>>
  BY Zenon DEF OwnerReturn, mutexVars, condVars, olVars, utVars, Goto
<1>f. /\ Alone(k) /\ pc'[k] = "olReturned" /\ res'[k] = olcount /\ cur'[k] = cur[k]
      /\ mx'[k] = mx[k] /\ ret'[k] = ret[k]
  BY Zenon, Types, Domains, <1>e DEF Alone
<1>1. Registers'
  BY Zenon, Types, Domains, <1>c, <1>e DEF Registers, Releasing, Locked
<1>2. Ownership'
  BY Sections, <1>e DEF Ownership, Holds
<1>3. Counts'
  BY Zenon, Types, Domains, <1>e DEF Counts, OwnerCount
<1>4. Current'
  BY Zenon, CurrentKept, Types, <1>c, <1>e, <1>f
     DEF Switching, Behind, Resuming, Releasing, Current
<1>5. Resumes'
  BY Zenon, ResumesKept, <1>c, <1>e, <1>f DEF Resuming, Releasing
<1>6. Somewhere'
  BY Zenon, Types, Domains, <1>c, <1>e DEF Somewhere, WillResume, WillQueue
<1>7. NoWaiterOnFreeMutex'
  BY Zenon, Types, Domains, <1>e DEF NoWaiterOnFreeMutex
<1>8. NoWaiterWithUnits'
  BY Zenon, Types, Domains, <1>e DEF NoWaiterWithUnits
<1>9. Waiting' /\ Ready'
  BY Zenon, QueuesKept, <1>e
<1>10. TypeOK'
  BY Zenon, <1>e DEF TypeOK, Loc
<1> QED
  BY Zenon, <1>1, <1>2, <1>3, <1>4, <1>5, <1>6, <1>7, <1>8, <1>9, <1>10 DEF IInv

\* release() of an OwnerLock returns.
LEMMA OwnerReturnedInv ==
  ASSUME IInv, NEW k \in KT, OwnerReturned(k)
  PROVE  IInv'
<1> SUFFICES ASSUME TypeOK, Registers, Ownership, Counts, Current, Waiting, Resumes, Ready,
                    Somewhere, NoWaiterOnFreeMutex, NoWaiterWithUnits
             PROVE  IInv'
  BY Zenon DEF IInv
<1>c. cur[k] \in UT /\ pc[k] = "olReturned"
  BY Zenon, Types DEF Registers, OwnerReturned
<1>s. home[cur[k]] = k /\ state[cur[k]] \in {"RUNNING", "YIELD"}
  BY Types, <1>c DEF Current, Switching, Behind, Releasing
<1>e. /\ pc' = [pc EXCEPT ![k] = "idle"] /\ res' = [res EXCEPT ![k] = NULL]
      /\ UNCHANGED <<ops, cvq, semq, counter, olcount, lock, owner, bq, state, cont,
                     depth, rq, cur, mx, ret>>
  BY Zenon DEF OwnerReturned, mutexVars, condVars, olVars, utVars, Goto
<1>f. /\ Alone(k) /\ pc'[k] = "idle" /\ res'[k] = NULL /\ cur'[k] = cur[k] /\ mx'[k] = mx[k]
      /\ ret'[k] = ret[k]
  BY Zenon, Types, Domains, <1>e DEF Alone
<1>1. Registers'
  BY Zenon, RegistersKept, Types, <1>c, <1>e, <1>f DEF Releasing, Locked, Registers
<1>2. Ownership'
  BY Zenon, OwnershipKept, Types, Sections, <1>e, <1>f DEF Holds
<1>3. Counts'
  BY Zenon, Types, Domains, <1>e DEF Counts, OwnerCount
<1>4. Current'
  BY Zenon, CurrentKept, <1>s, <1>e, <1>f DEF Switching, Behind, Resuming, Releasing
<1>5. Resumes'
  BY Zenon, ResumesKept, <1>c, <1>e, <1>f DEF Resuming, Releasing
<1>6. Somewhere'
  BY Zenon, Types, Domains, <1>c, <1>e DEF Somewhere, WillResume, WillQueue
<1>7. NoWaiterOnFreeMutex'
  BY Zenon, Types, Domains, <1>e DEF NoWaiterOnFreeMutex
<1>8. NoWaiterWithUnits'
  BY Zenon, Types, Domains, <1>e DEF NoWaiterWithUnits
<1>9. Waiting' /\ Ready'
  BY Zenon, QueuesKept, <1>e
<1>10. TypeOK'
  BY Zenon, <1>e DEF TypeOK, Loc
<1> QED
  BY Zenon, <1>1, <1>2, <1>3, <1>4, <1>5, <1>6, <1>7, <1>8, <1>9, <1>10 DEF IInv

-----------------------------------------------------------------------------
(* The invariant *)

\* The initial states satisfy the invariant: nobody waits, nobody owns.
LEMMA InitInv == Init => IInv
<1> SUFFICES ASSUME Init PROVE IInv
  BY Zenon
<1>1. TypeOK
  BY HomeAssumption, ProgramsAssumption DEF Init, TypeOK, Cont, Loc, Mutexes, Uses
<1>2. Registers /\ Ownership
  BY Zenon, Sections DEF Init, Registers, Ownership, Holds, Locked, Releasing
<1>3. Counts /\ NoWaiterOnFreeMutex /\ NoWaiterWithUnits
  BY Zenon, HomeAssumption
  DEF Init, Counts, OwnerCount, NoWaiterOnFreeMutex, NoWaiterWithUnits, Mutexes
<1>4. Current /\ Resumes
  BY Zenon DEF Init, Current, Resumes, Resuming, Releasing
<1>5. Waiting /\ Ready
  BY Zenon, HomeAssumption, QueueEmpty DEF Init, Waiting, Ready
<1>6. Somewhere
  BY Zenon DEF Init, Somewhere
<1> QED
  BY Zenon, <1>1, <1>2, <1>3, <1>4, <1>5, <1>6 DEF IInv

\* Every step preserves the invariant: one case for each action.
LEMMA StepInv == IInv /\ [Next]_vars => IInv'
<1> SUFFICES ASSUME IInv, [Next]_vars PROVE IInv'
  BY Zenon
<1>i. TypeOK /\ Registers /\ Ownership /\ Counts /\ Current /\ Waiting /\ Resumes
      /\ Ready /\ Somewhere /\ NoWaiterOnFreeMutex /\ NoWaiterWithUnits
  BY Zenon DEF IInv
<1>1. ASSUME NEW u \in UT, Start(u) PROVE IInv'
  BY Zenon, <1>i, <1>1, StartInv
<1>2. ASSUME NEW k \in KT, Internal(k) PROVE IInv'
  <2>1. CASE Dispatch(k)
    BY Zenon, <1>i, <2>1, DispatchInv
  <2>2. CASE Lock(k)
    BY Zenon, <1>i, <2>2, LockInv
  <2>3. CASE AcquireBody(k)
    BY Zenon, <1>i, <2>3, AcquireBodyInv
  <2>4. CASE LockPostSwitch(k)
    BY Zenon, <1>i, <2>4, LockPostSwitchInv
  <2>5. CASE ReleaseBody(k)
    BY Zenon, <1>i, <2>5, ReleaseBodyInv
  <2>6. CASE HandOver(k)
    BY Zenon, <1>i, <2>6, HandOverInv
  <2>7. CASE WaitPostSwitch(k)
    BY Zenon, <1>i, <2>7, WaitPostSwitchInv
  <2>8. CASE Signalled(k)
    BY Zenon, <1>i, <2>8, SignalledInv
  <2>9. CASE SignalAllStep(k)
    BY Zenon, <1>i, <2>9, SignalAllStepInv
  <2>10. CASE InternalP(k)
    BY Zenon, <1>i, <2>10, InternalPInv
  <2>11. CASE SemPostSwitch(k)
    BY Zenon, <1>i, <2>11, SemPostSwitchInv
  <2>12. CASE VBody(k)
    BY Zenon, <1>i, <2>12, VBodyInv
  <2>13. CASE OwnerAcquired(k)
    BY Zenon, <1>i, <2>13, OwnerAcquiredInv
  <2>14. CASE OwnerReleaseBody(k)
    BY Zenon, <1>i, <2>14, OwnerReleaseBodyInv
  <2>15. CASE OwnerReturn(k)
    BY Zenon, <1>i, <2>15, OwnerReturnInv
  <2>16. CASE OwnerReturned(k)
    BY Zenon, <1>i, <2>16, OwnerReturnedInv
  <2> QED
    BY ZenonT(30), <1>2, <2>1, <2>2, <2>3, <2>4, <2>5, <2>6, <2>7, <2>8, <2>9, <2>10, <2>11,
       <2>12, <2>13, <2>14, <2>15, <2>16
       DEF Internal
<1>3. ASSUME NEW k \in KT, Client(k) PROVE IInv'
  <2>1. CASE Yield(k)
    BY Zenon, <1>i, <2>1, YieldInv
  <2>2. CASE MutexAcquire(k)
    BY Zenon, <1>i, <2>2, AcquireCallInv, Sections DEF MutexAcquire, Mutexes
  <2>3. CASE MutexRelease(k)
    BY Zenon, <1>i, <2>3, ReleaseCallInv DEF MutexRelease
  <2>4. CASE ConditionWait(k)
    BY Zenon, <1>i, <2>4, ConditionWaitInv
  <2>5. CASE ConditionSignal(k)
    BY Zenon, <1>i, <2>5, ConditionSignalInv
  <2>6. CASE ConditionSignalAll(k)
    BY Zenon, <1>i, <2>6, ConditionSignalAllInv
  <2>7. CASE P(k)
    BY Zenon, <1>i, <2>7, AcquireCallInv, Sections DEF P, Mutexes
  <2>8. CASE V(k)
    BY Zenon, <1>i, <2>8, AcquireCallInv, Sections DEF V, Mutexes
  <2>9. CASE OwnerAcquire(k)
    BY Zenon, <1>i, <2>9, AcquireCallInv, Sections DEF OwnerAcquire, Mutexes
  <2>10. CASE OwnerRelease(k)
    BY Zenon, <1>i, <2>10, OwnerReleaseInv
  <2> QED
    BY Zenon, <1>3, <2>1, <2>2, <2>3, <2>4, <2>5, <2>6, <2>7, <2>8, <2>9, <2>10
       DEF Client
<1>4. CASE UNCHANGED vars
  <2>1. UNCHANGED <<ops, lock, owner, bq, cvq, semq, counter, olcount, depth, state, cont,
                    rq, cur, pc, mx, ret, res>>
    BY Zenon, <1>4 DEF vars, mutexVars, condVars, olVars, utVars
  <2>2. TypeOK' /\ Registers'
    BY Zenon, <1>i, <2>1 DEF TypeOK, Registers, Locked
  <2>3. Ownership' /\ Counts'
    BY <1>i, <2>1 DEF Ownership, Holds, Counts, OwnerCount
  <2>4. Current'
    <3>1. ASSUME NEW k \in KT PROVE (Behind(k)' <=> Behind(k)) /\ (Resuming(k)' <=> Resuming(k))
      BY Zenon, <2>1 DEF Behind, Resuming
    <3> SUFFICES ASSUME NEW k \in KT, cur[k] # NULL PROVE Current!(k)'
      BY Zenon, <2>1 DEF Current
    <3> QED
      BY ZenonT(30), <1>i, <2>1, <3>1 DEF Current
  <2>7. Resumes'
    BY ZenonT(30), <1>i, <2>1 DEF Resumes, Resuming
  <2>5. Waiting' /\ Ready'
    BY SMTT(30), <1>i, <2>1 DEF Waiting, Ready
  <2>6. Somewhere' /\ NoWaiterOnFreeMutex' /\ NoWaiterWithUnits'
    BY <1>i, <2>1
       DEF Somewhere, WillResume, WillQueue, NoWaiterOnFreeMutex, NoWaiterWithUnits
  <2> QED
    BY Zenon, <2>2, <2>3, <2>4, <2>5, <2>6, <2>7 DEF IInv
<1> QED
  BY Zenon, <1>1, <1>2, <1>3, <1>4 DEF Next

-----------------------------------------------------------------------------
(* What follows from it *)

\* Whoever is in the section of a mutex owns it, so that nobody else is.
LEMMA ExclusionFromInv == IInv => MutualExclusion
<1> SUFFICES ASSUME IInv, NEW m \in Mutexes, NEW u \in UT, NEW v \in UT,
                    InCritical(u, m), InCritical(v, m)
             PROVE  u = v
  BY Zenon DEF MutualExclusion
<1>1. ASSUME NEW w \in UT, InCritical(w, m) PROVE owner[m] = w
  <2>1. CASE \E k \in KT : cur[k] = w /\ pc[k] \in Inside(m)
    BY Zenon, <2>1 DEF IInv, Ownership, Holds
  <2>2. CASE state[w] = "READY" /\ cont[w] \in Inside(m)
    BY Zenon, <2>2 DEF IInv, Ownership
  <2>3. CASE m = "ol" /\ depth[w] > 0
    BY <2>3 DEF IInv, Counts, OwnerCount
  <2> QED
    BY Zenon, <1>1, <2>1, <2>2, <2>3 DEF InCritical
<1> QED
  BY Zenon, <1>1

\* The uThread a mutex was handed to waits, and is in no queue.
LEMMA TargetFromInv == IInv => HandOverTarget
<1> SUFFICES ASSUME IInv, NEW k \in KT, pc[k] = "handOver"
             PROVE  /\ owner[mx[k]] \in UT
                    /\ state[owner[mx[k]]] = "WAITING"
                    /\ \A q \in Queues : ~InQueue(owner[mx[k]], q)
  BY Zenon DEF HandOverTarget
<1>t. TypeOK
  BY Zenon DEF IInv
<1>1. PICK u \in UT : u = owner[mx[k]]
  BY Zenon DEF IInv, Resumes
<1>2. /\ mx[k] \in Mutexes /\ state[u] = "WAITING" /\ cont[u] \in Inside(mx[k])
      /\ ~InQueue(u, bq[mx[k]])
  BY ZenonT(30), <1>t, <1>1, Types DEF IInv, Resumes
<1>3. \A m \in Mutexes : ~InQueue(u, bq[m])
  BY SMTT(30), <1>2, Sections DEF IInv, Waiting
<1>4. ~InQueue(u, cvq) /\ ~InQueue(u, semq)
  BY <1>2, Sections DEF IInv, Waiting
<1> QED
  BY Zenon, <1>1, <1>2, <1>3, <1>4 DEF Queues

\* A uThread has one position in a queue without repetitions.
LEMMA OnePosition ==
  ASSUME NEW q, Distinct(q), NEW u, NEW i \in Positions(u, q), NEW j \in Positions(u, q)
  PROVE  i = j
  BY Zenon DEF Distinct, Positions

\* The places of a uThread exclude one another, and Somewhere says it has one.
LEMMA OnePlaceFromInv == IInv => WaitsInOnePlace
<1> SUFFICES ASSUME IInv, NEW u \in UT
             PROVE  IF state[u] \in {"WAITING", "READY"}
                    THEN /\ \E p \in Places(u) : Places(u) = {p}
                         /\ state[u] = "READY" <=> InQueue(u, rq[home[u]])
                    ELSE Places(u) = {}
  BY Zenon DEF WaitsInOnePlace
<1>t. TypeOK /\ Current
  BY Zenon DEF IInv
<1>w. /\ \A m \in Mutexes : InQueue(u, bq[m]) =>
            state[u] = "WAITING" /\ cont[u] \in Inside(m) /\ \A k \in KT : cur[k] # u
      /\ InQueue(u, cvq) => state[u] = "WAITING" /\ cont[u] = "reacquire"
      /\ InQueue(u, semq) => state[u] = "WAITING" /\ cont[u] = "idle"
  BY Zenon DEF IInv, Waiting
<1>r. ASSUME NEW k \in KT, WillResume(k, u)
      PROVE  /\ state[u] = "WAITING"
             /\ \/ pc[k] = "handOver" /\ owner[mx[k]] = u /\ cont[u] \in Inside(mx[k])
                \/ Resuming(k) /\ res[k] = u /\ cont[u] \in {"reacquire", "idle"}
  BY Zenon, <1>r DEF IInv, Resumes, WillResume, Resuming, Releasing
<1>q. ASSUME NEW k \in KT, WillQueue(k, u)
      PROVE  state[u] = "WAITING" /\ ~InQueue(u, cvq) /\ ~InQueue(u, semq)
  BY Zenon, <1>t, <1>q, Types DEF Current, WillQueue, Switching
<1>y. state[u] = "READY" <=> InQueue(u, rq[home[u]])
  BY ZenonT(30), Domains, <1>t, Types DEF IInv, Ready
<1>h. ASSUME NEW k \in KT, pc[k] = "handOver", owner[mx[k]] = u
      PROVE  \A j \in KT : cur[j] # u /\ (pc[j] = "handOver" /\ mx[j] = mx[k] => j = k)
  BY Zenon, <1>h DEF IInv, Resumes
<1>i. ASSUME NEW k \in KT, Resuming(k), res[k] = u
      PROVE  \A j \in KT : Resuming(j) /\ res[j] = u => j = k
  BY Zenon, <1>i DEF IInv, Resumes
\* Where a uThread is tells its state, and no two places go together.
<1>1. ASSUME NEW k \in KT, NEW j \in KT, WillResume(k, u), WillResume(j, u) PROVE k = j
  <2>1. CASE pc[k] = "handOver" /\ owner[mx[k]] = u /\ cont[u] \in Inside(mx[k])
    BY <1>t, <1>1, <1>r, <1>h, <2>1, Types, Sections
  <2>2. CASE Resuming(k) /\ res[k] = u /\ cont[u] \in {"reacquire", "idle"}
    BY <1>t, <1>1, <1>r, <1>i, <2>2, Types, Sections
  <2> QED
    BY Zenon, <1>1, <1>r, <2>1, <2>2
<1>2. ASSUME NEW k \in KT, WillResume(k, u)
      PROVE  /\ \A m \in Mutexes : ~InQueue(u, bq[m])
             /\ ~InQueue(u, cvq) /\ ~InQueue(u, semq) /\ \A j \in KT : ~WillQueue(j, u)
  <2>1. CASE pc[k] = "handOver" /\ owner[mx[k]] = u /\ cont[u] \in Inside(mx[k])
    <3>1. /\ \A m \in Mutexes : m # mx[k] => ~InQueue(u, bq[m])
          /\ ~InQueue(u, cvq) /\ ~InQueue(u, semq)
      BY <1>t, <1>w, <2>1, Types, Sections
    <3>2. ~InQueue(u, bq[mx[k]])
      BY Zenon, <2>1 DEF IInv, Resumes
    <3> QED
      BY Zenon, <1>h, <2>1, <3>1, <3>2 DEF WillQueue
  <2>2. CASE Resuming(k) /\ res[k] = u /\ cont[u] \in {"reacquire", "idle"}
    <3>1. /\ \A m \in Mutexes : ~InQueue(u, bq[m])
          /\ ~InQueue(u, cvq) /\ ~InQueue(u, semq)
      BY ZenonT(30), <1>w, <2>2, Sections DEF IInv, Resumes
    <3>2. \A j \in KT : ~WillQueue(j, u)
      BY <1>t, <2>2, Types DEF Current, WillQueue, Switching
    <3> QED
      BY Zenon, <3>1, <3>2
  <2> QED
    BY Zenon, <1>2, <1>r, <2>1, <2>2
<1>3. \A k \in KT : WillQueue(k, u) => \A m \in Mutexes : ~InQueue(u, bq[m])
  BY Zenon, <1>w DEF WillQueue
<1>4. \A k, j \in KT : WillQueue(k, u) /\ WillQueue(j, u) => k = j
  BY <1>t, OneCurrent, Types DEF WillQueue
<1>5. /\ \A m, n \in Mutexes : InQueue(u, bq[m]) /\ InQueue(u, bq[n]) => m = n
      /\ \A m \in Mutexes : InQueue(u, bq[m]) => ~InQueue(u, cvq) /\ ~InQueue(u, semq)
      /\ ~(InQueue(u, cvq) /\ InQueue(u, semq))
  BY <1>w, Sections
<1>p. \A p : p \in Places(u) <=>
        \/ \E m \in Mutexes : \E i \in Positions(u, bq[m]) : p = <<m, i>>
        \/ \E i \in Positions(u, cvq) : p = <<"cvq", i>>
        \/ \E i \in Positions(u, semq) : p = <<"semq", i>>
        \/ \E k \in KT : WillResume(k, u) /\ p = <<"resume", k>>
        \/ \E k \in KT : WillQueue(k, u) /\ p = <<"queue", k>>
        \/ \E i \in Positions(u, rq[home[u]]) : p = <<"ready", i>>
  <2> DEFINE B == UNION {{<<m, i>> : i \in Positions(u, bq[m])} : m \in Mutexes}
             C == {<<"cvq", i>> : i \in Positions(u, cvq)}
             S == {<<"semq", i>> : i \in Positions(u, semq)}
             R == {<<"resume", k>> : k \in {x \in KT : WillResume(x, u)}}
             W == {<<"queue", k>> : k \in {x \in KT : WillQueue(x, u)}}
             Q == {<<"ready", i>> : i \in Positions(u, rq[home[u]])}
  <2>1. \A p : p \in B <=> \E m \in Mutexes : \E i \in Positions(u, bq[m]) : p = <<m, i>>
    <3> DEFINE At(m) == {<<m, i>> : i \in Positions(u, bq[m])}
    <3>1. \A p : p \in B <=> \E m \in Mutexes : p \in At(m)
      BY Zenon
    <3>2. \A p, m : p \in At(m) <=> \E i \in Positions(u, bq[m]) : p = <<m, i>>
      BY Zenon
    <3> QED
      BY ONLY <3>1, <3>2
  <2>2. /\ \A p : p \in C <=> \E i \in Positions(u, cvq) : p = <<"cvq", i>>
        /\ \A p : p \in S <=> \E i \in Positions(u, semq) : p = <<"semq", i>>
    BY Zenon
  <2>3. /\ \A p : p \in R <=> \E k \in KT : WillResume(k, u) /\ p = <<"resume", k>>
        /\ \A p : p \in W <=> \E k \in KT : WillQueue(k, u) /\ p = <<"queue", k>>
    BY Zenon
  <2>4. \A p : p \in Q <=> \E i \in Positions(u, rq[home[u]]) : p = <<"ready", i>>
    BY Zenon
  <2>5. Places(u) = B \cup C \cup S \cup R \cup W \cup Q
    BY Zenon DEF Places
  <2> HIDE DEF B, C, S, R, W, Q
  <2>6. \A p : p \in Places(u) <=>
                 p \in B \/ p \in C \/ p \in S \/ p \in R \/ p \in W \/ p \in Q
    BY Zenon, <2>5
  <2> QED
    BY Zenon, <2>1, <2>2, <2>3, <2>4, <2>6
<1>d. /\ \A m \in Mutexes : Distinct(bq[m])
      /\ Distinct(cvq) /\ Distinct(semq) /\ Distinct(rq[home[u]])
  BY Zenon, <1>t, Types DEF IInv, Waiting, Ready
<1>6. ASSUME NEW m \in Mutexes, InQueue(u, bq[m]) PROVE \E p : Places(u) = {p}
  <2>1. PICK i \in Positions(u, bq[m]) : TRUE
    BY Zenon, <1>6 DEF InQueue
  <2>2. ASSUME NEW p \in Places(u) PROVE p = <<m, i>>
    <3>1. PICK n \in Mutexes : \E j \in Positions(u, bq[n]) : p = <<n, j>>
      BY Zenon, <1>p, <1>w, <1>y, <1>2, <1>3, <1>5, <1>6, <2>2 DEF InQueue
    <3>2. n = m
      BY Zenon, <1>5, <1>6, <3>1 DEF InQueue
    <3> QED
      BY Zenon, <1>d, <2>1, <3>1, <3>2, OnePosition
  <2>3. <<m, i>> \in Places(u)
    BY Zenon, <1>p, <2>1
  <2>4. Places(u) = {<<m, i>>}
    BY Zenon, <2>2, <2>3
  <2> QED
    BY Zenon, <2>4
<1>7. ASSUME InQueue(u, cvq) PROVE \E p : Places(u) = {p}
  <2>1. PICK i \in Positions(u, cvq) : TRUE
    BY Zenon, <1>7 DEF InQueue
  <2>2. ASSUME NEW p \in Places(u) PROVE p = <<"cvq", i>>
    <3>1. PICK j \in Positions(u, cvq) : p = <<"cvq", j>>
      BY Zenon, <1>p, <1>w, <1>y, <1>q, <1>2, <1>5, <1>7, <2>2 DEF InQueue
    <3> QED
      BY Zenon, <1>d, <2>1, <3>1, OnePosition
  <2>3. <<"cvq", i>> \in Places(u)
    BY Zenon, <1>p, <2>1
  <2>4. Places(u) = {<<"cvq", i>>}
    BY Zenon, <2>2, <2>3
  <2> QED
    BY Zenon, <2>4
<1>8. ASSUME InQueue(u, semq) PROVE \E p : Places(u) = {p}
  <2>1. PICK i \in Positions(u, semq) : TRUE
    BY Zenon, <1>8 DEF InQueue
  <2>2. ASSUME NEW p \in Places(u) PROVE p = <<"semq", i>>
    <3>1. PICK j \in Positions(u, semq) : p = <<"semq", j>>
      BY Zenon, <1>p, <1>w, <1>y, <1>q, <1>2, <1>5, <1>8, <2>2 DEF InQueue
    <3> QED
      BY Zenon, <1>d, <2>1, <3>1, OnePosition
  <2>3. <<"semq", i>> \in Places(u)
    BY Zenon, <1>p, <2>1
  <2>4. Places(u) = {<<"semq", i>>}
    BY Zenon, <2>2, <2>3
  <2> QED
    BY Zenon, <2>4
<1>9. ASSUME NEW k \in KT, WillResume(k, u) PROVE Places(u) = {<<"resume", k>>}
  BY Zenon, <1>p, <1>r, <1>y, <1>1, <1>2, <1>9 DEF InQueue
<1>10. ASSUME NEW k \in KT, WillQueue(k, u) PROVE Places(u) = {<<"queue", k>>}
  BY Zenon, <1>p, <1>q, <1>y, <1>2, <1>3, <1>4, <1>10 DEF InQueue
<1>11. CASE state[u] = "READY"
  <2>1. PICK i \in Positions(u, rq[home[u]]) : TRUE
    BY Zenon, <1>11, <1>y DEF InQueue
  <2>2. ASSUME NEW p \in Places(u) PROVE p = <<"ready", i>>
    <3>1. PICK j \in Positions(u, rq[home[u]]) : p = <<"ready", j>>
      BY Zenon, <1>p, <1>w, <1>r, <1>q, <1>11, <2>2 DEF InQueue
    <3> QED
      BY Zenon, <1>d, <2>1, <3>1, OnePosition
  <2>3. <<"ready", i>> \in Places(u)
    BY Zenon, <1>p, <2>1
  <2>4. Places(u) = {<<"ready", i>>}
    BY Zenon, <2>2, <2>3
  <2> QED
    BY Zenon, <1>11, <1>y, <2>4
<1>12. CASE state[u] = "WAITING"
  <2>1. \E p : Places(u) = {p}
    BY Zenon, <1>6, <1>7, <1>8, <1>9, <1>10, <1>12 DEF IInv, Somewhere
  <2> QED
    BY Zenon, <1>12, <1>y, <2>1
<1>13. CASE state[u] \notin {"WAITING", "READY"}
  BY Zenon, <1>p, <1>w, <1>r, <1>q, <1>y, <1>13 DEF InQueue
<1> QED
  BY Zenon, <1>11, <1>12, <1>13

-----------------------------------------------------------------------------
(* Theorems *)

\* The invariant holds in every state the library can reach.
THEOREM Invariance == Spec => []IInv
  BY InitInv, StepInv, PTL DEF Spec

\* Whoever acquire() of a Mutex, an OwnerLock or the Mutex of a Semaphore lets
\* in, at once or by baton passing, is alone until its release().
THEOREM Exclusion == Spec => []MutualExclusion
  BY Invariance, ExclusionFromInv, PTL

\* A uThread that waits or is ready is in one queue, once, or in the hands of
\* one kThread that is about to queue or to resume it: none is lost, and none
\* is scheduled twice.
THEOREM OnePlace == Spec => []WaitsInOnePlace
  BY Invariance, OnePlaceFromInv, PTL

\* The owner that signal(lock, owner) reads again after the unlock is the
\* uThread it took from the queue, which waits for this resume.
THEOREM BatonTarget == Spec => []HandOverTarget
  BY Invariance, TargetFromInv, PTL

\* No uThread is queued, or about to be, at a Mutex that is free.
THEOREM FreeMutex == Spec => []NoWaiterOnFreeMutex
<1>1. IInv => NoWaiterOnFreeMutex
  BY Zenon DEF IInv
<1> QED
  BY <1>1, Invariance, PTL

\* No uThread is queued, or about to be, at a Semaphore with units.
THEOREM NoUnitsMissed == Spec => []NoWaiterWithUnits
<1>1. IInv => NoWaiterWithUnits
  BY Zenon DEF IInv
<1> QED
  BY <1>1, Invariance, PTL

\* OwnerLock::counter, which acquire() increments without the lock, is how
\* often its owner holds the lock.
THEOREM OwnerCounting == Spec => []OwnerCount
<1>1. IInv => OwnerCount
  BY Zenon DEF IInv, Counts
<1> QED
  BY <1>1, Invariance, PTL
=============================================================================
