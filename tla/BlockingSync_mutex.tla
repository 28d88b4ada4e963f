------------------------- MODULE BlockingSync_mutex --------------------------
(***************************************************************************)
(* Proofs about BlockingSync, first part: facts about queues, and that the  *)
(* steps of a Mutex, with those that start, run and switch uThreads,        *)
(* preserve the inductive invariant IInv.                                   *)
(***************************************************************************)
EXTENDS BlockingSync, TLAPS

\* r is q with u appended, and q is h followed by t.
Appended(q, u, r) ==
  /\ r \in Seq(UT) /\ r # <<>>
  /\ \A v : InQueue(v, r) <=> InQueue(v, q) \/ v = u
  /\ Distinct(q) /\ ~InQueue(u, q) => Distinct(r)

Popped(q, h, t) ==
  /\ t \in Seq(UT) /\ h \in UT /\ InQueue(h, q)
  /\ \A v : InQueue(v, q) <=> InQueue(v, t) \/ v = h
  /\ Distinct(q) => Distinct(t) /\ ~InQueue(h, t)

\* Append adds the one element.
LEMMA QueueAppend ==
  ASSUME NEW q \in Seq(UT), NEW u \in UT
  PROVE  \E r : r = Append(q, u) /\ Appended(q, u, r)
<1>r. PICK r : r = Append(q, u)
  BY Zenon
<1>1. /\ r \in Seq(UT) /\ Len(q) \in Nat /\ Len(r) = Len(q) + 1
      /\ \A i \in 1 .. Len(q) + 1 : r[i] = IF i <= Len(q) THEN q[i] ELSE u
  BY <1>r
<1>2. r # <<>>
  BY <1>1
<1>3. ASSUME NEW v, InQueue(v, q) PROVE InQueue(v, r)
  <2>1. PICK i \in 1 .. Len(q) : q[i] = v
    BY Zenon, <1>3 DEF InQueue, Positions
  <2>2. i \in 1 .. Len(r) /\ r[i] = v
    BY <1>1, <2>1
  <2> QED
    BY Zenon, <2>2 DEF InQueue, Positions
<1>4. InQueue(u, r)
  <2>1. Len(q) + 1 \in 1 .. Len(r) /\ r[Len(q) + 1] = u
    BY <1>1
  <2> QED
    BY Zenon, <2>1 DEF InQueue, Positions
<1>5. ASSUME NEW v, InQueue(v, r), v # u PROVE InQueue(v, q)
  <2>1. PICK i \in 1 .. Len(r) : r[i] = v
    BY Zenon, <1>5 DEF InQueue, Positions
  <2>2. i \in 1 .. Len(q) /\ q[i] = v
    BY <1>1, <1>5, <2>1
  <2> QED
    BY Zenon, <2>2 DEF InQueue, Positions
<1>6. Distinct(q) /\ ~InQueue(u, q) => Distinct(r)
  BY <1>1 DEF Distinct, InQueue, Positions
<1> QED
  BY Zenon, <1>r, <1>1, <1>2, <1>3, <1>4, <1>5, <1>6 DEF Appended

\* The first element is the only one that leaves.
LEMMA QueueTail ==
  ASSUME NEW q \in Seq(UT), q # <<>>
  PROVE  \E h, t : h = Head(q) /\ t = Tail(q) /\ Popped(q, h, t)
<1>h. PICK h, t : h = Head(q) /\ t = Tail(q)
  BY Zenon
<1>1. /\ Len(q) \in Nat /\ Len(q) > 0 /\ h = q[1] /\ h \in UT
      /\ t \in Seq(UT) /\ Len(t) = Len(q) - 1
      /\ \A i \in 1 .. Len(q) - 1 : t[i] = q[i + 1]
  BY <1>h
<1>2. InQueue(h, q) /\ \A v : InQueue(v, t) => InQueue(v, q)
  <2>1. 1 \in 1 .. Len(q)
    BY <1>1
  <2>2. ASSUME NEW v, InQueue(v, t) PROVE InQueue(v, q)
    <3>1. PICK i \in 1 .. Len(t) : t[i] = v
      BY Zenon, <2>2 DEF InQueue, Positions
    <3>2. i + 1 \in 1 .. Len(q) /\ q[i + 1] = v
      BY <1>1, <3>1
    <3> QED
      BY Zenon, <3>2 DEF InQueue, Positions
  <2> QED
    BY Zenon, <1>1, <2>1, <2>2 DEF InQueue, Positions
<1>3. ASSUME NEW v, InQueue(v, q), v # h PROVE InQueue(v, t)
  <2>1. PICK i \in 1 .. Len(q) : q[i] = v
    BY Zenon, <1>3 DEF InQueue, Positions
  <2>2. i - 1 \in 1 .. Len(t) /\ t[i - 1] = v
    BY <1>1, <1>3, <2>1
  <2>3. PICK j \in 1 .. Len(t) : t[j] = v
    BY Zenon, <2>2
  <2> QED
    BY Zenon, <2>3 DEF InQueue, Positions
<1>4. ASSUME Distinct(q) PROVE Distinct(t) /\ ~InQueue(h, t)
  <2>1. Distinct(t)
    BY SMTT(30), <1>1, <1>4 DEF Distinct
  <2>2. ~InQueue(h, t)
    BY <1>1, <1>4 DEF Distinct, InQueue, Positions
  <2> QED
    BY Zenon, <2>1, <2>2
<1> QED
  BY Zenon, <1>h, <1>1, <1>2, <1>3, <1>4 DEF Popped

\* Nothing is in an empty queue.
LEMMA QueueEmpty == Distinct(<<>>) /\ \A v : ~InQueue(v, <<>>)
  BY DEF Distinct, InQueue, Positions

\* The sections of the mutexes are apart.
LEMMA Sections ==
  \A m \in Mutexes : \A l : l \in Inside(m) <=>
    \/ m = "m" /\ (l = "critical" \/ l = "signalAll")
    \/ m = "sm" /\ (l = "P" \/ l = "V")
    \/ m = "ol" /\ l = "olAcquired"
  BY Zenon DEF Inside, Mutexes

\* What of the types the steps need.
LEMMA Types ==
  ASSUME TypeOK
  PROVE  /\ \A k \in KT : mx[k] \in Mutexes /\ cur[k] \in UT \cup {NULL}
         /\ \A u \in UT : home[u] \in KT /\ u # NULL
         /\ \A m \in Mutexes : owner[m] \in UT \cup {NULL} /\ lock[m] \in KT \cup {NULL}
         /\ NULL \notin KT /\ Mutexes = {"m", "sm", "ol"}
  BY Zenon, HomeAssumption DEF TypeOK, Mutexes

\* The variables are functions on their sets.
LEMMA Domains ==
  ASSUME TypeOK
  PROVE  /\ DOMAIN lock = Mutexes /\ DOMAIN owner = Mutexes /\ DOMAIN bq = Mutexes
         /\ DOMAIN state = UT /\ DOMAIN cont = UT /\ DOMAIN depth = UT
         /\ DOMAIN rq = KT /\ DOMAIN cur = KT /\ DOMAIN pc = KT
         /\ DOMAIN mx = KT /\ DOMAIN ret = KT /\ DOMAIN res = KT
  BY Zenon DEF TypeOK

\* A uThread is the current one of one kThread.
LEMMA OneCurrent ==
  ASSUME TypeOK, Current
  PROVE  \A j, k \in KT : cur[j] # NULL /\ cur[j] = cur[k] => j = k
  BY DEF Current

-----------------------------------------------------------------------------
(* Steps that leave most alone *)

\* Of the registers of the kThreads, only those of k change.
Alone(k) ==
  \A j \in KT : j # k =>
    pc'[j] = pc[j] /\ cur'[j] = cur[j] /\ mx'[j] = mx[j] /\ ret'[j] = ret[j] /\ res'[j] = res[j]

\* The registers: k's are in order, and nobody else's lock is taken.
LEMMA RegistersKept ==
  ASSUME Registers, NEW k \in KT, Alone(k),
         \A j \in KT : j # k /\ Locked(j) => lock'[mx[j]] = lock[mx[j]],
         pc'[k] = "main" <=> cur'[k] = NULL,
         pc'[k] \in {"acquire", "acquireBody", "lockPostSwitch"} =>
           ret'[k] \in Inside(mx'[k]) /\ ret'[k] # "signalAll",
         pc'[k] \in Releasing /\ mx'[k] = "ol" => ret'[k] = "olReturn",
         pc'[k] \in Releasing /\ mx'[k] # "ol" => ret'[k] \in {"idle", "main", "signalled"},
         pc'[k] \in {"olRelease", "olReleaseBody"} => mx'[k] = "ol" /\ ret'[k] = "olReturn",
         pc'[k] = "release" => mx'[k] # "ol",
         Locked(k)' => lock'[mx'[k]] = k
  PROVE  Registers'
<1>1. ASSUME NEW j \in KT, j # k
      PROVE  /\ pc'[j] = pc[j] /\ cur'[j] = cur[j] /\ mx'[j] = mx[j] /\ ret'[j] = ret[j]
             /\ Locked(j)' => Locked(j) /\ lock'[mx[j]] = lock[mx[j]]
  BY Zenon, <1>1 DEF Alone, Locked
<1>2. ASSUME NEW j \in KT, j # k
      PROVE  /\ pc'[j] = "main" <=> cur'[j] = NULL
             /\ pc'[j] \in {"acquire", "acquireBody", "lockPostSwitch"} =>
                  ret'[j] \in Inside(mx'[j]) /\ ret'[j] # "signalAll"
             /\ pc'[j] \in Releasing /\ mx'[j] = "ol" => ret'[j] = "olReturn"
             /\ pc'[j] \in Releasing /\ mx'[j] # "ol" => ret'[j] \in {"idle", "main", "signalled"}
             /\ pc'[j] \in {"olRelease", "olReleaseBody"} => mx'[j] = "ol" /\ ret'[j] = "olReturn"
             /\ pc'[j] = "release" => mx'[j] # "ol"
             /\ Locked(j)' => lock'[mx'[j]] = j
  BY <1>1, <1>2 DEF Registers
<1> QED
  BY ZenonT(30), <1>2 DEF Registers

\* Queues and the uThreads in them.
LEMMA QueuesKept ==
  ASSUME Waiting, Ready, UNCHANGED <<bq, cvq, semq, rq, state, cont, cur>>
  PROVE  Waiting' /\ Ready'
  BY DEF Waiting, Ready

\* The uThreads that are being resumed stay as they are, and k begins to resume nobody.
LEMMA ResumesFrame ==
  ASSUME Resumes, NEW k \in KT, Alone(k), UNCHANGED <<cvq, semq>>,
         Resuming(k)' => Resuming(k) /\ res'[k] = res[k], pc'[k] # "handOver",
         \A j \in KT : Resuming(j)' =>
           state'[res[j]] = state[res[j]] /\ cont'[res[j]] = cont[res[j]],
         \A j \in KT : j # k /\ pc[j] = "handOver" =>
           /\ owner'[mx[j]] = owner[mx[j]] /\ cur'[k] # owner[mx[j]]
           /\ state'[owner[mx[j]]] = state[owner[mx[j]]]
           /\ cont'[owner[mx[j]]] = cont[owner[mx[j]]]
           /\ InQueue(owner[mx[j]], bq'[mx[j]]) => InQueue(owner[mx[j]], bq[mx[j]])
  PROVE  Resumes'
<1>1. ASSUME NEW j \in KT, Resuming(j)' PROVE Resuming(j) /\ res'[j] = res[j]
  BY Zenon, <1>1 DEF Alone, Resuming
<1>2. ASSUME NEW j \in KT, pc'[j] = "handOver"
      PROVE  /\ j # k /\ pc[j] = "handOver" /\ mx'[j] = mx[j]
             /\ owner'[mx[j]] = owner[mx[j]] /\ cur'[k] # owner[mx[j]]
             /\ state'[owner[mx[j]]] = state[owner[mx[j]]]
             /\ cont'[owner[mx[j]]] = cont[owner[mx[j]]]
             /\ InQueue(owner[mx[j]], bq'[mx[j]]) => InQueue(owner[mx[j]], bq[mx[j]])
  BY ZenonT(30), <1>2 DEF Alone
<1>3. ASSUME NEW j \in KT, Resuming(j)'
      PROVE  /\ res'[j] \in UT /\ state'[res'[j]] = "WAITING"
             /\ cont'[res'[j]] \in {"reacquire", "idle"}
             /\ ~InQueue(res'[j], cvq') /\ ~InQueue(res'[j], semq')
             /\ \A i \in KT : Resuming(i)' /\ res'[i] = res'[j] => i = j
  BY <1>1, <1>3 DEF Resumes
<1>4. ASSUME NEW j \in KT, pc'[j] = "handOver", NEW u, u = owner[mx[j]]
      PROVE  /\ u \in UT /\ state'[u] = "WAITING" /\ cont'[u] \in Inside(mx[j])
             /\ ~InQueue(u, bq'[mx[j]])
             /\ \A i \in KT : cur'[i] # u /\ (pc'[i] = "handOver" /\ mx'[i] = mx[j] => i = j)
  <2>1. /\ u \in UT /\ state[u] = "WAITING" /\ cont[u] \in Inside(mx[j])
        /\ ~InQueue(u, bq[mx[j]])
        /\ \A i \in KT : cur[i] # u /\ (pc[i] = "handOver" /\ mx[i] = mx[j] => i = j)
    BY <1>2, <1>4 DEF Resumes
  <2>2. ASSUME NEW i \in KT PROVE cur'[i] # u
    <3>1. CASE i = k
      BY Zenon, <1>2, <1>4, <3>1
    <3>2. CASE i # k
      BY Zenon, <2>1, <3>2 DEF Alone
    <3> QED
      BY Zenon, <3>1, <3>2
  <2>3. ASSUME NEW i \in KT, pc'[i] = "handOver", mx'[i] = mx[j] PROVE i = j
    BY ZenonT(30), <1>2, <2>1, <2>3
  <2>4. state'[u] = state[u] /\ cont'[u] = cont[u] /\ ~InQueue(u, bq'[mx[j]])
    BY Zenon, <1>2, <1>4, <2>1
  <2> QED
    BY ZenonT(30), <2>1, <2>2, <2>3, <2>4
<1> QED
  BY <1>2, <1>3, <1>4 DEF Resumes

\* The same when no uThread that waits is touched at all.
LEMMA ResumesKept ==
  ASSUME Resumes, NEW k \in KT, Alone(k),
         \A w \in UT : state[w] = "WAITING" => state'[w] = "WAITING" /\ cont'[w] = cont[w],
         UNCHANGED <<cvq, semq>>,
         \A j \in KT : j # k /\ pc[j] = "handOver" =>
           owner'[mx[j]] = owner[mx[j]] /\ bq'[mx[j]] = bq[mx[j]],
         cur'[k] \in UT => cur'[k] = cur[k] \/ state[cur'[k]] # "WAITING",
         Resuming(k)' => Resuming(k) /\ res'[k] = res[k], pc'[k] # "handOver"
  PROVE  Resumes'
<1>1. ASSUME NEW j \in KT, Resuming(j)'
      PROVE  state'[res[j]] = state[res[j]] /\ cont'[res[j]] = cont[res[j]]
  <2>1. Resuming(j)
    BY Zenon, <1>1 DEF Alone, Resuming
  <2>2. res[j] \in UT /\ state[res[j]] = "WAITING"
    BY Zenon, <2>1 DEF Resumes
  <2> QED
    BY Zenon, <2>2
<1>2. ASSUME NEW j \in KT, j # k, pc[j] = "handOver"
      PROVE  /\ owner'[mx[j]] = owner[mx[j]] /\ cur'[k] # owner[mx[j]]
             /\ state'[owner[mx[j]]] = state[owner[mx[j]]]
             /\ cont'[owner[mx[j]]] = cont[owner[mx[j]]]
             /\ InQueue(owner[mx[j]], bq'[mx[j]]) => InQueue(owner[mx[j]], bq[mx[j]])
  <2>1. /\ owner[mx[j]] \in UT /\ state[owner[mx[j]]] = "WAITING"
        /\ cur[k] # owner[mx[j]]
    BY ZenonT(30), <1>2 DEF Resumes
  <2> QED
    BY Zenon, <1>2, <2>1
<1> QED
  BY Zenon, <1>1, <1>2, ResumesFrame

\* The current uThreads: k does not switch.
LEMMA CurrentKept ==
  ASSUME Current, NEW k \in KT, Alone(k),
         \A j \in KT : j # k /\ cur[j] # NULL =>
           state'[cur[j]] = state[cur[j]] /\ cont'[cur[j]] = cont[cur[j]],
         UNCHANGED <<cvq, semq>>, Resuming(k)' => Resuming(k) /\ res'[k] = res[k],
         cur'[k] # NULL =>
           /\ home[cur'[k]] = k /\ pc'[k] \notin Switching
           /\ Behind(k)' => /\ state'[cur'[k]] \in {"WAITING", "READY"}
                            /\ cont'[cur'[k]] \in {"reacquire", "idle"}
           /\ ~Behind(k)' => state'[cur'[k]] \in {"RUNNING", "YIELD"}
  PROVE  Current'
<1>1. ASSUME NEW j \in KT, Resuming(j)' PROVE Resuming(j) /\ res'[j] = res[j]
  BY Zenon, <1>1 DEF Alone, Resuming
<1>2. ASSUME NEW j \in KT, j # k, cur'[j] # NULL
      PROVE  /\ cur[j] # NULL /\ cur'[j] = cur[j] /\ pc'[j] = pc[j] /\ ret'[j] = ret[j]
             /\ state'[cur[j]] = state[cur[j]] /\ cont'[cur[j]] = cont[cur[j]]
             /\ Behind(j)' <=> Behind(j)
  BY Zenon, <1>2 DEF Alone, Behind
<1> SUFFICES ASSUME NEW j \in KT, cur'[j] # NULL
             PROVE  /\ home[cur'[j]] = j
                    /\ pc'[j] \in Switching =>
                         /\ state'[cur'[j]] = "WAITING"
                         /\ cont'[cur'[j]] = CASE pc'[j] = "lockPostSwitch" -> ret'[j]
                                               [] pc'[j] = "waitPostSwitch" -> "reacquire"
                                               [] pc'[j] = "semPostSwitch" -> "idle"
                         /\ ~InQueue(cur'[j], cvq') /\ ~InQueue(cur'[j], semq')
                         /\ \A i \in KT : Resuming(i)' => res'[i] # cur'[j]
                    /\ Behind(j)' => /\ state'[cur'[j]] \in {"WAITING", "READY"}
                                     /\ cont'[cur'[j]] \in {"reacquire", "idle"}
                    /\ pc'[j] \notin Switching /\ ~Behind(j)' =>
                         state'[cur'[j]] \in {"RUNNING", "YIELD"}
  BY Zenon DEF Current
<1>3. CASE j = k
  BY Zenon, <1>3
<1>4. CASE j # k
  <2>1. /\ cur[j] # NULL /\ cur'[j] = cur[j] /\ pc'[j] = pc[j] /\ ret'[j] = ret[j]
        /\ state'[cur[j]] = state[cur[j]] /\ cont'[cur[j]] = cont[cur[j]]
        /\ Behind(j)' <=> Behind(j)
    BY Zenon, <1>2, <1>4
  <2>2. ASSUME pc[j] \in Switching
        PROVE  /\ state[cur[j]] = "WAITING"
               /\ cont[cur[j]] = CASE pc[j] = "lockPostSwitch" -> ret[j]
                                   [] pc[j] = "waitPostSwitch" -> "reacquire"
                                   [] pc[j] = "semPostSwitch" -> "idle"
               /\ ~InQueue(cur[j], cvq) /\ ~InQueue(cur[j], semq)
               /\ \A i \in KT : Resuming(i) => res[i] # cur[j]
    BY Zenon, <2>1, <2>2 DEF Current
  <2>3. ASSUME NEW i \in KT, Resuming(i)', pc[j] \in Switching PROVE res'[i] # cur'[j]
    BY Zenon, <1>1, <2>1, <2>2, <2>3
  <2>4. pc'[j] \in Switching => cont'[cur'[j]] = CASE pc'[j] = "lockPostSwitch" -> ret'[j]
                                                  [] pc'[j] = "waitPostSwitch" -> "reacquire"
                                                  [] pc'[j] = "semPostSwitch" -> "idle"
    BY <2>1, <2>2 DEF Switching
  <2>5. /\ home[cur[j]] = j
        /\ Behind(j) => /\ state[cur[j]] \in {"WAITING", "READY"}
                        /\ cont[cur[j]] \in {"reacquire", "idle"}
        /\ pc[j] \notin Switching /\ ~Behind(j) => state[cur[j]] \in {"RUNNING", "YIELD"}
    BY Zenon, <2>1 DEF Current
  <2> QED
    BY Zenon, <2>1, <2>2, <2>3, <2>4, <2>5
<1> QED
  BY Zenon, <1>3, <1>4

\* The owners: k is no further in a section than before.
LEMMA OwnershipKept ==
  ASSUME Ownership, NEW k \in KT, Alone(k), UNCHANGED <<owner, state, cont>>, cur'[k] = cur[k],
         \A m \in Mutexes : Holds(k, m)' => Holds(k, m)
  PROVE  Ownership'
<1>1. ASSUME NEW j \in KT, NEW m \in Mutexes, Holds(j, m)'
      PROVE  Holds(j, m) /\ cur'[j] = cur[j]
  BY Zenon, <1>1 DEF Alone, Holds
<1>2. \A j \in KT, m \in Mutexes : Holds(j, m)' => owner'[m] = cur'[j]
  BY <1>1 DEF Ownership
<1> QED
  BY <1>2 DEF Ownership

\* The uThreads that wait: k leaves nobody behind.
LEMMA SomewhereKept ==
  ASSUME Somewhere, NEW k \in KT, Alone(k),
         \A w \in UT : state'[w] = "WAITING" => state[w] = "WAITING",
         UNCHANGED <<bq, cvq, semq>>,
         \A j \in KT : j # k /\ pc[j] = "handOver" => owner'[mx[j]] = owner[mx[j]],
         \A w \in UT : WillResume(k, w) \/ WillQueue(k, w) => WillResume(k, w)' \/ WillQueue(k, w)'
  PROVE  Somewhere'
<1>1. ASSUME NEW w \in UT, NEW j \in KT, WillResume(j, w) \/ WillQueue(j, w)
      PROVE  WillResume(j, w)' \/ WillQueue(j, w)'
  BY <1>1 DEF Alone, WillResume, WillQueue
<1> QED
  BY Zenon, <1>1 DEF Somewhere

-----------------------------------------------------------------------------
(* uThreads *)

\* A created uThread becomes ready: it was in no queue.
LEMMA StartInv ==
  ASSUME IInv, NEW u \in UT, Start(u)
  PROVE  IInv'
<1> SUFFICES ASSUME TypeOK, Registers, Ownership, Counts, Current, Waiting, Resumes, Ready,
                    Somewhere, NoWaiterOnFreeMutex, NoWaiterWithUnits
             PROVE  IInv'
  BY Zenon DEF IInv
<1>r. /\ state' = [state EXCEPT ![u] = "READY"]
      /\ rq' = [rq EXCEPT ![home[u]] = Append(@, u)]
  BY Zenon DEF Start, Resume
<1>g. state[u] = "INITIALIZED"
  BY Zenon DEF Start
<1>p. PICK q : q = Append(rq[home[u]], u) /\ Appended(rq[home[u]], u, q)
  BY Zenon, Types, QueueAppend DEF TypeOK
<1>q. Appended(rq[home[u]], u, q)
  BY Zenon, <1>p
<1>e. /\ state' = [state EXCEPT ![u] = "READY"]
      /\ rq' = [rq EXCEPT ![home[u]] = q]
      /\ UNCHANGED <<ops, cvq, semq, counter, olcount, lock, owner, bq, cont, depth, cur,
                     pc, mx, ret, res>>
  BY Zenon, <1>r, <1>p DEF Start, mutexVars, condVars, olVars
<1>1. Ownership'
  BY SMTT(30), Sections, <1>g, <1>e DEF Ownership, Holds, Ready
<1>2. Current'
  BY <1>g, <1>e DEF Current, Switching, Behind, Resuming
<1>3. Waiting'
  BY SMTT(30), <1>g, <1>e DEF Waiting
<1>4. Resumes'
  BY SMTT(30), <1>g, <1>e DEF Resumes, Resuming
<1>5. Ready'
  BY SMTT(30), Types, Domains, <1>g, <1>q, <1>e DEF Ready, Appended
<1>6. Somewhere'
  BY <1>e DEF Somewhere, WillResume, WillQueue
<1>7. Registers' /\ Counts' /\ NoWaiterOnFreeMutex' /\ NoWaiterWithUnits'
  BY Zenon, <1>e DEF Registers, Locked, Counts, OwnerCount, NoWaiterOnFreeMutex, NoWaiterWithUnits
<1>8. TypeOK'
  BY Zenon, Types, <1>q, <1>e DEF TypeOK, Appended
<1> QED
  BY Zenon, <1>1, <1>2, <1>3, <1>4, <1>5, <1>6, <1>7, <1>8 DEF IInv

\* A kThread takes the uThread at the head of its ready queue.
LEMMA DispatchInv ==
  ASSUME IInv, NEW k \in KT, Dispatch(k)
  PROVE  IInv'
<1> SUFFICES ASSUME TypeOK, Registers, Ownership, Counts, Current, Waiting, Resumes, Ready,
                    Somewhere, NoWaiterOnFreeMutex, NoWaiterWithUnits
             PROVE  IInv'
  BY Zenon DEF IInv
<1>p. PICK u, t : u = Head(rq[k]) /\ t = Tail(rq[k]) /\ Popped(rq[k], u, t)
  BY Zenon, QueueTail DEF TypeOK, Dispatch
<1>q. Popped(rq[k], u, t)
  BY Zenon, <1>p
<1>h. pc[k] = "main" /\ state[u] = "READY" /\ home[u] = k /\ cont[u] \in Cont
  BY <1>q DEF TypeOK, Ready, Dispatch, Popped
<1>1. CASE cont[u] = "reacquire"
  <2>e. /\ state' = [state EXCEPT ![u] = "RUNNING"]
        /\ rq' = [rq EXCEPT ![k] = t] /\ cur' = [cur EXCEPT ![k] = u]
        /\ pc' = [pc EXCEPT ![k] = "acquire"] /\ mx' = [mx EXCEPT ![k] = "m"]
        /\ ret' = [ret EXCEPT ![k] = "critical"]
        /\ UNCHANGED <<ops, cvq, semq, counter, olcount, lock, owner, bq, cont, depth, res>>
    BY Zenon, <1>1, <1>p DEF Dispatch, Call, mutexVars, condVars, olVars, Goto
  <2>f. /\ Alone(k) /\ cur'[k] = u /\ pc'[k] = "acquire" /\ mx'[k] = "m"
        /\ ret'[k] = "critical" /\ res'[k] = res[k] /\ state'[u] = "RUNNING"
        /\ (\A w \in UT : w # u => state'[w] = state[w])
    BY ZenonT(30), Types, Domains, <1>q, <2>e DEF Alone, Popped
  <2>1. Registers'
    BY SMTT(30), Types, Domains, Sections, <1>1, <1>q, <2>e DEF Registers, Releasing, Locked, Popped
  <2>2. Ownership'
    BY Sections, <1>h, <2>e DEF Ownership, Holds
  <2>3. Counts'
    BY ZenonT(30), Types, Domains, <1>h, <2>e DEF Counts, OwnerCount
  <2>4. Current'
    BY SMTT(30), Types, Domains, Sections, <1>1, <1>q, <1>h, <2>e
       DEF Current, Switching, Behind, Resuming, Releasing, Registers, Cont, Locked, Popped
  <2>5. Waiting'
    BY <1>h, <2>e DEF Waiting
  <2>6. Resumes'
    BY ZenonT(30), ResumesKept, <1>1, <1>h, <2>e, <2>f DEF Resuming, Releasing
  <2>7. Ready'
    BY SMTT(30), Domains, <1>q, <2>e DEF Ready, Popped
  <2>8. Somewhere'
    BY Zenon, SomewhereKept, <1>h, <2>e, <2>f DEF WillResume, WillQueue
  <2>9. NoWaiterOnFreeMutex'
    BY ZenonT(30), Types, Domains, <1>h, <2>e DEF NoWaiterOnFreeMutex
  <2>10. NoWaiterWithUnits'
    BY Zenon, Types, Domains, <2>e DEF NoWaiterWithUnits
  <2>11. TypeOK'
    BY ZenonT(30), Types, <1>1, <1>q, <1>h, <2>e DEF TypeOK, Loc, Mutexes, Cont, Popped
  <2> QED
    BY Zenon, <2>1, <2>2, <2>3, <2>4, <2>5, <2>6, <2>7, <2>8, <2>9, <2>10, <2>11 DEF IInv
<1>2. CASE cont[u] # "reacquire"
  <2>e. /\ state' = [state EXCEPT ![u] = "RUNNING"]
        /\ rq' = [rq EXCEPT ![k] = t] /\ cur' = [cur EXCEPT ![k] = u]
        /\ pc' = [pc EXCEPT ![k] = cont[u]]
        /\ UNCHANGED <<ops, cvq, semq, counter, olcount, lock, owner, bq, cont, depth,
                       mx, ret, res>>
    BY Zenon, <1>2, <1>p DEF Dispatch, mutexVars, condVars, olVars, Goto
  <2>f. /\ Alone(k) /\ cur'[k] = u /\ pc'[k] = cont[u] /\ mx'[k] = mx[k] /\ ret'[k] = ret[k]
        /\ res'[k] = res[k] /\ state'[u] = "RUNNING"
        /\ (\A w \in UT : w # u => state'[w] = state[w])
    BY ZenonT(30), Types, Domains, <1>q, <2>e DEF Alone, Popped
  <2>1. Registers'
    BY SMTT(30), Types, Domains, <1>q, <1>h, <2>e DEF Registers, Cont, Releasing, Locked, Popped
  <2>2. Ownership'
    BY Domains, <1>q, <1>h, <2>e DEF Ownership, Holds, Cont, Releasing, Resuming, Popped
  <2>3. Counts'
    BY ZenonT(30), Types, Domains, <1>h, <2>e DEF Counts, OwnerCount, Cont
  <2>4. Current'
    BY SMTT(30), Types, Domains, Sections, OneCurrent, <1>2, <1>q, <1>h, <2>e
       DEF Current, Switching, Behind, Resuming, Releasing, Registers, Cont, Locked, Popped
  <2>5. Waiting'
    BY <1>h, <2>e DEF Waiting
  <2>6. Resumes'
    BY ZenonT(30), ResumesKept, Types, <1>h, <2>e, <2>f DEF Resuming, Releasing, Cont
  <2>7. Ready'
    BY Domains, <1>q, <2>e DEF Ready, Popped
  <2>8. Somewhere'
    BY Zenon, SomewhereKept, <1>h, <2>e, <2>f DEF WillResume, WillQueue
  <2>9. NoWaiterOnFreeMutex'
    BY ZenonT(30), Types, Domains, <1>h, <2>e DEF NoWaiterOnFreeMutex, Cont
  <2>10. NoWaiterWithUnits'
    BY Zenon, Types, Domains, <1>h, <2>e DEF NoWaiterWithUnits, Cont
  <2>11. TypeOK'
    BY Zenon, <1>2, <1>q, <1>h, <2>e DEF TypeOK, Loc, Cont, Popped
  <2> QED
    BY Zenon, <2>1, <2>2, <2>3, <2>4, <2>5, <2>6, <2>7, <2>8, <2>9, <2>10, <2>11 DEF IInv
<1> QED
  BY Zenon, <1>1, <1>2

\* A uThread that yields goes to the end of the queue it came from.
LEMMA YieldInv ==
  ASSUME IInv, NEW k \in KT, Yield(k)
  PROVE  IInv'
<1> SUFFICES ASSUME TypeOK, Registers, Ownership, Counts, Current, Waiting, Resumes, Ready,
                    Somewhere, NoWaiterOnFreeMutex, NoWaiterWithUnits
             PROVE  IInv'
  BY Zenon DEF IInv
<1>c. cur[k] \in UT /\ pc[k] \in {"idle", "critical"}
  BY Zenon, Types DEF Registers, Yield
<1>s. home[cur[k]] = k /\ state[cur[k]] \in {"RUNNING", "YIELD"}
  BY Types, <1>c DEF Current, Switching, Behind, Releasing
<1>1. CASE rq[k] = <<>>
  <2>e. /\ state' = [state EXCEPT ![cur[k]] = "YIELD"]
        /\ UNCHANGED <<ops, cvq, semq, counter, olcount, lock, owner, bq, cont, depth,
                       rq, cur, pc, mx, ret, res>>
    BY Zenon, <1>1 DEF Yield, mutexVars, condVars, olVars
  <2>f. /\ Alone(k) /\ pc'[k] = pc[k] /\ cur'[k] = cur[k] /\ mx'[k] = mx[k]
        /\ ret'[k] = ret[k] /\ res'[k] = res[k] /\ state'[cur[k]] = "YIELD"
        /\ (\A w \in UT : w # cur[k] => state'[w] = state[w])
    BY ZenonT(30), Types, Domains, <1>c, <2>e DEF Alone
  <2>1. Ownership'
    BY <2>e DEF Ownership, Holds
  <2>2. Current'
    BY SMTT(30), <1>s, <2>e DEF Current, Switching, Behind, Resuming
  <2>3. Waiting'
    BY <1>s, <2>e DEF Waiting
  <2>4. Resumes'
    BY Zenon, ResumesKept, Types, <1>c, <1>s, <2>e, <2>f DEF Resuming, Releasing
  <2>5. Ready'
    BY <1>s, <2>e DEF Ready
  <2>6. Somewhere'
    BY Zenon, SomewhereKept, <2>e, <2>f DEF WillResume, WillQueue
  <2>7. Registers' /\ Counts' /\ NoWaiterOnFreeMutex' /\ NoWaiterWithUnits'
    BY Zenon, <2>e
       DEF Registers, Locked, Counts, OwnerCount, NoWaiterOnFreeMutex, NoWaiterWithUnits
  <2>8. TypeOK'
    BY Zenon, <1>c, <2>e DEF TypeOK
  <2> QED
    BY Zenon, <2>1, <2>2, <2>3, <2>4, <2>5, <2>6, <2>7, <2>8 DEF IInv
<1>2. CASE rq[k] # <<>>
  <2>p. PICK q : q = Append(rq[k], cur[k]) /\ Appended(rq[k], cur[k], q)
    BY Zenon, <1>c, QueueAppend DEF TypeOK
  <2>q. Appended(rq[k], cur[k], q)
    BY Zenon, <2>p
  <2>e. /\ state' = [state EXCEPT ![cur[k]] = "READY"]
        /\ cont' = [cont EXCEPT ![cur[k]] = pc[k]]
        /\ rq' = [rq EXCEPT ![k] = q] /\ cur' = [cur EXCEPT ![k] = NULL]
        /\ pc' = [pc EXCEPT ![k] = "main"]
        /\ UNCHANGED <<ops, cvq, semq, counter, olcount, lock, owner, bq, depth, mx, ret, res>>
    BY Zenon, <1>2, <2>p DEF Yield, mutexVars, condVars, olVars, Goto
  <2>f. /\ Alone(k) /\ cur'[k] = NULL /\ pc'[k] = "main" /\ mx'[k] = mx[k]
        /\ ret'[k] = ret[k] /\ res'[k] = res[k] /\ state'[cur[k]] = "READY"
        /\ cont'[cur[k]] = pc[k]
        /\ (\A w \in UT : w # cur[k] => state'[w] = state[w] /\ cont'[w] = cont[w])
    BY Zenon, Types, Domains, <1>c, <2>e DEF Alone
  <2>1. Registers'
    BY ZenonT(30), RegistersKept, <2>e, <2>f DEF Releasing, Locked
  <2>2. Ownership'
    BY Domains, Sections, <2>e DEF Ownership, Holds, Registers
  <2>3. Counts'
    BY Zenon, Types, Domains, <1>c, <2>e DEF Counts, OwnerCount
  <2>4. Current'
    BY SMTT(30), Domains, <1>s, <2>e
       DEF Current, Switching, Behind, Resuming, Releasing, Registers, Cont, Locked
  <2>5. Waiting'
    BY Types, <1>s, <2>e DEF Waiting, Cont, Resuming
  <2>6. Resumes'
    BY ZenonT(30), ResumesKept, Types, <1>s, <2>e, <2>f DEF Resuming, Releasing
  <2>7. Ready'
    BY Domains, <1>c, <1>s, <2>q, <2>e DEF Ready, Appended
  <2>8. Somewhere'
    BY Zenon, SomewhereKept, <1>c, <2>e, <2>f DEF WillResume, WillQueue
  <2>9. NoWaiterOnFreeMutex'
    BY Zenon, Types, Domains, <2>e DEF NoWaiterOnFreeMutex
  <2>10. NoWaiterWithUnits'
    BY Zenon, Types, Domains, <2>e DEF NoWaiterWithUnits
  <2>11. TypeOK'
    BY Zenon, Types, <1>2, <1>c, <1>s, <2>q, <2>e DEF TypeOK, Loc, Cont, Appended
  <2> QED
    BY Zenon, <2>1, <2>2, <2>3, <2>4, <2>5, <2>6, <2>7, <2>8, <2>9, <2>10, <2>11 DEF IInv
<1> QED
  BY Zenon, <1>1, <1>2

-----------------------------------------------------------------------------
(* Mutex *)

\* A kThread takes the spin lock of a mutex, which is free.
LEMMA LockInv ==
  ASSUME IInv, NEW k \in KT, Lock(k)
  PROVE  IInv'
<1> SUFFICES ASSUME TypeOK, Registers, Ownership, Counts, Current, Waiting, Resumes, Ready,
                    Somewhere, NoWaiterOnFreeMutex, NoWaiterWithUnits
             PROVE  IInv'
  BY Zenon DEF IInv
<1>g. lock[mx[k]] = NULL
  BY Zenon DEF Lock
<1>1. CASE pc[k] = "acquire"
  <2>e. /\ lock' = [lock EXCEPT ![mx[k]] = k] /\ pc' = [pc EXCEPT ![k] = "acquireBody"]
        /\ UNCHANGED <<ops, cvq, semq, counter, olcount, owner, bq, state, cont, depth,
                       rq, cur, mx, ret, res>>
    BY Zenon, <1>1 DEF Lock, condVars, olVars, utVars, Goto
  <2>f. /\ Alone(k) /\ pc'[k] = "acquireBody" /\ cur'[k] = cur[k] /\ mx'[k] = mx[k]
        /\ ret'[k] = ret[k] /\ res'[k] = res[k]
    BY Zenon, Types, Domains, <2>e DEF Alone
  <2>1. Registers'
    BY Types, Domains, <1>1, <1>g, <2>e DEF Registers, Releasing, Locked
  <2>2. Ownership'
    BY ZenonT(30), OwnershipKept, Sections, <2>e, <2>f DEF Holds
  <2>3. Counts'
    BY Zenon, Types, Domains, <2>e DEF Counts, OwnerCount
  <2>4. Current'
    BY Zenon, CurrentKept, Types, Sections, <1>1, <2>e, <2>f
       DEF Switching, Behind, Resuming, Releasing, Current, Registers
  <2>5. Resumes'
    BY Zenon, ResumesKept, Types, Sections, <1>1, <2>e, <2>f DEF Resuming, Releasing
  <2>6. Somewhere'
    BY Zenon, Types, Domains, <1>1, <2>e DEF Somewhere, WillResume, WillQueue
  <2>7. NoWaiterOnFreeMutex'
    BY Zenon, Types, Domains, <2>e DEF NoWaiterOnFreeMutex
  <2>8. NoWaiterWithUnits'
    BY Zenon, Types, Domains, <2>e DEF NoWaiterWithUnits
  <2>9. Waiting' /\ Ready'
    BY Zenon, QueuesKept, <2>e
  <2>10. TypeOK'
    BY Zenon, <2>e DEF TypeOK, Loc
  <2> QED
    BY Zenon, <2>1, <2>2, <2>3, <2>4, <2>5, <2>6, <2>7, <2>8, <2>9, <2>10 DEF IInv
<1>2. CASE pc[k] = "release"
  <2>e. /\ lock' = [lock EXCEPT ![mx[k]] = k] /\ pc' = [pc EXCEPT ![k] = "releaseBody"]
        /\ UNCHANGED <<ops, cvq, semq, counter, olcount, owner, bq, state, cont, depth,
                       rq, cur, mx, ret, res>>
    BY Zenon, <1>2 DEF Lock, condVars, olVars, utVars, Goto
  <2>f. /\ Alone(k) /\ pc'[k] = "releaseBody" /\ cur'[k] = cur[k] /\ mx'[k] = mx[k]
        /\ ret'[k] = ret[k] /\ res'[k] = res[k]
    BY ZenonT(30), Types, Domains, <2>e DEF Alone
  <2>1. Registers'
    BY Types, Domains, <1>2, <1>g, <2>e DEF Registers, Releasing, Locked
  <2>2. Ownership'
    BY ZenonT(30), OwnershipKept, Sections, <1>2, <2>e, <2>f DEF Holds
  <2>3. Counts'
    BY Zenon, Types, Domains, <1>2, <2>e DEF Counts, OwnerCount, Registers
  <2>4. Current'
    BY Zenon, CurrentKept, Types, <1>2, <2>e, <2>f
       DEF Switching, Behind, Resuming, Releasing, Current
  <2>5. Resumes'
    BY Zenon, ResumesKept, <1>2, <2>e, <2>f DEF Resuming, Releasing
  <2>6. Somewhere'
    BY Zenon, Types, Domains, <1>2, <2>e DEF Somewhere, WillResume, WillQueue
  <2>7. NoWaiterOnFreeMutex'
    BY Zenon, Types, Domains, <2>e DEF NoWaiterOnFreeMutex
  <2>8. NoWaiterWithUnits'
    BY Zenon, Types, Domains, <2>e DEF NoWaiterWithUnits
  <2>9. Waiting' /\ Ready'
    BY Zenon, QueuesKept, <2>e
  <2>10. TypeOK'
    BY Zenon, <2>e DEF TypeOK, Loc
  <2> QED
    BY Zenon, <2>1, <2>2, <2>3, <2>4, <2>5, <2>6, <2>7, <2>8, <2>9, <2>10 DEF IInv
<1>3. CASE pc[k] = "olRelease"
  <2>e. /\ lock' = [lock EXCEPT ![mx[k]] = k] /\ pc' = [pc EXCEPT ![k] = "olReleaseBody"]
        /\ UNCHANGED <<ops, cvq, semq, counter, olcount, owner, bq, state, cont, depth,
                       rq, cur, mx, ret, res>>
    BY Zenon, <1>3 DEF Lock, condVars, olVars, utVars, Goto
  <2>f. /\ Alone(k) /\ pc'[k] = "olReleaseBody" /\ cur'[k] = cur[k] /\ mx'[k] = mx[k]
        /\ ret'[k] = ret[k] /\ res'[k] = res[k]
    BY Zenon, Types, Domains, <2>e DEF Alone
  <2>1. Registers'
    BY Types, Domains, Sections, <1>3, <1>g, <2>e DEF Registers, Releasing, Locked
  <2>2. Ownership'
    BY Zenon, OwnershipKept, Sections, <1>3, <2>e, <2>f DEF Holds
  <2>3. Counts'
    BY Zenon, Types, Domains, <1>3, <2>e DEF Counts, OwnerCount
  <2>4. Current'
    BY ZenonT(30), CurrentKept, Types, <1>3, <2>e, <2>f
       DEF Switching, Behind, Resuming, Releasing, Current, Registers, Cont
  <2>5. Resumes'
    BY Zenon, ResumesKept, Types, Sections, <1>3, <1>g, <2>e, <2>f DEF Resuming, Releasing
  <2>6. Somewhere'
    BY Zenon, Types, Domains, <1>3, <2>e DEF Somewhere, WillResume, WillQueue
  <2>7. NoWaiterOnFreeMutex'
    BY Zenon, Types, Domains, <2>e DEF NoWaiterOnFreeMutex
  <2>8. NoWaiterWithUnits'
    BY Zenon, Types, Domains, <2>e DEF NoWaiterWithUnits
  <2>9. Waiting' /\ Ready'
    BY Zenon, QueuesKept, <2>e
  <2>10. TypeOK'
    BY Zenon, <2>e DEF TypeOK, Loc
  <2> QED
    BY Zenon, <2>1, <2>2, <2>3, <2>4, <2>5, <2>6, <2>7, <2>8, <2>9, <2>10 DEF IInv
<1> QED
  BY Zenon, <1>1, <1>2, <1>3 DEF Lock

\* A uThread enters acquire(); it is not in the section of the mutex.
LEMMA AcquireCallInv ==
  ASSUME IInv, NEW k \in KT, NEW m \in Mutexes, NEW l \in Inside(m),
         l # "signalAll", pc[k] = "idle", Call(k, "acquire", m, l),
         UNCHANGED <<ops, mutexVars, condVars, olVars, utVars, res>>
  PROVE  IInv'
<1> SUFFICES ASSUME TypeOK, Registers, Ownership, Counts, Current, Waiting, Resumes, Ready,
                    Somewhere, NoWaiterOnFreeMutex, NoWaiterWithUnits
             PROVE  IInv'
  BY Zenon DEF IInv
<1>c. cur[k] \in UT
  BY Zenon, Types DEF Registers
<1>s. home[cur[k]] = k /\ state[cur[k]] \in {"RUNNING", "YIELD"}
  BY Types, <1>c DEF Current, Switching, Behind, Releasing
<1>t. l \in {"critical", "P", "V", "olAcquired"}
  BY Zenon, Sections
<1>e. /\ pc' = [pc EXCEPT ![k] = "acquire"] /\ mx' = [mx EXCEPT ![k] = m]
      /\ ret' = [ret EXCEPT ![k] = l]
      /\ UNCHANGED <<ops, cvq, semq, counter, olcount, lock, owner, bq, state, cont,
                     depth, rq, cur, res>>
  BY Zenon DEF Call, mutexVars, condVars, olVars, utVars, Goto
<1>f. /\ Alone(k) /\ pc'[k] = "acquire" /\ mx'[k] = m /\ ret'[k] = l /\ cur'[k] = cur[k]
      /\ res'[k] = res[k]
  BY Zenon, Types, Domains, <1>e DEF Alone
<1>1. Registers'
  BY Zenon, RegistersKept, Types, <1>e, <1>f DEF Releasing, Locked, Registers
<1>2. Ownership'
  BY ZenonT(30), OwnershipKept, Types, Sections, <1>e, <1>f DEF Holds
<1>3. Counts'
  BY Zenon, Types, Domains, <1>e DEF Counts, OwnerCount
<1>4. Current'
  BY Zenon, CurrentKept, <1>s, <1>t, <1>e, <1>f DEF Switching, Behind, Resuming, Releasing
<1>5. Resumes'
  BY Zenon, ResumesKept, <1>t, <1>e, <1>f DEF Resuming, Releasing
<1>6. Somewhere'
  BY Zenon, SomewhereKept, <1>e, <1>f DEF WillResume, WillQueue
<1>7. NoWaiterOnFreeMutex'
  BY Zenon, Types, Domains, <1>e DEF NoWaiterOnFreeMutex
<1>8. NoWaiterWithUnits'
  BY Zenon, Types, Domains, <1>e DEF NoWaiterWithUnits
<1>9. Waiting' /\ Ready'
  BY Zenon, QueuesKept, <1>e
<1>10. TypeOK'
  BY Zenon, <1>t, <1>e DEF TypeOK, Loc
<1> QED
  BY Zenon, <1>1, <1>2, <1>3, <1>4, <1>5, <1>6, <1>7, <1>8, <1>9, <1>10 DEF IInv

\* The owner enters release().
LEMMA ReleaseCallInv ==
  ASSUME IInv, NEW k \in KT, pc[k] \in {"critical", "signalAll"}, Call(k, "release", "m", "idle"),
         UNCHANGED <<ops, mutexVars, condVars, olVars, utVars, res>>
  PROVE  IInv'
<1> SUFFICES ASSUME TypeOK, Registers, Ownership, Counts, Current, Waiting, Resumes, Ready,
                    Somewhere, NoWaiterOnFreeMutex, NoWaiterWithUnits
             PROVE  IInv'
  BY Zenon DEF IInv
<1>c. cur[k] \in UT
  BY Zenon, Types DEF Registers
<1>s. home[cur[k]] = k /\ state[cur[k]] \in {"RUNNING", "YIELD"}
  BY Types, <1>c DEF Current, Switching, Behind, Releasing
<1>e. /\ pc' = [pc EXCEPT ![k] = "release"] /\ mx' = [mx EXCEPT ![k] = "m"]
      /\ ret' = [ret EXCEPT ![k] = "idle"]
      /\ UNCHANGED <<ops, cvq, semq, counter, olcount, lock, owner, bq, state, cont,
                     depth, rq, cur, res>>
  BY Zenon DEF Call, mutexVars, condVars, olVars, utVars, Goto
<1>f. /\ Alone(k) /\ pc'[k] = "release" /\ mx'[k] = "m" /\ ret'[k] = "idle"
      /\ cur'[k] = cur[k] /\ res'[k] = res[k]
  BY Zenon, Types, Domains, <1>e DEF Alone
<1>1. Registers'
  BY Zenon, RegistersKept, Types, <1>e, <1>f DEF Releasing, Locked, Registers
<1>2. Ownership'
  BY Zenon, OwnershipKept, Types, Sections, <1>e, <1>f DEF Holds
<1>3. Counts'
  BY Zenon, Types, Domains, <1>e DEF Counts, OwnerCount
<1>4. Current'
  BY Zenon, CurrentKept, <1>s, <1>e, <1>f DEF Switching, Behind, Resuming, Releasing
<1>5. Resumes'
  BY Zenon, ResumesKept, <1>e, <1>f DEF Resuming, Releasing
<1>6. Somewhere'
  BY Zenon, SomewhereKept, <1>e, <1>f DEF WillResume, WillQueue
<1>7. NoWaiterOnFreeMutex'
  BY Zenon, Types, Domains, <1>e DEF NoWaiterOnFreeMutex
<1>8. NoWaiterWithUnits'
  BY Zenon, Types, Domains, <1>e DEF NoWaiterWithUnits
<1>9. Waiting' /\ Ready'
  BY Zenon, QueuesKept, <1>e
<1>10. TypeOK'
  BY Zenon, Types, <1>e DEF TypeOK, Loc
<1> QED
  BY Zenon, <1>1, <1>2, <1>3, <1>4, <1>5, <1>6, <1>7, <1>8, <1>9, <1>10 DEF IInv

\* Behind the lock: the mutex is taken, or the caller prepares to be queued.
LEMMA AcquireBodyInv ==
  ASSUME IInv, NEW k \in KT, AcquireBody(k)
  PROVE  IInv'
<1> SUFFICES ASSUME TypeOK, Registers, Ownership, Counts, Current, Waiting, Resumes, Ready,
                    Somewhere, NoWaiterOnFreeMutex, NoWaiterWithUnits
             PROVE  IInv'
  BY Zenon DEF IInv
<1>c. cur[k] \in UT /\ pc[k] = "acquireBody"
  BY Zenon, Types DEF Registers, AcquireBody
<1>s. home[cur[k]] = k /\ state[cur[k]] \in {"RUNNING", "YIELD"}
  BY Types, <1>c DEF Current, Switching, Behind, Releasing
<1>t. /\ ret[k] \in {"critical", "P", "V", "olAcquired"} /\ ret[k] \in Inside(mx[k])
      /\ lock[mx[k]] = k
  BY ZenonT(30), Sections, Types, <1>c DEF Registers, Locked
<1>1. CASE owner[mx[k]] = NULL \/ (mx[k] = "ol" /\ owner[mx[k]] = cur[k])
  <2>x. \A j \in KT : Holds(j, mx[k]) => j = k
    BY SMTT(30), <1>1, Types, Sections, OneCurrent DEF Ownership, Registers, Holds
  <2>y. \A w \in UT : state[w] = "READY" => cont[w] \notin Inside(mx[k])
    BY <1>1, Types, <1>s DEF Ownership
  <2>e. /\ lock' = [lock EXCEPT ![mx[k]] = NULL]
        /\ owner' = [owner EXCEPT ![mx[k]] = cur[k]] /\ pc' = [pc EXCEPT ![k] = ret[k]]
        /\ ret' = [ret EXCEPT ![k] = "main"]
        /\ UNCHANGED <<ops, cvq, semq, counter, olcount, bq, state, cont, depth, rq, cur,
                       mx, res>>
    BY Zenon, <1>1, <1>t DEF AcquireBody, Return, Unlock, condVars, olVars, Goto
  <2>f. /\ Alone(k) /\ pc'[k] = ret[k] /\ ret'[k] = "main" /\ cur'[k] = cur[k]
        /\ mx'[k] = mx[k] /\ res'[k] = res[k]
    BY Zenon, Types, Domains, <2>e DEF Alone
  <2>1. Registers'
    BY SMTT(30), Domains, <1>c, <1>t, <2>e DEF Registers, Releasing, Locked
  <2>2. Ownership'
    BY Types, Domains, Sections, <1>t, <2>x, <2>y, <2>e DEF Ownership, Holds
  <2>3. Counts'
    BY ZenonT(30), Types, Domains, <1>1, <1>t, <2>e DEF Counts, OwnerCount
  <2>4. Current'
    BY Zenon, CurrentKept, Types, Sections, <1>1, <1>c, <1>s, <1>t, <2>x, <2>y, <2>e, <2>f
       DEF Switching, Behind, Resuming, Releasing
  <2>5. Resumes'
    <3>1. \A j \in KT : pc[j] = "handOver" => mx[j] # mx[k]
      <4>1. \A j \in KT : pc[j] = "handOver" => owner[mx[j]] \in UT /\ cur[k] # owner[mx[j]]
        BY Zenon DEF Resumes
      <4> QED
        BY ZenonT(30), Types, <1>1, <4>1
    <3>2. \A j \in KT : pc[j] = "handOver" => owner'[mx[j]] = owner[mx[j]]
      BY Zenon, Types, Domains, <3>1, <2>e
    <3>3. ~Resuming(k)' /\ pc'[k] # "handOver"
      BY SMTT(30), <1>t, <2>f DEF Resuming, Releasing
    <3> QED
      BY Zenon, ResumesKept, <3>2, <3>3, <2>e, <2>f
  <2>6. Somewhere'
    BY Types, <1>1, <1>c, <2>e DEF Somewhere, WillResume, WillQueue, Resuming, Releasing
  <2>7. NoWaiterOnFreeMutex'
    BY Zenon, Types, Domains, <1>1, <1>t, <2>e DEF NoWaiterOnFreeMutex
  <2>8. NoWaiterWithUnits'
    BY Zenon, Types, Domains, <1>t, <2>e DEF NoWaiterWithUnits
  <2>9. Waiting' /\ Ready'
    BY Zenon, QueuesKept, <2>e
  <2>10. TypeOK'
    BY Zenon, <2>e DEF TypeOK, Loc
  <2> QED
    BY Zenon, <2>1, <2>2, <2>3, <2>4, <2>5, <2>6, <2>7, <2>8, <2>9, <2>10 DEF IInv
<1>2. CASE ~(owner[mx[k]] = NULL \/ (mx[k] = "ol" /\ owner[mx[k]] = cur[k]))
  <2>e. /\ state' = [state EXCEPT ![cur[k]] = "WAITING"]
        /\ cont' = [cont EXCEPT ![cur[k]] = ret[k]]
        /\ pc' = [pc EXCEPT ![k] = "lockPostSwitch"]
        /\ UNCHANGED <<ops, cvq, semq, counter, olcount, lock, owner, bq, depth, rq, cur,
                       mx, ret, res>>
    BY Zenon, <1>2 DEF AcquireBody, Suspend, condVars, olVars, Goto
  <2>f. /\ Alone(k) /\ pc'[k] = "lockPostSwitch" /\ cur'[k] = cur[k] /\ mx'[k] = mx[k]
        /\ ret'[k] = ret[k] /\ res'[k] = res[k] /\ state'[cur[k]] = "WAITING"
        /\ cont'[cur[k]] = ret[k]
        /\ (\A w \in UT : w # cur[k] => state'[w] = state[w] /\ cont'[w] = cont[w])
    BY Zenon, Types, Domains, <1>c, <2>e DEF Alone
  <2>1. Registers'
    BY Zenon, RegistersKept, Types, <1>c, <2>e, <2>f DEF Releasing, Locked, Registers
  <2>2. Ownership'
    BY Sections, <1>s, <2>e DEF Ownership, Holds
  <2>3. Counts'
    BY ZenonT(30), Types, Domains, <2>e DEF Counts, OwnerCount
  <2>4. Current'
    BY SMTT(30), Types, Domains, Sections, OneCurrent, <1>2, <1>c, <1>s, <1>t, <2>e
       DEF Current, Switching, Behind, Resuming, Releasing, Registers, Cont, Locked,
       Waiting, Resumes
  <2>5. Waiting'
    BY <1>s, <2>e DEF Waiting, Switching, Behind
  <2>6. Resumes'
    BY ZenonT(30), ResumesKept, <1>s, <1>t, <2>e, <2>f DEF Resuming, Releasing
  <2>7. Ready'
    BY SMTT(30), <1>s, <2>e DEF Ready
  <2>8. Somewhere'
    BY Domains, <1>c, <2>e DEF Somewhere, WillResume, WillQueue
  <2>9. NoWaiterOnFreeMutex'
    BY Zenon, Types, Domains, <1>2, <2>e DEF NoWaiterOnFreeMutex
  <2>10. NoWaiterWithUnits'
    BY Zenon, Types, Domains, <2>e DEF NoWaiterWithUnits
  <2>11. TypeOK'
    BY Zenon, Types, <1>2, <1>c, <1>t, <2>e DEF TypeOK, Loc, Cont
  <2> QED
    BY Zenon, <2>1, <2>2, <2>3, <2>4, <2>5, <2>6, <2>7, <2>8, <2>9, <2>10, <2>11 DEF IInv
<1> QED
  BY Zenon, <1>1, <1>2

\* The uThread that waits is queued, behind the lock it took in acquire(): the
\* mutex is still owned.
LEMMA LockPostSwitchInv ==
  ASSUME IInv, NEW k \in KT, LockPostSwitch(k)
  PROVE  IInv'
<1> SUFFICES ASSUME TypeOK, Registers, Ownership, Counts, Current, Waiting, Resumes, Ready,
                    Somewhere, NoWaiterOnFreeMutex, NoWaiterWithUnits
             PROVE  IInv'
  BY Zenon DEF IInv
<1>c. cur[k] \in UT /\ pc[k] = "lockPostSwitch"
  BY Zenon, Types DEF Registers, LockPostSwitch
<1>s. /\ home[cur[k]] = k /\ state[cur[k]] = "WAITING" /\ cont[cur[k]] = ret[k]
      /\ ret[k] \in Inside(mx[k]) /\ lock[mx[k]] = k
  BY Zenon, Types, Domains, <1>c DEF Current, Switching, Registers, Locked
<1>p. PICK q : q = Append(bq[mx[k]], cur[k]) /\ Appended(bq[mx[k]], cur[k], q)
  BY Zenon, <1>c, QueueAppend DEF TypeOK
<1>q. Appended(bq[mx[k]], cur[k], q)
  BY Zenon, <1>p
<1>e. /\ lock' = [lock EXCEPT ![mx[k]] = NULL]
      /\ bq' = [bq EXCEPT ![mx[k]] = q]
      /\ cur' = [cur EXCEPT ![k] = NULL] /\ pc' = [pc EXCEPT ![k] = "main"]
      /\ ret' = [ret EXCEPT ![k] = "main"]
      /\ UNCHANGED <<ops, cvq, semq, counter, olcount, owner, state, cont, depth, rq, mx, res>>
  BY Zenon, <1>p DEF LockPostSwitch, Unlock, condVars, olVars, Goto
<1>f. /\ Alone(k) /\ cur'[k] = NULL /\ pc'[k] = "main" /\ ret'[k] = "main" /\ mx'[k] = mx[k]
      /\ res'[k] = res[k]
  BY Zenon, Types, Domains, <1>e DEF Alone
<1>1. Registers'
  BY SMTT(30), Domains, <1>s, <1>e DEF Registers, Releasing, Locked
<1>2. Ownership'
  BY Sections, <1>c, <1>e DEF Ownership, Holds
<1>3. Counts'
  BY Zenon, Types, Domains, <1>c, <1>e DEF Counts, OwnerCount
<1>4. Current'
  BY ZenonT(30), CurrentKept, <1>e, <1>f DEF Switching, Behind, Resuming, Releasing
<1>5. Waiting'
  BY Types, Domains, OneCurrent, <1>c, <1>s, <1>q, <1>e
     DEF Waiting, Registers, Locked, Resuming, Appended
<1>6. Resumes'
  <2>1. ASSUME NEW j \in KT, pc[j] = "handOver", InQueue(owner[mx[j]], bq'[mx[j]])
        PROVE  InQueue(owner[mx[j]], bq[mx[j]])
    <3>1. owner[mx[j]] # cur[k] /\ owner[mx[j]] \in UT
      BY Zenon, <2>1 DEF Resumes
    <3>2. CASE mx[j] = mx[k]
      BY Zenon, Types, Domains, <1>q, <1>e, <2>1, <3>1, <3>2 DEF Appended
    <3>3. CASE mx[j] # mx[k]
      BY Zenon, Types, Domains, <1>e, <2>1, <3>3
    <3> QED
      BY Zenon, <3>2, <3>3
  <2>2. ASSUME NEW j \in KT, pc[j] = "handOver" PROVE owner[mx[j]] # NULL
    BY Zenon, Types, <2>2 DEF Resumes
  <2> QED
    BY Zenon, ResumesFrame, <2>1, <2>2, <1>e, <1>f DEF Resuming
<1>7. Somewhere'
  <2>1. /\ \A n \in Mutexes : \A w : InQueue(w, bq[n]) => InQueue(w, bq'[n])
        /\ InQueue(cur[k], bq'[mx[k]])
    BY Zenon, Types, Domains, <1>q, <1>e DEF Appended
  <2>2. \A j \in KT \ {k} : pc'[j] = pc[j] /\ cur'[j] = cur[j] /\ ret'[j] = ret[j]
    BY Zenon, Types, Domains, <1>e
  <2>3. ASSUME NEW w \in UT, NEW j \in KT, WillResume(j, w) PROVE WillResume(j, w)'
    BY Zenon, Types, Domains, <1>c, <2>3, <1>e DEF WillResume
  <2>4. ASSUME NEW w \in UT, NEW j \in KT, WillQueue(j, w)
       PROVE  WillQueue(j, w)' \/ InQueue(w, bq'[mx[k]])
    BY Zenon, <2>1, <2>2, <2>4 DEF WillQueue
  <2> QED
    BY Zenon, Types, <2>1, <2>3, <2>4, <1>e DEF Somewhere
<1>8. NoWaiterOnFreeMutex'
  BY Zenon, Types, Domains, <1>c, <1>e DEF NoWaiterOnFreeMutex
<1>9. NoWaiterWithUnits'
  BY Zenon, Types, Domains, <1>e DEF NoWaiterWithUnits
<1>10. Ready'
  BY Zenon, <1>e DEF Ready
<1>11. TypeOK'
  BY Zenon, Types, <1>c, <1>q, <1>e DEF TypeOK, Loc, Appended
<1> QED
  BY Zenon, <1>1, <1>2, <1>3, <1>4, <1>5, <1>6, <1>7, <1>8, <1>9, <1>10, <1>11 DEF IInv

\* The mutex becomes free when nobody is queued; otherwise the oldest waiter is
\* taken out and owns it.
LEMMA ReleaseBodyInv ==
  ASSUME IInv, NEW k \in KT, ReleaseBody(k)
  PROVE  IInv'
<1> SUFFICES ASSUME TypeOK, Registers, Ownership, Counts, Current, Waiting, Resumes, Ready,
                    Somewhere, NoWaiterOnFreeMutex, NoWaiterWithUnits
             PROVE  IInv'
  BY Zenon DEF IInv
<1>c. cur[k] \in UT /\ pc[k] = "releaseBody"
  BY Zenon DEF TypeOK, Registers, ReleaseBody
<1>o. owner[mx[k]] = cur[k]
  BY ZenonT(30), Types, <1>c DEF Ownership, Holds
<1>t. ret[k] \in {"main", "olReturn", "idle", "signalled"}
  BY Zenon, <1>c DEF Registers, Releasing
<1>x. \A j \in KT : Holds(j, mx[k]) => j = k
  BY SMTT(30), Types, OneCurrent, <1>c DEF Ownership, Holds
<1>y. \A w \in UT : state[w] = "READY" => cont[w] \notin Inside(mx[k])
  BY SMTT(30), Types, Sections, <1>o DEF Ownership, Current
<1>z. \A j \in KT : pc[j] = "handOver" => mx[j] # mx[k]
  BY SMTT(30), <1>c, <1>o DEF Resumes
<1>1. CASE bq[mx[k]] # <<>>
  <2>p. PICK u, t : u = Head(bq[mx[k]]) /\ t = Tail(bq[mx[k]]) /\ Popped(bq[mx[k]], u, t)
    BY Zenon, <1>1, QueueTail DEF TypeOK
  <2>q. Popped(bq[mx[k]], u, t)
    BY Zenon, <2>p
  <2>u. u \in UT
    BY ZenonT(30), <2>q DEF Popped
  <2>w. /\ state[u] = "WAITING" /\ cont[u] \in Inside(mx[k]) /\ (\A j \in KT : cur[j] # u)
        /\ ~InQueue(u, t)
    BY Types, <2>q, <2>u DEF Waiting, Popped
  <2>e. /\ lock' = [lock EXCEPT ![mx[k]] = NULL] /\ owner' = [owner EXCEPT ![mx[k]] = u]
        /\ bq' = [bq EXCEPT ![mx[k]] = t]
        /\ pc' = [pc EXCEPT ![k] = "handOver"]
        /\ UNCHANGED <<ops, cvq, semq, counter, olcount, state, cont, depth, rq, cur, mx,
                       ret, res>>
    BY Zenon, <1>1, <2>u, <2>p DEF ReleaseBody, Unlock, condVars, olVars, Goto
  <2>f. /\ Alone(k) /\ pc'[k] = "handOver" /\ cur'[k] = cur[k] /\ mx'[k] = mx[k]
        /\ ret'[k] = ret[k] /\ res'[k] = res[k]
    BY ZenonT(30), Types, Domains, <2>e DEF Alone
  <2>1. Registers'
    BY Domains, <1>c, <2>e DEF Registers, Releasing, Locked
  <2>2. Ownership'
    <3>1. \A j \in KT, m \in Mutexes : Holds(j, m)' => owner'[m] = cur'[j]
      BY Domains, Sections, <1>x, <2>e DEF Ownership, Holds
    <3>2. \A w \in UT, m \in Mutexes :
            state'[w] = "READY" /\ cont'[w] \in Inside(m) => owner'[m] = w
      BY ZenonT(30), Types, Domains, <1>y, <2>e DEF Ownership
    <3> QED
      BY ZenonT(30), <3>1, <3>2 DEF Ownership
  <2>3. Counts'
    BY Zenon, Types, Domains, <1>c, <2>e DEF Counts, OwnerCount
  <2>4. Current'
    BY ZenonT(30), CurrentKept, Types, <1>c, <2>e, <2>f
       DEF Switching, Behind, Resuming, Releasing, Current, Cont
  <2>5. Waiting'
    BY SMTT(30), <2>q, <2>e DEF Waiting, Registers, Cont, Releasing, Locked, Resuming, Popped
  <2>6. Resumes'
    BY SMTT(30), Types, Domains, Sections, OneCurrent, <1>1, <1>c, <1>o, <1>t, <1>x, <1>y, <2>q, <2>u,
       <2>w, <2>e
       DEF Resumes, Resuming, Releasing, Registers, Cont, Locked, Current, Switching,
       Behind, Waiting, Ownership, Holds, Popped
  <2>7. Somewhere'
    <3>1. \A n \in Mutexes : \A w : InQueue(w, bq[n]) => InQueue(w, bq'[n]) \/ w = u
      BY Zenon, Types, Domains, <2>q, <2>u, <2>e DEF Popped
    <3>2. \A j \in KT \ {k} : pc[j] = "handOver" => owner'[mx[j]] = owner[mx[j]]
      BY Zenon, Types, Domains, <1>z, <2>e
    <3>3. \A j \in KT \ {k} : pc'[j] = pc[j]
      BY Zenon, Types, Domains, <2>e
    <3>4. pc'[k] = "handOver" /\ owner'[mx[k]] = u
      BY Zenon, Types, Domains, <2>e
    <3>5. ASSUME NEW w \in UT, NEW j \in KT, WillResume(j, w) PROVE WillResume(j, w)'
      BY Zenon, Types, Domains, <1>c, <3>2, <3>5, <2>e DEF WillResume
    <3>6. ASSUME NEW w \in UT, NEW j \in KT, WillQueue(j, w) PROVE WillQueue(j, w)'
      BY Zenon, Types, Domains, <1>c, <3>6, <2>e DEF WillQueue
    <3>7. WillResume(k, u)'
      BY Zenon, <3>4, <2>e DEF WillResume
    <3> QED
      BY Zenon, <3>1, <3>5, <3>6, <3>7, <2>e DEF Somewhere
  <2>8. NoWaiterOnFreeMutex'
    BY Zenon, Types, Domains, <1>c, <2>u, <2>e DEF NoWaiterOnFreeMutex
  <2>9. NoWaiterWithUnits'
    BY Zenon, Types, Domains, <2>e DEF NoWaiterWithUnits
  <2>10. Ready'
    BY Zenon, <2>e DEF Ready
  <2>11. TypeOK'
    BY Zenon, <1>o, <2>q, <2>e DEF TypeOK, Loc, Popped
  <2> QED
    BY Zenon, <2>1, <2>2, <2>3, <2>4, <2>5, <2>6, <2>7, <2>8, <2>9, <2>10, <2>11 DEF IInv
<1>2. CASE bq[mx[k]] = <<>> /\ ret[k] # "main"
  <2>e. /\ lock' = [lock EXCEPT ![mx[k]] = NULL] /\ owner' = [owner EXCEPT ![mx[k]] = NULL]
        /\ pc' = [pc EXCEPT ![k] = ret[k]] /\ ret' = [ret EXCEPT ![k] = "main"]
        /\ UNCHANGED <<ops, cvq, semq, counter, olcount, bq, state, cont, depth, rq, cur,
                       mx, res>>
    BY Zenon, <1>2 DEF ReleaseBody, Return, Unlock, condVars, olVars, Goto
  <2>f. /\ Alone(k) /\ pc'[k] = ret[k] /\ ret'[k] = "main" /\ cur'[k] = cur[k]
        /\ mx'[k] = mx[k] /\ res'[k] = res[k]
    BY Zenon, Types, Domains, <2>e DEF Alone
  <2>g. \A j \in KT : j # k /\ pc[j] = "handOver" => owner'[mx[j]] = owner[mx[j]]
    BY ZenonT(30), Types, Domains, <1>z, <2>e
  <2>1. Registers'
    BY SMTT(30), Domains, <1>2, <1>c, <2>e DEF Registers, Releasing, Locked
  <2>2. Ownership'
    BY Domains, Sections, <1>t, <1>x, <1>y, <2>e DEF Ownership, Holds
  <2>3. Counts'
    BY Zenon, Types, Domains, <1>c, <1>t, <2>e DEF Counts, OwnerCount
  <2>4. Current'
    BY ZenonT(30), CurrentKept, Types, <1>2, <1>c, <1>t, <2>e, <2>f
       DEF Switching, Behind, Resuming, Releasing, Current
  <2>5. Resumes'
    BY Zenon, ResumesKept, <1>c, <1>t, <2>e, <2>f, <2>g DEF Resuming, Releasing
  <2>6. Somewhere'
    BY Zenon, SomewhereKept, <1>c, <1>t, <2>e, <2>f, <2>g DEF WillResume, WillQueue
  <2>7. NoWaiterOnFreeMutex'
    BY <1>2, <1>c, <1>t, <2>e DEF NoWaiterOnFreeMutex, Registers, Locked
  <2>8. NoWaiterWithUnits'
    BY Zenon, Types, Domains, <1>t, <2>e DEF NoWaiterWithUnits
  <2>9. Waiting' /\ Ready'
    BY Zenon, QueuesKept, <2>e
  <2>10. TypeOK'
    BY Zenon, <2>e DEF TypeOK, Loc
  <2> QED
    BY Zenon, <2>1, <2>2, <2>3, <2>4, <2>5, <2>6, <2>7, <2>8, <2>9, <2>10 DEF IInv
<1>3. CASE bq[mx[k]] = <<>> /\ ret[k] = "main"
  <2>e. /\ lock' = [lock EXCEPT ![mx[k]] = NULL] /\ owner' = [owner EXCEPT ![mx[k]] = NULL]
        /\ cur' = [cur EXCEPT ![k] = NULL] /\ pc' = [pc EXCEPT ![k] = "main"]
        /\ ret' = [ret EXCEPT ![k] = "main"]
        /\ UNCHANGED <<ops, cvq, semq, counter, olcount, bq, state, cont, depth, rq, mx, res>>
    BY Zenon, <1>3 DEF ReleaseBody, Return, Unlock, condVars, olVars, Goto
  <2>f. /\ Alone(k) /\ cur'[k] = NULL /\ pc'[k] = "main" /\ ret'[k] = "main"
        /\ mx'[k] = mx[k] /\ res'[k] = res[k]
    BY Zenon, Types, Domains, <2>e DEF Alone
  <2>g. \A j \in KT : j # k /\ pc[j] = "handOver" => owner'[mx[j]] = owner[mx[j]]
    BY Zenon, Types, Domains, <1>z, <2>e
  <2>1. Registers'
    BY SMTT(30), Domains, <1>c, <2>e DEF Registers, Releasing, Locked
  <2>2. Ownership'
    BY Domains, Sections, <1>x, <1>y, <2>e DEF Ownership, Holds
  <2>3. Counts'
    BY Zenon, Types, Domains, <1>c, <2>e DEF Counts, OwnerCount
  <2>4. Current'
    BY Zenon, CurrentKept, <2>e, <2>f DEF Switching, Behind, Resuming, Releasing
  <2>5. Waiting'
    <3>1. \A j \in KT, w \in UT : cur[j] # w => cur'[j] # w
      BY Zenon, Types, Domains, <2>e
    <3> QED
      BY ZenonT(30), <2>e, <3>1 DEF Waiting
  <2>6. Resumes'
    BY Zenon, ResumesKept, Types, <2>e, <2>f, <2>g DEF Resuming, Releasing
  <2>7. Somewhere'
    BY ZenonT(30), SomewhereKept, <1>3, <1>c, <2>e, <2>f, <2>g DEF WillResume, WillQueue
  <2>8. NoWaiterOnFreeMutex'
    BY <1>3, <1>c, <2>e DEF NoWaiterOnFreeMutex, Registers, Locked
  <2>9. NoWaiterWithUnits'
    BY Zenon, Types, Domains, <2>e DEF NoWaiterWithUnits
  <2>10. Ready'
    BY Zenon, <2>e DEF Ready
  <2>11. TypeOK'
    BY Zenon, <2>e DEF TypeOK, Loc
  <2> QED
    BY Zenon, <2>1, <2>2, <2>3, <2>4, <2>5, <2>6, <2>7, <2>8, <2>9, <2>10, <2>11 DEF IInv
<1> QED
  BY Zenon, <1>1, <1>2, <1>3

\* The owner read after the unlock is the waiter taken out before: it is resumed,
\* and no other uThread can have become the owner in between.
LEMMA HandOverInv ==
  ASSUME IInv, NEW k \in KT, HandOver(k)
  PROVE  IInv'
<1> SUFFICES ASSUME TypeOK, Registers, Ownership, Counts, Current, Waiting, Resumes, Ready,
                    Somewhere, NoWaiterOnFreeMutex, NoWaiterWithUnits
             PROVE  IInv'
  BY Zenon DEF IInv
<1>c. cur[k] \in UT /\ pc[k] = "handOver"
  BY Zenon, Types DEF Registers, HandOver
<1>u. PICK u \in UT : u = owner[mx[k]]
  BY Zenon, <1>c DEF Resumes
<1>h. /\ state[u] = "WAITING" /\ cont[u] \in Inside(mx[k])
      /\ ~InQueue(u, bq[mx[k]]) /\ \A j \in KT : cur[j] # u
  BY ZenonT(30), <1>c, <1>u DEF Resumes
<1>n. (\A n \in Mutexes : ~InQueue(u, bq[n])) /\ ~InQueue(u, cvq) /\ ~InQueue(u, semq)
  BY Types, Sections, <1>h DEF Waiting
<1>t. ret[k] \in {"main", "olReturn", "idle", "signalled"}
  BY ZenonT(30), <1>c DEF Registers, Releasing
<1>d. /\ \A j \in KT : j # k /\ pc[j] = "handOver" => owner[mx[j]] # u /\ owner[mx[j]] \in UT
      /\ \A j \in KT : Resuming(j) => res[j] # u /\ res[j] \in UT
  BY Types, Sections, <1>c, <1>u, <1>h DEF Resumes
<1>r. /\ state' = [state EXCEPT ![u] = "READY"]
      /\ rq' = [rq EXCEPT ![home[u]] = Append(@, u)]
  BY Zenon, <1>u, <1>h DEF HandOver, Resume
<1>p. PICK q : q = Append(rq[home[u]], u) /\ Appended(rq[home[u]], u, q)
  BY Zenon, Types, QueueAppend DEF TypeOK
<1>q. Appended(rq[home[u]], u, q)
  BY Zenon, <1>p
<1>1. CASE ret[k] # "main"
  <2>e. /\ state' = [state EXCEPT ![u] = "READY"]
        /\ rq' = [rq EXCEPT ![home[u]] = q]
        /\ pc' = [pc EXCEPT ![k] = ret[k]] /\ ret' = [ret EXCEPT ![k] = "main"]
        /\ UNCHANGED <<ops, cvq, semq, counter, olcount, lock, owner, bq, cont, depth,
                       cur, mx, res>>
    BY Zenon, <1>1, <1>r, <1>p DEF HandOver, Return, mutexVars, condVars, olVars, Goto
  <2>f. /\ Alone(k) /\ pc'[k] = ret[k] /\ ret'[k] = "main" /\ cur'[k] = cur[k]
        /\ mx'[k] = mx[k] /\ res'[k] = res[k] /\ state'[u] = "READY"
        /\ (\A w \in UT : w # u => state'[w] = state[w])
    BY Zenon, Types, Domains, <2>e DEF Alone
  <2>1. Registers'
    BY ZenonT(30), RegistersKept, Types, <1>1, <1>c, <2>e, <2>f DEF Releasing, Locked, Registers
  <2>2. Ownership'
    BY Types, Sections, <1>u, <1>h, <1>t, <2>e DEF Ownership, Holds
  <2>3. Counts'
    BY Zenon, Types, Domains, <1>t, <2>e DEF Counts, OwnerCount
  <2>4. Current'
    BY SMTT(30), Domains, <1>1, <1>c, <1>h, <2>e
       DEF Current, Switching, Behind, Resuming, Releasing, Registers, Locked
  <2>5. Waiting'
    <3>1. \A j \in KT, w \in UT : cur[j] # w => cur'[j] # w
      BY Zenon, Types, Domains, <2>e
    <3>2. \A w \in UT : w # u => state'[w] = state[w]
      BY Zenon, Types, Domains, <2>e
    <3>3. UNCHANGED <<bq, cvq, semq, cont>>
      BY ZenonT(30), <2>e
    <3>4. \A m \in Mutexes, w \in UT : InQueue(w, bq[m]) =>
            state'[w] = "WAITING" /\ cont[w] \in Inside(m) /\ \A j \in KT : cur'[j] # w
      BY SMTT(30), <1>n, <3>1, <3>2 DEF Waiting
    <3>5. \A w \in UT : InQueue(w, cvq) => state'[w] = "WAITING" /\ cont[w] = "reacquire"
      BY Zenon, <1>n, <3>2 DEF Waiting
    <3>6. \A w \in UT : InQueue(w, semq) => state'[w] = "WAITING" /\ cont[w] = "idle"
      BY Zenon, <1>n, <3>2 DEF Waiting
    <3> QED
      BY <3>3, <3>4, <3>5, <3>6 DEF Waiting
  <2>6. Resumes'
    <3>1. \A j \in KT : j # k /\ pc[j] = "handOver" => cur[k] # owner[mx[j]]
      BY Zenon DEF Resumes
    <3>2. \A j \in KT : Resuming(j)' => Resuming(j)
      <4>1. Resuming(k)' => Resuming(k)
        BY <1>c, <2>f DEF Resuming, Releasing
      <4> QED
        BY Zenon, <4>1, <2>f DEF Alone, Resuming
    <3>3. pc'[k] # "handOver"
      BY Zenon, <1>t, <2>f
    <3>4. cur'[k] = cur[k] /\ cont' = cont /\ bq' = bq /\ owner' = owner
      BY ZenonT(30), <2>e, <2>f
    <3> QED
      BY Zenon, ResumesFrame, <1>d, <3>1, <3>2, <3>3, <3>4, <2>e, <2>f
  <2>7. Ready'
    <3>1. \A j \in KT : ~InQueue(u, rq[j])
      BY ZenonT(30), <1>h DEF Ready
    <3> QED
      BY Types, Domains, <1>q, <3>1, <2>e DEF Ready, Appended
  <2>8. Somewhere'
    BY Domains, <1>c, <1>u, <2>e DEF Somewhere, WillResume, WillQueue
  <2>9. NoWaiterOnFreeMutex'
    BY Zenon, Types, Domains, <1>t, <2>e DEF NoWaiterOnFreeMutex
  <2>10. NoWaiterWithUnits'
    BY Zenon, Types, Domains, <1>t, <2>e DEF NoWaiterWithUnits
  <2>11. TypeOK'
    BY Zenon, Types, <1>1, <1>c, <1>u, <1>h, <1>t, <1>q, <2>e DEF TypeOK, Loc, Appended
  <2> QED
    BY Zenon, <2>1, <2>2, <2>3, <2>4, <2>5, <2>6, <2>7, <2>8, <2>9, <2>10, <2>11 DEF IInv
<1>2. CASE ret[k] = "main"
  <2>e. /\ state' = [state EXCEPT ![u] = "READY"]
        /\ rq' = [rq EXCEPT ![home[u]] = q]
        /\ cur' = [cur EXCEPT ![k] = NULL] /\ pc' = [pc EXCEPT ![k] = "main"]
        /\ ret' = [ret EXCEPT ![k] = "main"]
        /\ UNCHANGED <<ops, cvq, semq, counter, olcount, lock, owner, bq, cont, depth, mx, res>>
    BY Zenon, <1>2, <1>r, <1>p DEF HandOver, Return, mutexVars, condVars, olVars, Goto
  <2>f. /\ Alone(k) /\ cur'[k] = NULL /\ pc'[k] = "main" /\ ret'[k] = "main"
        /\ mx'[k] = mx[k] /\ res'[k] = res[k] /\ state'[u] = "READY"
        /\ (\A w \in UT : w # u => state'[w] = state[w])
    BY Zenon, Types, Domains, <2>e DEF Alone
  <2>1. Registers'
    BY ZenonT(30), RegistersKept, <2>e, <2>f DEF Releasing, Locked
  <2>2. Ownership'
    BY Types, Sections, <1>c, <1>u, <1>h, <2>e DEF Ownership, Holds
  <2>3. Counts'
    BY Zenon, Types, Domains, <1>c, <2>e DEF Counts, OwnerCount
  <2>4. Current'
    BY ZenonT(30), CurrentKept, Types, <1>h, <2>e, <2>f DEF Switching, Behind, Resuming, Releasing
  <2>5. Waiting'
    <3>1. \A j \in KT, w \in UT : cur[j] # w => cur'[j] # w
      BY Zenon, Types, Domains, <2>e
    <3>2. \A w \in UT : w # u => state'[w] = state[w]
      BY Zenon, Types, Domains, <2>e
    <3>3. UNCHANGED <<bq, cvq, semq, cont>>
      BY Zenon, <2>e
    <3>4. \A m \in Mutexes, w \in UT : InQueue(w, bq[m]) =>
            state'[w] = "WAITING" /\ cont[w] \in Inside(m) /\ \A j \in KT : cur'[j] # w
      BY SMTT(30), <1>n, <3>1, <3>2 DEF Waiting
    <3>5. \A w \in UT : InQueue(w, cvq) => state'[w] = "WAITING" /\ cont[w] = "reacquire"
      BY Zenon, <1>n, <3>2 DEF Waiting
    <3>6. \A w \in UT : InQueue(w, semq) => state'[w] = "WAITING" /\ cont[w] = "idle"
      BY Zenon, <1>n, <3>2 DEF Waiting
    <3> QED
      BY <3>3, <3>4, <3>5, <3>6 DEF Waiting
  <2>6. Resumes'
    <3>1. \A j \in KT : Resuming(j)' => Resuming(j) /\ j # k
      BY Zenon, <2>f DEF Alone, Resuming
    <3> QED
      BY ZenonT(30), ResumesFrame, Types, <1>d, <3>1, <2>e, <2>f DEF Resuming
  <2>7. Ready'
    <3>1. \A j \in KT : ~InQueue(u, rq[j])
      BY Zenon, <1>h DEF Ready
    <3> QED
      BY ZenonT(30), Types, Domains, <1>q, <3>1, <2>e DEF Ready, Appended
  <2>8. Somewhere'
    BY Domains, <1>2, <1>c, <1>u, <2>e DEF Somewhere, WillResume, WillQueue
  <2>9. NoWaiterOnFreeMutex'
    BY Zenon, Types, Domains, <2>e DEF NoWaiterOnFreeMutex
  <2>10. NoWaiterWithUnits'
    BY Zenon, Types, Domains, <2>e DEF NoWaiterWithUnits
  <2>11. TypeOK'
    BY Zenon, Types, <1>2, <1>c, <1>u, <1>h, <1>t, <1>q, <2>e DEF TypeOK, Loc, Appended
  <2> QED
    BY Zenon, <2>1, <2>2, <2>3, <2>4, <2>5, <2>6, <2>7, <2>8, <2>9, <2>10, <2>11 DEF IInv
<1> QED
  BY Zenon, <1>1, <1>2
=============================================================================
