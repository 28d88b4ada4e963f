----------------------------- MODULE Scheduler01 -----------------------------
(***************************************************************************)
(* schedulers/Scheduler_01.h (SCHEDULERNO=1): the kThreads of a cluster     *)
(* share one ready queue under a mutex, take uThreads from it in batches    *)
(* into a private queue, and wait on condition variables of their own,      *)
(* listed last-in first-out in ktStack.                                     *)
(*                                                                          *)
(* Everything the mutex protects is only touched while it is held, so a     *)
(* critical section is one step; waiting on a condition variable ends one   *)
(* and begins another.  A failed try_lock is a step of its own.             *)
(***************************************************************************)
EXTENDS PollerGate, Naturals, Sequences, FiniteSets, SequencesExt

CONSTANTS KT,       \* kThreads of the cluster
          UT,       \* uThreads
          mainUT,   \* the mainUT of every kThread
          Anchor,   \* the anchor of ktStack
          NULL

ASSUME SetsAssumption == /\ IsFiniteSet(KT) /\ KT # {} /\ IsFiniteSet(UT) /\ mainUT \notin UT
                         /\ Anchor \notin KT /\ NULL \notin KT \cup UT \cup {Anchor, mainUT}

VARIABLES
  queue, size,  \* Scheduler::queue and size
  lastPopNum,   \* Scheduler::lastPopNum
  numkt,        \* Cluster::numberOfkThreads, behind the kThreads that run already
  ktStack,      \* Scheduler::ktStack, by its links; NULL when a null link was followed
  cv_flag,      \* KTVar::cv_flag
  notified,     \* kThreads whose wait on their cv has been notified
  lrq,          \* KTLocal::lrq
  pc,           \* where each kThread is
  currentUT,    \* kThread::currentUT
  how,          \* the state with which currentUT leaves: YIELD or WAITING
  nextUT,       \* what nonBlockingSwitch returned
  parked,       \* suspended uThreads that somebody may resume
  mistaken      \* history: a wake-up without a notify has been taken for a notify

queueVars == <<queue, size, lastPopNum, ktStack, cv_flag, notified, mistaken>>
vars == <<queueVars, gateVars, numkt, lrq, pc, currentUT, how, nextUT, parked>>

\* A program that followed a null link takes no more steps.
Alive == ktStack # NULL
At(k, loc) == Alive /\ pc[k] = loc
Goto(k, loc) == pc' = [pc EXCEPT ![k] = loc]
NumKT == Cardinality(KT)
Links == KT \cup {Anchor}

Init ==
  /\ queue = <<>> /\ size = 0 /\ lastPopNum = 0 /\ numkt = 1
  /\ LET links == [x \in Links |-> IF x = Anchor THEN Anchor ELSE NULL]
     IN  ktStack = [next |-> links, prev |-> links]
  /\ mistaken = FALSE /\ notified = {} /\ cv_flag = [k \in KT |-> FALSE]
  /\ lrq = [k \in KT |-> <<>>] /\ GateInit
  /\ \E k \in KT, u \in UT :      \* the main program runs as a uThread
       /\ pc = [x \in KT |-> IF x = k THEN "run" ELSE "main"]
       /\ currentUT = [x \in KT |-> IF x = k THEN u ELSE mainUT]
       /\ parked = UT \ {u}
  /\ how = [k \in KT |-> NULL] /\ nextUT = [k \in KT |-> NULL]

-----------------------------------------------------------------------------
(* ktStack, an IntrusiveList: link by link, since nothing but the flag keeps  *)
(* a kThread from being put on it twice.  A null link ends the program.       *)

Empty(s) == s.next[Anchor] = Anchor
Back(s) == s.prev[Anchor]

PushBack(s, k) ==
  LET p == Back(s) IN
  IF s.next[p] = NULL THEN NULL
  ELSE [s EXCEPT !.prev[s.next[p]] = k, !.next[k] = s.next[p], !.next[p] = k, !.prev[k] = p]

Unlink(s, k) ==
  IF NULL \in {s.prev[k], s.next[k]} THEN NULL
  ELSE [s EXCEPT !.next[s.prev[k]] = s.next[k], !.prev[s.next[k]] = s.prev[k],
                 !.prev[k] = NULL, !.next[k] = NULL]

-----------------------------------------------------------------------------
(* The queue; the caller holds the mutex. *)

\* __unBlock: the kThread at the back of the stack is told that it was notified.
\* stack and woken are ktStack and notified as the caller leaves them, asleep the
\* kThreads that wait; a notify of any other is lost.
UnBlock(stack, woken, asleep) ==
  IF stack = NULL \/ Empty(stack)
  THEN ktStack' = stack /\ notified' = woken /\ UNCHANGED cv_flag
  ELSE /\ ktStack' = Unlink(stack, Back(stack))
       /\ cv_flag' = [cv_flag EXCEPT ![Back(stack)] = TRUE]
       /\ notified' = woken \cup ({Back(stack)} \cap asleep)

Asleep == {k \in KT : pc[k] = "wait"}
Counted(batch) == size' = size + Len(batch)

\* __push of one uThread or of a batch: one kThread is woken.
Push(batch) ==
  /\ queue' = queue \o batch /\ Counted(batch)
  /\ UnBlock(ktStack, notified, Asleep) /\ UNCHANGED <<lastPopNum, mistaken>>

\* __removeMany: a fair share of the queue, at least what was taken last time,
\* at most everything.
PopNum ==
  LET share == IF size \div numkt > 0 THEN size \div numkt ELSE 1
      least == IF share < lastPopNum THEN lastPopNum ELSE share
  IN  IF least > size THEN size ELSE least

\* Variant for mutation: the last uThread taken is also left in the queue.
RemoveManyOverlap(k, n) ==
  /\ lrq' = [lrq EXCEPT ![k] = @ \o SubSeq(queue, 1, n)]
  /\ queue' = SubSeq(queue, n, Len(queue)) /\ size' = size - n + 1 /\ lastPopNum' = n

RemoveMany(k, n) ==
  /\ lrq' = [lrq EXCEPT ![k] = @ \o SubSeq(queue, 1, n)]
  /\ queue' = SubSeq(queue, n + 1, Len(queue))
  /\ size' = size - n /\ lastPopNum' = n

\* Variant for mutation: the kThread that takes a batch wakes no other one.
ChainNone(rest, stack, woken, asleep) == ktStack' = stack /\ notified' = woken /\ UNCHANGED cv_flag

\* A kThread that leaves work in the queue wakes the next one.
Chain(rest, stack, woken, asleep) ==
  IF rest > 0 THEN UnBlock(stack, woken, asleep)
              ELSE ktStack' = stack /\ notified' = woken /\ UNCHANGED cv_flag

\* __popMany, first part: take a batch, or go on the stack and wait.
PopMany(k) ==
  /\ At(k, "pop")
  /\ IF size = 0
     THEN /\ ktStack' = PushBack(ktStack, k)
          /\ cv_flag' = [cv_flag EXCEPT ![k] = FALSE]
          /\ Goto(k, "wait") /\ UNCHANGED <<queue, size, lastPopNum, notified, lrq>>
     ELSE /\ RemoveMany(k, PopNum) /\ Chain(size', ktStack, notified, Asleep)
          /\ Goto(k, "took")
  /\ UNCHANGED <<gateVars, numkt, currentUT, how, nextUT, parked, mistaken>>

\* Variant for mutation: a kThread that finds the queue empty again does not go
\* back on the stack.
WaitAgainOffStack(k) == UNCHANGED ktStack

\* The queue is empty again: a kThread that was notified is off the stack and
\* puts itself back; its cv_flag stays set.
WaitAgain(k) == ktStack' = IF cv_flag[k] THEN PushBack(ktStack, k) ELSE ktStack

\* __popMany after its wait, which may end without a notify.  A kThread whose flag
\* is clear is still on the stack and removes itself.
Wake(k) ==
  /\ At(k, "wait") /\ mistaken' = (mistaken \/ (k \notin notified /\ cv_flag[k]))
  /\ IF size = 0
     THEN /\ WaitAgain(k) /\ notified' = notified \ {k}
          /\ UNCHANGED <<queue, size, lastPopNum, cv_flag, lrq, pc>>
     ELSE /\ RemoveMany(k, PopNum)
          /\ Chain(size', IF cv_flag[k] THEN ktStack ELSE Unlink(ktStack, k),
                   notified \ {k}, Asleep \ {k})
          /\ Goto(k, "took")
  /\ UNCHANGED <<gateVars, numkt, currentUT, how, nextUT, parked>>

-----------------------------------------------------------------------------
(* The switch functions of a kThread. *)

\* blockingSwitch, called by mainUT: the poller is told that k may block.
BlockingSwitch(k) ==
  /\ At(k, "main") /\ MayBlock /\ Goto(k, "pop")
  /\ UNCHANGED <<queueVars, numkt, lrq, currentUT, how, nextUT, parked>>

\* blockingSwitch after __popMany: the first uThread of the batch runs.
BlockingSwitchReturn(k) ==
  /\ At(k, "took") /\ Unblocked
  /\ currentUT' = [currentUT EXCEPT ![k] = Head(lrq[k])]
  /\ lrq' = [lrq EXCEPT ![k] = Tail(@)] /\ Goto(k, "run")
  /\ UNCHANGED <<queueVars, numkt, how, nextUT, parked>>

\* What nonBlockingSwitch returns is set as nextUT.
SwitchTo(k, u, h) ==
  /\ nextUT' = [nextUT EXCEPT ![k] = u] /\ how' = [how EXCEPT ![k] = h] /\ Goto(k, "post")

\* nonBlockingSwitch with a non-empty private queue.
SwitchLocal(k, h) ==
  /\ At(k, "run") /\ lrq[k] # <<>>
  /\ SwitchTo(k, Head(lrq[k]), h) /\ lrq' = [lrq EXCEPT ![k] = Tail(@)]
  /\ UNCHANGED <<queueVars, gateVars, numkt, currentUT, parked>>

\* __tryPopMany takes a batch; it wakes nobody.
SwitchRefill(k, h) ==
  /\ At(k, "run") /\ lrq[k] = <<>> /\ size > 0
  /\ SwitchTo(k, Head(queue), h)
  /\ LET n == PopNum IN
       /\ lrq' = [lrq EXCEPT ![k] = SubSeq(queue, 2, n)]
       /\ queue' = SubSeq(queue, n + 1, Len(queue)) /\ size' = size - n /\ lastPopNum' = n
  /\ UNCHANGED <<ktStack, cv_flag, notified, mistaken, gateVars, numkt, currentUT, parked>>

\* __tryPopMany has nothing, because the queue is empty or because somebody else,
\* a kThread or the poller, has the mutex.  (When it sees an empty queue, a
\* uThread that yields goes on running: no step.)
SwitchMain(k, h) ==
  /\ At(k, "run") /\ lrq[k] = <<>>
  /\ SwitchTo(k, mainUT, h)
  /\ UNCHANGED <<queueVars, gateVars, numkt, lrq, currentUT, parked>>

\* uThread::yield and suspend.
Leave(k) == \E h \in {"YIELD", "WAITING"} : SwitchLocal(k, h) \/ SwitchRefill(k, h) \/ SwitchMain(k, h)

\* kThread::postSwitchFunc: a uThread that yielded is scheduled, one that
\* suspended may be resumed from now on.
PostSwitch(k) ==
  LET u == currentUT[k] IN
  /\ At(k, "post")
  /\ IF how[k] = "YIELD" THEN Push(<<u>>) /\ UNCHANGED parked
                         ELSE parked' = parked \cup {u} /\ UNCHANGED queueVars
  /\ currentUT' = [currentUT EXCEPT ![k] = nextUT[k]]
  /\ nextUT' = [nextUT EXCEPT ![k] = NULL] /\ how' = [how EXCEPT ![k] = NULL]
  /\ Goto(k, IF nextUT[k] = mainUT THEN "main" ELSE "run")
  /\ UNCHANGED <<lrq, gateVars, numkt>>

\* uThread::resume by the uThread running on k: schedule(ut).
Resume(k) ==
  /\ At(k, "run")
  /\ \E u \in parked : Push(<<u>>) /\ parked' = parked \ {u}
  /\ UNCHANGED <<lrq, gateVars, numkt, pc, currentUT, how, nextUT>>

-----------------------------------------------------------------------------
(* The poller thread: IOHandler::pollerFunc and bulkPush. *)

Poller == /\ Alive /\ (GateTimedwait \/ GateRepost)
          /\ UNCHANGED <<queueVars, numkt, lrq, pc, currentUT, how, nextUT, parked>>

\* A poll unblocks some uThreads, which bulkPush schedules in one call.
PollerPoll ==
  /\ Alive /\ Polled
  /\ \E s \in SUBSET parked :
       IF s = {} THEN UNCHANGED <<queueVars, parked>>
       ELSE (\E batch \in SetToSeqs(s) : Push(batch)) /\ parked' = parked \ s
  /\ UNCHANGED <<numkt, lrq, pc, currentUT, how, nextUT>>

\* The constructor of a kThread whose kernel thread runs already: addNewkThread.
AddNewkThread ==
  /\ Alive /\ numkt < NumKT /\ numkt' = numkt + 1
  /\ UNCHANGED <<queueVars, gateVars, lrq, pc, currentUT, how, nextUT, parked>>

-----------------------------------------------------------------------------
Own(k) == PopMany(k) \/ Wake(k) \/ BlockingSwitch(k) \/ BlockingSwitchReturn(k) \/ PostSwitch(k)

Next == \/ \E k \in KT : Own(k) \/ Leave(k) \/ Resume(k)
        \/ Poller \/ PollerPoll \/ AddNewkThread
        \/ ~Alive /\ UNCHANGED vars

Spec == Init /\ [][Next]_vars

\* A kThread that can run does; a uThread gives up its kThread at some point; a
\* kThread that spins for its token gets it, since the poller holds one only
\* between two adjacent statements.
FairSpec ==
  /\ Spec /\ WF_vars(GateRepost /\ Poller)
  /\ \A k \in KT : /\ WF_vars(Leave(k) \/ (Own(k) /\ (pc[k] = "wait" => k \in notified)))
                   /\ SF_vars(BlockingSwitchReturn(k))

-----------------------------------------------------------------------------
(* Properties *)

\* Every variable keeps its type; the gate never has more tokens than kThreads.
TypeOK ==
  /\ queue \in Seq(UT) /\ size \in 0..Cardinality(UT) /\ lastPopNum \in 0..Cardinality(UT) /\ numkt \in 1..NumKT
  /\ ktStack \in [next : [Links -> Links \cup {NULL}], prev : [Links -> Links \cup {NULL}]] \cup {NULL}
  /\ notified \subseteq KT /\ mistaken \in BOOLEAN /\ cv_flag \in [KT -> BOOLEAN]
  /\ lrq \in [KT -> Seq(UT)] /\ parked \subseteq UT
  /\ currentUT \in [KT -> UT \cup {mainUT}] /\ nextUT \in [KT -> UT \cup {mainUT, NULL}]
  /\ pc \in [KT -> {"main", "pop", "wait", "took", "run", "post"}]
  /\ iosem \in 0..NumKT /\ poller \in {"gate", "repost", "poll"}

\* The token count of the poller's gate is exact: one for each kThread inside
\* blockingSwitch, minus the one the poller may hold.
GateExact ==
  Tokens(Cardinality({k \in KT : pc[k] \in {"pop", "wait", "took"}}))

\* size is the length of the queue: popMany decides from size alone whether to
\* wait, and removes size-many uThreads from the queue.
SizeExact == size = Len(queue)

\* Each uThread is in one place: running, in the shared queue, in one private
\* queue, about to run, or suspended.
OnePlace ==
  \A u \in UT :
    Cardinality({i \in DOMAIN queue : queue[i] = u}) + (IF u \in parked THEN 1 ELSE 0)
      + Cardinality({x \in KT \X (1..Cardinality(UT)) :
                       x[2] \in DOMAIN lrq[x[1]] /\ lrq[x[1]][x[2]] = u})
      + Cardinality({k \in KT : currentUT[k] = u}) + Cardinality({k \in KT : nextUT[k] = u}) = 1

\* Whatever happens to the stack, the gate's tokens and size are exact and no uThread
\* is lost or doubled.
Consistent == TypeOK /\ GateExact /\ SizeExact /\ OnePlace

\* The links of ktStack, read in either direction, list the kThreads of s.
Lists(s) ==
  LET c == <<Anchor>> \o s \o <<Anchor>> IN
  /\ \A i \in 1..Len(s) + 1 : ktStack.next[c[i]] = c[i + 1] /\ ktStack.prev[c[i + 1]] = c[i]
  /\ \A k \in KT \ Range(s) : ktStack.next[k] = NULL /\ ktStack.prev[k] = NULL

\* ktStack lists exactly the kThreads that wait and have not been notified, each once.
StackExact ==
  Alive /\ \E s \in SetToSeqs(Asleep \ notified) : Lists(s)

\* The stack stays exact: a kThread that was notified in vain puts itself back ("If
\* so the kThread has been removed from the stack, thus put it back"), and one that
\* woke up without a notify removes itself.  What breaks it is one thing only, both
\* in turn: cv_flag stays set after a vain notify, so that a later wake-up without
\* one is taken for a notify.
StackKept == StackExact \/ mistaken

\* Until then, while work is queued no kThread sleeps on the stack unless a notified
\* one is on its way and will pass the wake-up on: push and pop wake one at a time.
NoLostWakeup == size > 0 /\ Alive /\ ~Empty(ktStack) => notified # {} \/ mistaken

\* A uThread in the shared queue runs at some point, unless the stack breaks.  Stated
\* of one, as the uThreads are interchangeable.
QueuedRuns ==
  LET u == CHOOSE u \in UT : TRUE
  IN  (u \in Range(queue)) ~> ((\E k \in KT : currentUT[k] = u) \/ mistaken)
=============================================================================
