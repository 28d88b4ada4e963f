----------------------------- MODULE Scheduler02 ----------------------------
(***************************************************************************)
(* The default scheduler (SCHEDULERNO 2) of one kThread: the intrusive     *)
(* lock-free BlockingMPSCQueue, the POSIX semaphore the kThread sleeps on, *)
(* and the switch code that pops it.  One action is one access to shared   *)
(* memory, with the thread-private statements around it.                   *)
(*                                                                         *)
(* The threads are kt, the kThread that owns the queue; Peers, the other   *)
(* kThreads, which resume uThreads whose home is kt; and poller, the       *)
(* IOHandler's thread, which resumes them in bulk and shares the           *)
(* IOHandler's semaphore with kt.                                          *)
(***************************************************************************)
EXTENDS Naturals, Sequences

CONSTANTS
  UT,            \* uThreads whose homekThread is kt
  Peers,         \* other kThreads
  kt,            \* the kThread that owns this scheduler
  poller,        \* the poller thread, IOHandler::ioKT
  mainUT,        \* kt's mainUT, which runs defaultRun
  stub,          \* BlockingMPSCQueue::stub
  NULL,          \* nullptr
  SEM_VALUE_MAX, \* sem_post fails at this value
  MaxBulk        \* bound: uThreads of kt that one poll unblocks

ASSUME DistinctConstants ==
  /\ kt # poller /\ kt \notin Peers /\ poller \notin Peers
  /\ stub \notin UT /\ mainUT \notin UT /\ NULL \notin UT
  /\ stub # mainUT /\ stub # NULL /\ mainUT # NULL

ASSUME SemValueMaxPositive == SEM_VALUE_MAX \in Nat \ {0}

ASSUME MaxBulkNat == MaxBulk \in Nat

Thread == Peers \cup {kt, poller}
Node == UT \cup {stub}

\* uThread::State
State == {"INITIALIZED", "READY", "RUNNING", "YIELD", "WAITING", "TERMINATED"}

\* Where each thread is.  "exchange" and "link" are inside
\* BlockingMPSCQueue::insert, "post" is sem.post() in schedule().
KtLoc == {"run", "main", "wait", "pop", "cas", "spinStub", "spinHead",
          "trywait", "postSwitch", "exchange", "link", "post"}
PeerLoc == {"idle", "exchange", "link", "post"}
PollerLoc == {"gate", "repost", "poll", "exchange", "link", "post"}

VARIABLES
  pc,         \* where each thread is
  next,       \* Link::next of every node
  head,       \* BlockingMPSCQueue::head, private to kt
  tail,       \* BlockingMPSCQueue::tail: a node and its tag bit
  chain,      \* the nodes a thread is inserting, first .. last
  prev,       \* insert(): what tail.exchange returned, without the tag
  wasEmpty,   \* insert(): was_empty
  sem,        \* Scheduler::sem
  iosem,      \* IOHandler::sem
  state,      \* uThread::state
  currentUT,  \* kThread::currentUT
  ut,         \* what pop() returned to the switch function
  parked,     \* uThreads some synchronisation object may resume
  list        \* auxiliary: head .. tail as the exchanges ordered them

vars == <<pc, next, head, tail, chain, prev, wasEmpty, sem, iosem, state,
          currentUT, ut, parked, list>>

queueVars == <<next, head, tail, list>>
insertVars == <<chain, prev, wasEmpty>>
utVars == <<state, currentUT, ut, parked>>

Init ==
  /\ pc = [t \in Thread |-> IF t = kt THEN "main"
                            ELSE IF t = poller THEN "gate" ELSE "idle"]
  /\ next = [n \in Node |-> NULL]
  /\ head = stub
  /\ tail = [node |-> stub, empty |-> TRUE]
  /\ chain = [t \in Thread |-> <<stub>>]
  /\ prev = [t \in Thread |-> stub]
  /\ wasEmpty = [t \in Thread |-> FALSE]
  /\ sem = 0
  /\ iosem = 0
  /\ state = [u \in UT \cup {mainUT} |->
                IF u = mainUT THEN "RUNNING" ELSE "INITIALIZED"]
  /\ currentUT = mainUT
  /\ ut = NULL
  /\ parked = UT
  /\ list = <<stub>>

Goto(t, loc) == pc' = [pc EXCEPT ![t] = loc]

-----------------------------------------------------------------------------
(* BlockingMPSCQueue::insert, by any thread.                               *)

\* The links of a chain, with last.next = nullptr.
ChainLinks(c) ==
  [n \in Node |->
     IF \E i \in 1 .. Len(c) : c[i] = n
     THEN LET i == CHOOSE i \in 1 .. Len(c) : c[i] = n
          IN  IF i = Len(c) THEN NULL ELSE c[i + 1]
     ELSE next[n]]

\* push(first, last) starts: the nodes are still private to t.
InsertBegin(t, c) ==
  /\ chain' = [chain EXCEPT ![t] = c]
  /\ next' = ChainLinks(c)
  /\ Goto(t, "exchange")

\* prev = tail.exchange(&last): the nodes are in the queue from here on,
\* although prev does not point to them yet.
InsertExchange(t) ==
  /\ pc[t] = "exchange"
  /\ prev' = [prev EXCEPT ![t] = tail.node]
  /\ wasEmpty' = [wasEmpty EXCEPT ![t] = tail.empty]
  /\ tail' = [node |-> chain[t][Len(chain[t])], empty |-> FALSE]
  /\ list' = list \o chain[t]
  /\ Goto(t, "link")
  /\ UNCHANGED <<next, head, chain, sem, iosem, utVars>>

\* Where a thread goes on when its schedule() returns.
Returned(t) == IF t = kt THEN "run" ELSE IF t = poller THEN "gate" ELSE "idle"

\* Variant for mutation: schedule() ignores the result of push.
InsertLinkNoPost(t) ==
  /\ pc[t] = "link"
  /\ next' = [next EXCEPT ![prev[t]] = chain[t][1]]
  /\ Goto(t, IF t = kt /\ chain[t] = <<stub>> THEN "spinHead" ELSE Returned(t))
  /\ UNCHANGED <<head, tail, list, insertVars, sem, iosem, utVars>>

\* prev->next = &first.  pop() ignores the result for the stub; schedule()
\* posts when the queue was marked empty.
InsertLink(t) ==
  /\ pc[t] = "link"
  /\ next' = [next EXCEPT ![prev[t]] = chain[t][1]]
  /\ Goto(t, IF t = kt /\ chain[t] = <<stub>> THEN "spinHead"
             ELSE IF wasEmpty[t] THEN "post" ELSE Returned(t))
  /\ UNCHANGED <<head, tail, list, insertVars, sem, iosem, utVars>>

\* while(sem_post(&sem_) != 0): fails, and is retried, at SEM_VALUE_MAX.
SchedulePost(t) ==
  /\ pc[t] = "post"
  /\ sem < SEM_VALUE_MAX
  /\ sem' = sem + 1
  /\ Goto(t, Returned(t))
  /\ UNCHANGED <<queueVars, insertVars, iosem, utVars>>

-----------------------------------------------------------------------------
(* Callers of schedule().                                                  *)

\* uThread::resume of a parked uThread, by a peer or by kt's own running
\* uThread.  Whoever resumes it took it out of its synchronisation object.
Resume(t, u) ==
  /\ pc[t] = IF t = kt THEN "run" ELSE "idle"
  /\ u \in parked
  /\ state[u] \in {"WAITING", "INITIALIZED", "YIELD"}
  /\ parked' = parked \ {u}
  /\ state' = [state EXCEPT ![u] = "READY"]
  /\ InsertBegin(t, <<u>>)
  /\ UNCHANGED <<head, tail, list, prev, wasEmpty, sem, iosem, currentUT, ut>>

\* pollerFunc: the semaphore is taken and given back around no work at all,
\* or the timed wait runs out.
PollerTimedwait ==
  /\ pc[poller] = "gate"
  /\ \/ /\ iosem > 0
        /\ iosem' = iosem - 1
        /\ Goto(poller, "repost")
     \/ /\ iosem' = iosem
        /\ Goto(poller, "poll")
  /\ UNCHANGED <<queueVars, insertVars, sem, utVars>>

PollerRepost ==
  /\ pc[poller] = "repost"
  /\ iosem' = iosem + 1
  /\ Goto(poller, "poll")
  /\ UNCHANGED <<queueVars, insertVars, sem, utVars>>

\* IOHandler::poll: the uThreads the events unblock are put in kt's
\* bulkQueue (their state stays WAITING) and scheduled as one chain.
PollerBulkPush(c) ==
  /\ pc[poller] = "poll"
  /\ \A i \in 1 .. Len(c) : c[i] \in parked /\ state[c[i]] = "WAITING"
  /\ parked' = parked \ {c[i] : i \in 1 .. Len(c)}
  /\ InsertBegin(poller, c)
  /\ UNCHANGED <<head, tail, list, prev, wasEmpty, sem, iosem,
                 state, currentUT, ut>>

\* The events unblock no uThread of kt.
PollerNothing ==
  /\ pc[poller] = "poll"
  /\ Goto(poller, "gate")
  /\ UNCHANGED <<queueVars, insertVars, sem, iosem, utVars>>

-----------------------------------------------------------------------------
(* BlockingMPSCQueue::pop.  nonBlockingSwitch and blockingSwitch differ in *)
(* what they do with the result; kt is in blockingSwitch when currentUT is *)
(* mainUT.                                                                 *)

\* pop() returned nullptr: blockingSwitch waits again; nonBlockingSwitch
\* goes on with a uThread that yielded and otherwise switches to mainUT.
PopNull ==
  /\ ut' = NULL
  /\ Goto(kt, IF currentUT = mainUT THEN "wait"
              ELSE IF state[currentUT] = "YIELD" THEN "run" ELSE "postSwitch")

\* if(head == &stub){ ttail = tail; ...
PopStart ==
  /\ pc[kt] = "pop"
  /\ \/ /\ head # stub
        /\ Goto(kt, "spinHead")
        /\ UNCHANGED ut
     \/ /\ head = stub /\ tail.empty
        /\ PopNull
     \/ /\ head = stub /\ ~tail.empty
        /\ Goto(kt, "cas")
        /\ UNCHANGED ut
  /\ UNCHANGED <<queueVars, insertVars, sem, iosem, state, currentUT, parked>>

\* Variant for mutation: the mark is a plain store.
PopMarkEmptyStore ==
  /\ pc[kt] = "cas"
  /\ tail' = [node |-> stub, empty |-> TRUE]
  /\ PopNull
  /\ UNCHANGED <<next, head, list, insertVars, sem, iosem,
                 state, currentUT, parked>>

\* tail.compare_exchange_strong(stub, stub|1)
PopMarkEmpty ==
  /\ pc[kt] = "cas"
  /\ IF tail = [node |-> stub, empty |-> FALSE]
     THEN tail' = [node |-> stub, empty |-> TRUE] /\ PopNull
     ELSE Goto(kt, "spinStub") /\ UNCHANGED <<tail, ut>>
  /\ UNCHANGED <<next, head, list, insertVars, sem, iosem,
                 state, currentUT, parked>>

\* Variant for mutation: the stub is not inserted again.
PopRemoveStubOnly ==
  /\ pc[kt] = "spinStub"
  /\ next[stub] # NULL
  /\ head' = next[stub]
  /\ list' = Tail(list)
  /\ Goto(kt, "spinHead")
  /\ UNCHANGED <<next, tail, insertVars, sem, iosem, utVars>>

\* Variant for mutation: pop() answers nullptr instead of waiting for the
\* thread that is between its exchange and its link.
PopRemoveStubGiveUp ==
  /\ pc[kt] = "spinStub"
  /\ \/ /\ next[stub] = NULL
        /\ PopNull
        /\ UNCHANGED <<queueVars, chain, state, currentUT, parked>>
     \/ /\ next[stub] # NULL
        /\ head' = next[stub]
        /\ list' = Tail(list)
        /\ InsertBegin(kt, <<stub>>)
        /\ UNCHANGED <<tail, utVars>>
  /\ UNCHANGED <<prev, wasEmpty, sem, iosem>>

\* while(stub.next == nullptr); head = stub.next; insert(stub, stub)
PopRemoveStub ==
  /\ pc[kt] = "spinStub"
  /\ next[stub] # NULL
  /\ head' = next[stub]
  /\ list' = Tail(list)
  /\ InsertBegin(kt, <<stub>>)
  /\ UNCHANGED <<tail, prev, wasEmpty, sem, iosem, utVars>>

\* while(head->next == nullptr); l = head; head = head->next; ...
PopTake ==
  /\ pc[kt] = "spinHead"
  /\ next[head] # NULL
  /\ ut' = head
  /\ head' = next[head]
  /\ next' = [next EXCEPT ![head] = NULL]
  /\ list' = Tail(list)
  /\ Goto(kt, IF currentUT = mainUT THEN "trywait" ELSE "postSwitch")
  /\ UNCHANGED <<tail, insertVars, sem, iosem, state, currentUT, parked>>

-----------------------------------------------------------------------------
(* The kThread around pop.                                                 *)

\* defaultRun calls blockingSwitch, which tells the poller first.
BlockingSwitch ==
  /\ pc[kt] = "main"
  /\ iosem' = iosem + 1
  /\ Goto(kt, "wait")
  /\ UNCHANGED <<queueVars, insertVars, sem, utVars>>

SemWait ==
  /\ pc[kt] = "wait"
  /\ sem > 0
  /\ sem' = sem - 1
  /\ Goto(kt, "pop")
  /\ UNCHANGED <<queueVars, insertVars, iosem, utVars>>

\* while(!iohandler.sem.trywait()), then switchContext away from mainUT,
\* which postSwitchFunc leaves alone.
BlockingSwitchReturn ==
  /\ pc[kt] = "trywait"
  /\ iosem > 0
  /\ iosem' = iosem - 1
  /\ currentUT' = ut
  /\ state' = [state EXCEPT ![ut] = "RUNNING"]
  /\ Goto(kt, "run")
  /\ UNCHANGED <<queueVars, insertVars, sem, ut, parked>>

\* The running uThread calls yield, suspend or terminate, and switchContext
\* calls nonBlockingSwitch.
NonBlockingSwitch(s) ==
  /\ pc[kt] = "run"
  /\ state' = [state EXCEPT ![currentUT] = s]
  /\ Goto(kt, "pop")
  /\ UNCHANGED <<queueVars, insertVars, sem, iosem, currentUT, ut, parked>>

Yield == NonBlockingSwitch("YIELD")
Suspend == NonBlockingSwitch("WAITING")
Terminate == NonBlockingSwitch("TERMINATED")

\* Variant for mutation: case YIELD without its break falls through to
\* postSuspendFunc.
PostSwitchFallThrough ==
  LET nextuThread == IF ut = NULL THEN mainUT ELSE ut
      old == currentUT
  IN
  /\ pc[kt] = "postSwitch"
  /\ currentUT' = nextuThread
  /\ state' = [state EXCEPT
                 ![old] = IF @ = "YIELD" THEN "READY"
                          ELSE IF @ = "TERMINATED" THEN "INITIALIZED" ELSE @,
                 ![nextuThread] = "RUNNING"]
  /\ parked' = parked \cup {old}
  /\ \/ state[old] = "YIELD" /\ InsertBegin(kt, <<old>>)
     \/ /\ state[old] # "YIELD"
        /\ Goto(kt, IF nextuThread = mainUT THEN "main" ELSE "run")
        /\ UNCHANGED <<next, chain>>
  /\ UNCHANGED <<head, tail, list, prev, wasEmpty, sem, iosem, ut>>

\* postSwitchFunc, on the stack of the next uThread: a uThread that yielded
\* is resumed onto kt's own queue, one that waits is handed to its
\* synchronisation object, one that terminated is reset and may be created
\* again.
PostSwitch ==
  LET nextuThread == IF ut = NULL THEN mainUT ELSE ut
      old == currentUT
  IN
  /\ pc[kt] = "postSwitch"
  /\ currentUT' = nextuThread
  /\ \/ /\ state[old] = "YIELD"
        /\ state' = [state EXCEPT ![old] = "READY", ![nextuThread] = "RUNNING"]
        /\ InsertBegin(kt, <<old>>)
        /\ UNCHANGED parked
     \/ /\ state[old] # "YIELD"
        /\ state' = [state EXCEPT
                       ![old] = IF @ = "TERMINATED" THEN "INITIALIZED" ELSE @,
                       ![nextuThread] = "RUNNING"]
        /\ parked' = parked \cup {old}
        /\ Goto(kt, IF nextuThread = mainUT THEN "main" ELSE "run")
        /\ UNCHANGED <<next, chain>>
  /\ UNCHANGED <<head, tail, list, prev, wasEmpty, sem, iosem, ut>>

-----------------------------------------------------------------------------

\* The bulkQueues the poller may have collected.
BulkQueues ==
  {c \in UNION {[1 .. n -> UT] : n \in 1 .. MaxBulk} :
     \A i, j \in DOMAIN c : c[i] = c[j] => i = j}

KtPop == PopStart \/ PopMarkEmpty \/ PopRemoveStub \/ PopTake

KtStep ==
  \/ KtPop \/ BlockingSwitch \/ SemWait \/ BlockingSwitchReturn
  \/ Yield \/ Suspend \/ Terminate \/ PostSwitch

Insert(t) == InsertExchange(t) \/ InsertLink(t) \/ SchedulePost(t)

Next ==
  \/ \E t \in Thread : Insert(t)
  \/ \E t \in Peers \cup {kt}, u \in UT : Resume(t, u)
  \/ PollerTimedwait \/ PollerRepost \/ PollerNothing
  \/ \E c \in BulkQueues : PollerBulkPush(c)
  \/ KtStep

Spec == Init /\ [][Next]_vars

\* A kernel thread that can take a step of insert, pop or the switch code
\* takes it.  A uThread that runs gives up the processor at some point: the
\* library is cooperative.  kt's trywait spin is strongly fair because the
\* poller holds IOHandler::sem only between two adjacent statements.
Fairness ==
  /\ \A t \in Thread : WF_vars(Insert(t))
  /\ WF_vars(KtPop)
  /\ WF_vars(BlockingSwitch)
  /\ WF_vars(SemWait)
  /\ SF_vars(BlockingSwitchReturn)
  /\ WF_vars(Yield \/ Suspend \/ Terminate)
  /\ WF_vars(PostSwitch)
  /\ WF_vars(PollerRepost)

FairSpec == Spec /\ Fairness

-----------------------------------------------------------------------------
(* Properties.                                                             *)

TypeOK ==
  /\ pc \in [Thread -> KtLoc \cup PeerLoc \cup PollerLoc]
  /\ pc[kt] \in KtLoc /\ pc[poller] \in PollerLoc
  /\ \A p \in Peers : pc[p] \in PeerLoc
  /\ next \in [Node -> Node \cup {NULL}]
  /\ head \in Node
  /\ tail \in [node : Node, empty : BOOLEAN]
  /\ chain \in [Thread -> Seq(Node)]
  /\ \A t \in Thread : chain[t] # <<>>
  /\ prev \in [Thread -> Node]
  /\ wasEmpty \in [Thread -> BOOLEAN]
  /\ sem \in 0 .. SEM_VALUE_MAX
  /\ iosem \in Nat
  /\ state \in [UT \cup {mainUT} -> State]
  /\ currentUT \in UT \cup {mainUT}
  /\ ut \in UT \cup {NULL}
  /\ parked \in SUBSET UT
  /\ list \in Seq(Node)

InQueue == {list[i] : i \in 1 .. Len(list)}

\* The uThreads in the queue, oldest first: list without the stub.
Queued ==
  IF stub \in InQueue
  THEN LET k == CHOOSE i \in 1 .. Len(list) : list[i] = stub
       IN  [i \in 1 .. Len(list) - 1 |-> IF i < k THEN list[i] ELSE list[i + 1]]
  ELSE list

\* A thread that saw the empty mark and has not posted the semaphore yet.
OwesPost(t) == pc[t] \in {"link", "post"} /\ wasEmpty[t]

\* No lost wakeup: while kt sleeps in sem.wait() (blockingSwitch) with a
\* uThread in its queue, the semaphore holds a token or the thread that
\* inserted into the empty queue is still on its way to sem.post().
NoLostWakeup ==
  pc[kt] = "wait" /\ Queued # <<>> =>
    sem > 0 \/ \E t \in Thread \ {kt} : OwesPost(t)

\* A node is the successor of list[i] in memory, or the thread that put it
\* there is between tail.exchange and prev->next = &first.
Linked(i) ==
  \/ next[list[i]] = list[i + 1]
  \/ /\ next[list[i]] = NULL
     /\ \E t \in Thread :
          pc[t] = "link" /\ prev[t] = list[i] /\ chain[t][1] = list[i + 1]

\* The memory of the queue: head leads to tail through the nodes in the
\* order of their exchanges, with gaps only where an insert is unfinished;
\* no node is in the queue twice, and the last one ends it.
WellLinked ==
  /\ list # <<>>
  /\ head = list[1]
  /\ tail.node = list[Len(list)]
  /\ \A i \in 1 .. Len(list) - 1 : Linked(i)
  /\ next[list[Len(list)]] = NULL
  /\ \A i, j \in 1 .. Len(list) : list[i] = list[j] => i = j

\* The nodes a thread is about to insert.
Inserting(t) ==
  IF pc[t] = "exchange" THEN {chain[t][i] : i \in 1 .. Len(chain[t])} ELSE {}

\* What kt took from the queue and has not switched to yet.
Taken == IF pc[kt] \in {"trywait", "postSwitch"} /\ ut # NULL THEN {ut} ELSE {}

\* A uThread is in exactly one place: with a synchronisation object, in the
\* hands of one inserting thread, in the queue, taken, or current.  So none
\* is lost, scheduled twice, or in the queue while it runs; and the stub is
\* in the queue unless kt is re-inserting it.
ExactlyOnePlace ==
  \A n \in Node :
    /\ \/ n \in parked \cup InQueue \cup Taken \cup {currentUT}
       \/ \E t \in Thread : n \in Inserting(t)
    /\ n \in parked => n \notin InQueue \cup Taken \cup {currentUT}
    /\ n \in InQueue => n \notin Taken \cup {currentUT}
    /\ n \in Taken => n # currentUT
    /\ \A t \in Thread : n \in Inserting(t) =>
         /\ n \notin parked \cup InQueue \cup Taken \cup {currentUT}
         /\ \A s \in Thread \ {t} : n \notin Inserting(s)

\* kt has told the poller that it is blocked (IOHandler::sem) exactly while
\* it is inside blockingSwitch, also while the poller borrows the token.
PollerGate ==
  iosem + (IF pc[poller] = "repost" THEN 1 ELSE 0) =
    IF currentUT = mainUT /\ pc[kt] # "main" THEN 1 ELSE 0

\* The queue is what ReadyQueue promises: FIFO, each uThread once, nullptr
\* only when nothing is ready.
RQ == INSTANCE ReadyQueue WITH q <- Queued, answer <- ut
ImplementsReadyQueue == RQ!Spec

\* kt spins in its own sem.post(): the semaphore holds SEM_VALUE_MAX stale
\* tokens and only kt could take one.
Saturated == pc[kt] = "post" /\ sem = SEM_VALUE_MAX

\* Every uThread in the ready queue runs at some point, unless kt's
\* semaphore saturates.
QueuedRuns ==
  \A u \in UT :
    (\E i \in 1 .. Len(list) : list[i] = u) ~> (currentUT = u \/ Saturated)

\* schedule() returns to the uThread that called it.
ScheduleReturns == pc[kt] = "post" ~> pc[kt] = "run"

-----------------------------------------------------------------------------
(* The strengthening that makes the invariants above inductive.            *)

\* Every insert is of uThreads, or of the stub by kt.
ChainInv ==
  \A t \in Thread : pc[t] \in {"exchange", "link"} =>
    \/ \A i \in 1 .. Len(chain[t]) : chain[t][i] \in UT
    \/ t = kt /\ chain[t] = <<stub>>

\* What kt knows where: which switch function it is in, and what pop() has
\* found out about head and tail.
KtInv ==
  /\ pc[kt] \in {"main", "wait", "trywait"} => currentUT = mainUT
  /\ pc[kt] \in {"run", "post", "postSwitch"} => currentUT \in UT
  /\ pc[kt] \in {"exchange", "link"} =>
       IF chain[kt] = <<stub>> THEN head # stub ELSE currentUT \in UT
  /\ pc[kt] = "trywait" => ut \in UT
  /\ pc[kt] = "postSwitch" /\ state[currentUT] = "YIELD" => ut \in UT
  /\ pc[kt] = "cas" => head = stub /\ ~tail.empty
  /\ pc[kt] = "spinStub" => head = stub /\ tail.node # stub
  /\ pc[kt] = "spinHead" => head # stub

\* Once kt has failed to pop, a token for the next wait exists, is owed, or
\* will be owed by whoever finds the empty mark.
WakeInv ==
  \/ pc[kt] \in {"main", "wait"}
  \/ pc[kt] = "postSwitch" /\ ut = NULL
  => tail.empty \/ sem > 0 \/ \E t \in Thread \ {kt} : OwesPost(t)

\* Unfinished inserts: each has its own gap in the list, and chains that
\* are still private are well formed.
InsertInv ==
  /\ \A t \in Thread : pc[t] = "link" =>
       \E i \in 1 .. Len(list) - 1 :
         prev[t] = list[i] /\ chain[t][1] = list[i + 1] /\ next[list[i]] = NULL
  /\ \A s, t \in Thread :
       pc[s] = "link" /\ pc[t] = "link" /\ prev[s] = prev[t] => s = t
  /\ \A t \in Thread : pc[t] = "exchange" =>
       /\ \A i, j \in 1 .. Len(chain[t]) : chain[t][i] = chain[t][j] => i = j
       /\ \A i \in 1 .. Len(chain[t]) - 1 : next[chain[t][i]] = chain[t][i + 1]
       /\ next[chain[t][Len(chain[t])]] = NULL

\* The mark means that the stub is alone.
EmptyMark == tail.empty => list = <<stub>>

IInv ==
  /\ TypeOK /\ ChainInv /\ KtInv /\ WakeInv
  /\ WellLinked /\ InsertInv /\ EmptyMark /\ ExactlyOnePlace
  /\ PollerGate
=============================================================================
