----------------------------- MODULE Scheduler04 -----------------------------
(***************************************************************************)
(* schedulers/Scheduler_04.h (SCHEDULERNO=4): a ready queue per kThread,    *)
(* the multi-producer single-consumer queue of Scheduler_02 with nodes that *)
(* are not the uThreads themselves.  pop() hands out the node before the    *)
(* one whose uThread it returns; that node is kept in tmpNode and goes to   *)
(* the uThread of the next pop.  Poll results are resumed one by one.       *)
(*                                                                          *)
(* One kThread, kt; Peers are the threads that resume its uThreads: other   *)
(* kThreads and the poller.                                                 *)
(***************************************************************************)
EXTENDS PollerGate, Naturals, Sequences, FiniteSets, SequencesExt

CONSTANTS UT,            \* uThreads; a uThread also names the node it is created with
          Peers, kt,
          mainUT, stub,  \* kt's mainUT; the node inside the queue object
          extra,         \* the node that the first pop allocates
          NULL,
          MaxSem         \* bound on the tokens of sem

Node == UT \cup {stub, extra}
Thread == Peers \cup {kt}

ASSUME NamesAssumption == /\ kt \notin Peers
                          /\ Cardinality(Node \cup {mainUT, NULL}) = Cardinality(UT) + 4

VARIABLES
  next, nstate,   \* Node::next and Node::state
  head, tail,     \* of the queue; tail is a node and its tag bit
  node,           \* utvar->node of each uThread
  tmpNode,        \* Scheduler::tmpNode
  ins, prev,      \* insert(): the node, and what tail.exchange returned
  sem,            \* Scheduler::sem
  pc,
  currentUT, ut,  \* kThread::currentUT; the uThread kt switches to
  state,          \* the state with which currentUT leaves kt
  parked          \* suspended uThreads that somebody may resume

queueVars == <<next, nstate, head, tail, node, tmpNode>>
insVars == <<ins, prev, sem>>
ktVars == <<currentUT, ut, state>>
vars == <<queueVars, insVars, gateVars, pc, ktVars, parked>>

Goto(t, loc) == pc' = [pc EXCEPT ![t] = loc]

Init ==
  /\ next = [n \in Node |-> NULL] /\ nstate = [n \in Node |-> NULL]
  /\ head = stub /\ tail = [node |-> stub, empty |-> TRUE]
  /\ node = [u \in UT |-> u] /\ tmpNode = NULL
  /\ ins = [t \in Thread |-> NULL] /\ prev = [t \in Thread |-> NULL] /\ sem = 0 /\ GateInit
  /\ pc = [t \in Thread |-> IF t = kt THEN "main" ELSE "idle"]
  /\ currentUT = mainUT /\ ut = NULL /\ state = "RUNNING" /\ parked = UT

-----------------------------------------------------------------------------
(* schedule(ut): the uThread's node is filled and inserted. *)

Schedule(t, u) ==
  /\ nstate' = [nstate EXCEPT ![node[u]] = u] /\ next' = [next EXCEPT ![node[u]] = NULL]
  /\ ins' = [ins EXCEPT ![t] = node[u]] /\ node' = [node EXCEPT ![u] = NULL]
  /\ Goto(t, "exchange")
  /\ UNCHANGED <<head, tail, tmpNode, prev, sem, gateVars>>

Exchange(t) ==
  /\ pc[t] = "exchange" /\ Goto(t, "link")
  /\ prev' = [prev EXCEPT ![t] = tail] /\ tail' = [node |-> ins[t], empty |-> FALSE]
  /\ UNCHANGED <<next, nstate, head, node, tmpNode, ins, sem, gateVars, ktVars, parked>>

\* schedule returns; in kt's post-switch function kt then runs what it chose.
Returned(t) ==
  IF t # kt THEN Goto(t, "idle") /\ UNCHANGED ktVars
  ELSE IF ut = NULL THEN Goto(t, "run") /\ UNCHANGED ktVars
  ELSE /\ currentUT' = ut /\ ut' = NULL /\ state' = "RUNNING"
       /\ Goto(t, IF ut = mainUT THEN "main" ELSE "run")

Link(t) ==
  /\ pc[t] = "link" /\ next' = [next EXCEPT ![prev[t].node] = ins[t]]
  /\ ins' = [ins EXCEPT ![t] = NULL] /\ prev' = [prev EXCEPT ![t] = NULL]
  /\ IF prev[t].empty THEN Goto(t, "post") /\ UNCHANGED ktVars ELSE Returned(t)
  /\ UNCHANGED <<nstate, head, tail, node, tmpNode, sem, gateVars, parked>>

\* Variant for mutation: the consumer is not woken.
PostMissing(t) ==
  /\ pc[t] = "post" /\ Returned(t)
  /\ UNCHANGED <<queueVars, insVars, gateVars, parked>>

\* The queue was marked empty: the consumer is woken.
Post(t) ==
  /\ pc[t] = "post" /\ sem < MaxSem /\ sem' = sem + 1 /\ Returned(t)
  /\ UNCHANGED <<queueVars, ins, prev, gateVars, parked>>

\* A peer, or the uThread that runs on kt, resumes a suspended uThread.
Resume(t, u) ==
  /\ pc[t] = IF t = kt THEN "run" ELSE "idle"
  /\ u \in parked /\ parked' = parked \ {u} /\ Schedule(t, u) /\ UNCHANGED ktVars

-----------------------------------------------------------------------------
(* pop() and the switch functions. *)

\* Variant for mutation: the uThread gets hhead itself, which tmpNode then shares.
RecycleShared(u, hhead) == node' = [node EXCEPT ![u] = hhead] /\ tmpNode' = hhead

\* The private part of a switch function after pop: the uThread gets the node of
\* the last pop, or a new one, and hhead becomes tmpNode.
Recycle(u, hhead) ==
  /\ node' = [node EXCEPT ![u] = IF tmpNode # NULL THEN tmpNode ELSE extra]
  /\ tmpNode' = hhead

\* Variant for mutation: the node carries out the state it had itself.
CarryOwn(n) == UNCHANGED nstate

\* hhead->state = next->state
Carry(n) == nstate' = [nstate EXCEPT ![head] = nstate[n]]

\* pop finds a successor of head: head moves on, its node carries the state out.
PopTake ==
  LET n == next[head] IN
  /\ pc[kt] = "pop" /\ n # NULL
  /\ Carry(n) /\ head' = n
  /\ Recycle(nstate'[head], head) /\ ut' = nstate'[head]
  /\ Goto(kt, IF currentUT = mainUT THEN "took" ELSE "switch")
  /\ UNCHANGED <<next, tail, insVars, gateVars, currentUT, state, parked>>

\* pop answers nullptr.  nonBlockingSwitch lets a uThread that yields go on, and
\* otherwise runs mainUT; blockingSwitch reads through the null pointer.
PopNull ==
  /\ Goto(kt, IF currentUT = mainUT THEN "crash" ELSE IF state = "YIELD" THEN "run" ELSE "switch")
  /\ ut' = IF currentUT # mainUT /\ state # "YIELD" THEN mainUT ELSE NULL

\* Only then will the next insert post.
Mark == tail' = [tail EXCEPT !.empty = TRUE]

\* pop finds no successor of head: the queue is marked empty already, or the
\* compare-and-swap marks it, or an insert is under way and pop spins.
PopEmpty ==
  /\ pc[kt] = "pop" /\ next[head] = NULL /\ tail.node = head
  /\ Mark /\ PopNull
  /\ UNCHANGED <<next, nstate, head, node, tmpNode, insVars, gateVars, currentUT, state, parked>>

\* uThread::yield and suspend call nonBlockingSwitch.
Leave ==
  /\ pc[kt] = "run" /\ Goto(kt, "pop")
  /\ \E s \in {"YIELD", "WAITING"} : state' = s
  /\ UNCHANGED <<queueVars, insVars, gateVars, currentUT, ut, parked>>

\* kThread::postSwitchFunc
PostSwitch ==
  /\ pc[kt] = "switch"
  /\ IF state = "YIELD"
     THEN Schedule(kt, currentUT) /\ UNCHANGED <<ktVars, parked>>
     ELSE /\ parked' = parked \cup {currentUT} /\ Returned(kt)
          /\ UNCHANGED <<queueVars, insVars, gateVars>>

\* blockingSwitch: announce, wait for one token, pop once.
BlockingSwitch ==
  /\ pc[kt] = "main" /\ MayBlock /\ Goto(kt, "wait")
  /\ UNCHANGED <<queueVars, insVars, ktVars, parked>>

SemWait ==
  /\ pc[kt] = "wait" /\ sem > 0 /\ sem' = sem - 1 /\ Goto(kt, "pop")
  /\ UNCHANGED <<queueVars, ins, prev, gateVars, ktVars, parked>>

BlockingSwitchReturn ==
  /\ pc[kt] = "took" /\ Unblocked
  /\ currentUT' = ut /\ ut' = NULL /\ state' = "RUNNING" /\ Goto(kt, "run")
  /\ UNCHANGED <<queueVars, insVars, parked>>

Poller == (GateTimedwait \/ GateRepost \/ Polled)
            /\ UNCHANGED <<queueVars, insVars, pc, ktVars, parked>>

-----------------------------------------------------------------------------
Next == \/ \E t \in Thread : \/ Exchange(t) \/ Link(t) \/ Post(t)
                             \/ \E u \in UT : Resume(t, u)
        \/ PopTake \/ PopEmpty \/ Leave \/ PostSwitch
        \/ BlockingSwitch \/ SemWait \/ BlockingSwitchReturn \/ Poller

Spec == Init /\ [][Next]_vars

-----------------------------------------------------------------------------
(* Properties *)

\* Every variable keeps its type.
TypeOK ==
  /\ next \in [Node -> Node \cup {NULL}] /\ nstate \in [Node -> UT \cup {NULL}]
  /\ head \in Node /\ tail \in [node : Node, empty : BOOLEAN]
  /\ node \in [UT -> Node \cup {NULL}] /\ tmpNode \in Node \cup {NULL}
  /\ ins \in [Thread -> Node \cup {NULL}] /\ sem \in 0..MaxSem /\ iosem \in 0..1
  /\ currentUT \in UT \cup {mainUT} /\ ut \in UT \cup {mainUT, NULL} /\ parked \subseteq UT

\* The uThreads queued, in the order of the exchanges: the list from head on, with
\* the links that inserts under way still have to make.
Succ(n) == LET late == {t \in Thread : prev[t] # NULL /\ prev[t].node = n}
           IN  IF late = {} THEN next[n] ELSE ins[CHOOSE t \in late : TRUE]
Walk[i \in 0..Cardinality(Node)] ==
  IF i = 0 THEN head ELSE IF Walk[i - 1] = NULL THEN NULL ELSE Succ(Walk[i - 1])
Queued == LET full == {i \in 1..Cardinality(Node) : Walk[i] # NULL}
          IN  [i \in 1..Cardinality(full) |-> nstate[Walk[i]]]

\* The queue is first-in first-out and loses nothing: a step leaves it, appends a
\* uThread, or takes the oldest one for kt; pop finds nothing only if it is empty.
QueueFifo ==
  [][/\ \/ Queued' = Queued
        \/ \E u \in UT : Queued' = Append(Queued, u)
        \/ Queued # <<>> /\ Queued' = Tail(Queued) /\ ut' = Head(Queued)
     /\ pc[kt] = "pop" /\ pc'[kt] # "pop" /\ Queued' = Queued => Queued = <<>>]_vars

\* A node has one owner: the list from head on, a uThread, tmpNode, or an insert
\* that has not linked it yet.  A node with two would be in two lists.
NodeOwnedOnce ==
  /\ \A u, v \in UT : node[u] # NULL /\ node[u] = node[v] => u = v
  /\ \A u \in UT : node[u] # tmpNode \/ node[u] = NULL
  /\ \A n \in {node[u] : u \in UT} \cup {tmpNode} :
       n # NULL => n # head /\ n # tail.node /\ \A t \in Thread : ins[t] # n

\* A uThread gives its node up only to be queued: one that is suspended, that runs or
\* that has just been taken out of the queue has one.
NodeGivenBack ==
  \A u \in UT : node[u] = NULL => u \notin parked /\ (currentUT = u => pc[kt] # "run") /\ ut # u

\* Every node has its one owner, and every uThread that may be scheduled a node.
Consistent == TypeOK /\ NodeOwnedOnce /\ NodeGivenBack

\* kt sleeps, with nobody about to wake it, only when nothing is queued.
NoLostWakeup ==
  pc[kt] = "wait" /\ sem = 0 /\ (\A t \in Thread : pc[t] # "post") => next[head] = NULL
=============================================================================
