------------------------------ MODULE IOHandler ------------------------------
(***************************************************************************)
(* Network I/O of uThreads: Connection (Network.cpp), IOHandler            *)
(* (IOHandler.cpp), PollData and PollCache (IOHandler.h), and the epoll    *)
(* poller (EpollIOHandler.cpp).                                            *)
(*                                                                         *)
(* A uThread whose system call answers EAGAIN parks itself in the rut or   *)
(* wut slot of the connection's PollData; the poller thread takes it out   *)
(* when epoll reports the descriptor ready.  Each uThread has a kThread of *)
(* its own, the most concurrent placement; its kThread also runs the       *)
(* post-switch function that parks it.  The kernel's part (sockets and     *)
(* edge-triggered epoll) is modelled from how this code uses it.           *)
(***************************************************************************)
EXTENDS Naturals, Sequences, FiniteSets, SequencesExt

CONSTANTS UT,          \* uThreads that do I/O
          Conn,        \* Connection objects; a descriptor is named by its connection
          PD,          \* PollData objects (the first 128 of PollCache, or fewer)
          Programs,    \* programs: conn, ops (below) and the connections that exist
                       \* at the start, listening or established
          poller,      \* the thread of IOHandler::ioKT
          NULL, READY  \* nullptr and POLL_READY; POLL_WAIT is never stored

Op == {"none", "create", "accept", "connect", "read", "write", "close"}

ASSUME ProgramsAssumption ==
  Programs \subseteq [conn : [UT -> Conn], ops : [UT -> SUBSET Op], made : SUBSET Conn]
ASSUME PDAssumption == IsFiniteSet(PD) /\ Cardinality(PD) >= Cardinality(Conn)
ASSUME NamesAssumption == poller \notin UT /\ NULL \notin UT /\ READY \notin UT

VARIABLES
  conn,               \* the connection that each uThread of the program works on
  ops,                \* the calls that it makes on it
  rut, wut,           \* the two slots of each PollData
  closing, opened,    \* its flags
  isBlockingOnRead,
  pfd,                \* its fd
  cache,              \* PollCache::cache
  pd,                 \* Connection::pd, kept after close
  sock,               \* the kernel's socket behind each descriptor
  readable, writable, \* its readiness
  registered,         \* epoll: the PollData registered for each descriptor
  readyList,          \* epoll: descriptors with an edge to report
  pc,                 \* where each uThread, and the poller, is
  op,                 \* the call each uThread is in
  side,               \* TRUE: the utp of u's post-switch function is &rut
  old,                \* unblock's last read of the slot
  ret,                \* where a uThread continues after unblock
  events,             \* unblock calls left of the array epoll_wait filled
  bulk,               \* uThreads in the bulk queues of their kThreads
  unblockCounter      \* IOHandler::unblockCounter

progVars == <<conn, ops>>
pdVars == <<rut, wut, closing, opened, isBlockingOnRead, pfd, cache, pd>>
kernelVars == <<sock, readable, writable, registered, readyList>>
threadVars == <<pc, op, side, old, ret>>
pollVars == <<events, bulk, unblockCounter>>
vars == <<progVars, pdVars, kernelVars, threadVars, pollVars>>

Thread == UT \cup {poller}
Slot == UT \cup {NULL, READY}
Job == [pd : PD, read : BOOLEAN]
P(u) == pd[conn[u]]
SlotOf(p, read) == IF read THEN rut[p] ELSE wut[p]
Store(p, read, v) == /\ rut' = IF read THEN [rut EXCEPT ![p] = v] ELSE rut
                     /\ wut' = IF read THEN wut ELSE [wut EXCEPT ![p] = v]
Goto(t, loc) == pc' = [pc EXCEPT ![t] = loc]

\* wait(): reads and accepts ask for UT_IOREAD, writes and connects for UT_IOWRITE.
Reads(o) == o \in {"read", "accept"}

Listener(x) == \E u \in UT : conn[u] = x /\ "accept" \in ops[u]

\* The connections made at the start have taken the first PollData of the cache.
Init ==
  /\ \E g \in Programs :
       LET p == SetToSeq(PD)
           c == SetToSeq(g.made)
           at(x) == CHOOSE i \in 1..Len(c) : c[i] = x
       IN  /\ conn = g.conn /\ ops = g.ops
           /\ pd = [x \in Conn |-> IF x \in g.made THEN p[at(x)] ELSE NULL]
           /\ pfd = [y \in PD |-> IF \E i \in 1..Len(c) : y = p[i]
                                  THEN c[CHOOSE i \in 1..Len(c) : y = p[i]] ELSE NULL]
           /\ cache = SubSeq(p, Len(c) + 1, Len(p))
           /\ sock = [x \in Conn |-> IF x \notin g.made THEN "none"
                                     ELSE IF Listener(x) THEN "listening" ELSE "open"]
  /\ rut = [p \in PD |-> NULL] /\ wut = [p \in PD |-> NULL]
  /\ closing = [p \in PD |-> FALSE] /\ opened = [p \in PD |-> FALSE]
  /\ isBlockingOnRead = [p \in PD |-> FALSE]
  /\ readable = [x \in Conn |-> FALSE] /\ writable = [x \in Conn |-> sock[x] = "open"]
  /\ registered = [x \in Conn |-> NULL] /\ readyList = {}
  /\ pc = [t \in Thread |-> IF t = poller THEN "poll" ELSE "idle"]
  /\ op = [u \in UT |-> "none"] /\ ret = [u \in UT |-> "idle"]
  /\ side = [u \in UT |-> FALSE] /\ old = [t \in Thread |-> NULL]
  /\ events = <<>> /\ bulk = {} /\ unblockCounter = 0

-----------------------------------------------------------------------------
(* The kernel. *)

\* Readiness reported through epoll: an edge puts a registered descriptor on
\* epoll's ready list.
Edge(c) == readyList' = IF registered[c] = NULL THEN readyList ELSE readyList \cup {c}

\* Data (or, on a listening socket, a connection request) arrives.
Arrive(c) ==
  /\ sock[c] \in {"open", "listening"} /\ readable' = [readable EXCEPT ![c] = TRUE] /\ Edge(c)
  /\ UNCHANGED <<progVars, pdVars, sock, writable, registered, threadVars, pollVars>>

\* A full send buffer drains, or a pending connect is established.
Drain(c) ==
  /\ sock[c] \in {"open", "connecting"} /\ ~writable[c]
  /\ sock' = [sock EXCEPT ![c] = "open"]
  /\ writable' = [writable EXCEPT ![c] = TRUE] /\ Edge(c)
  /\ UNCHANGED <<progVars, pdVars, readable, registered, threadVars, pollVars>>

-----------------------------------------------------------------------------
(* Connection: the calls of a uThread. *)

\* Variant for mutation: getPollData reads the front and does not pop it.
InitPollDataNoPop(c) ==
  /\ cache # <<>>
  /\ pd' = [pd EXCEPT ![c] = Head(cache)] /\ pfd' = [pfd EXCEPT ![Head(cache)] = c]
  /\ UNCHANGED cache

\* Connection::init: getPollData takes the front of the cache.  A refill of an
\* empty cache is left out: PD has a PollData for every connection.
InitPollData(c) ==
  /\ cache # <<>>
  /\ pd' = [pd EXCEPT ![c] = Head(cache)] /\ pfd' = [pfd EXCEPT ![Head(cache)] = c]
  /\ cache' = Tail(cache)

\* Connection(domain, type, protocol), or Connection() with socket(): a new
\* non-blocking socket, not connected.
Create(u) ==
  LET c == conn[u] IN
  /\ pc[u] = "idle" /\ "create" \in ops[u] /\ sock[c] = "none"
  /\ InitPollData(c)
  /\ sock' = [sock EXCEPT ![c] = "new"]
  /\ UNCHANGED <<progVars, rut, wut, closing, opened, isBlockingOnRead, readable, writable, registered,
                 readyList, threadVars, pollVars>>

\* u is about to make the system call of o, for the first time or again.
Calls(u, o) == \/ pc[u] = "idle" /\ o \in ops[u] /\ sock[conn[u]] # "none"
               \/ pc[u] = "retry" /\ op[u] = o
SetOp(u, o) == op' = [op EXCEPT ![u] = o]
Done(u) == SetOp(u, "none") /\ Goto(u, "idle")

\* The system call answers EAGAIN (connect: EINPROGRESS): the uThread has to wait.
WouldBlock(u, o) == SetOp(u, o) /\ Goto(u, "block")

\* recv, recvfrom, recvmsg, recvmmsg and read: data is taken, some or all of it,
\* or a closed descriptor answers EBADF, or u waits and tries again.
Read(u) ==
  LET c == conn[u] IN
  /\ Calls(u, "read") /\ sock[c] # "new"
  /\ IF sock[c] = "none" THEN Done(u) /\ UNCHANGED readable
     ELSE IF readable[c]
     THEN /\ Done(u)
          /\ \E more \in BOOLEAN : readable' = [readable EXCEPT ![c] = more]
     ELSE WouldBlock(u, "read") /\ UNCHANGED readable
  /\ UNCHANGED <<progVars, pdVars, sock, writable, registered, readyList, side, old, ret, pollVars>>

\* send, sendto, sendmsg, sendmmsg and write, in the same way.
Write(u) ==
  LET c == conn[u] IN
  /\ Calls(u, "write") /\ sock[c] # "new"
  /\ IF sock[c] = "none" THEN Done(u) /\ UNCHANGED writable
     ELSE IF writable[c]
     THEN /\ Done(u)
          /\ \E room \in BOOLEAN : writable' = [writable EXCEPT ![c] = room]
     ELSE WouldBlock(u, "write") /\ UNCHANGED writable
  /\ UNCHANGED <<progVars, pdVars, sock, readable, registered, readyList, side, old, ret, pollVars>>

\* accept: a new Connection with a PollData of its own for an established socket.
Accept(u) ==
  LET c == conn[u] IN
  /\ Calls(u, "accept")
  /\ IF readable[c]
     THEN \E d \in Conn, more \in BOOLEAN :
            /\ sock[d] = "none" /\ InitPollData(d)
            /\ sock' = [sock EXCEPT ![d] = "open"]
            /\ readable' = [readable EXCEPT ![c] = more]
            /\ writable' = [writable EXCEPT ![d] = TRUE]
            /\ Done(u)
     ELSE WouldBlock(u, "accept") /\ UNCHANGED <<pd, pfd, cache, sock, readable, writable>>
  /\ UNCHANGED <<progVars, rut, wut, closing, opened, isBlockingOnRead, registered, readyList,
                 side, old, ret, pollVars>>

\* connect: EINPROGRESS, one wait for writability, then SO_ERROR is read: 0
\* unless the attempt failed, so connect returns whatever the socket's state.
Connect(u) ==
  LET c == conn[u] IN
  /\ Calls(u, "connect")
  /\ \/ /\ pc[u] = "idle" /\ sock[c] = "new"
        /\ WouldBlock(u, "connect") /\ sock' = [sock EXCEPT ![c] = "connecting"]
     \/ pc[u] = "retry" /\ Done(u) /\ UNCHANGED sock
  /\ UNCHANGED <<progVars, pdVars, readable, writable, registered, readyList, side, old, ret, pollVars>>

-----------------------------------------------------------------------------
(* IOHandler::block and its post-switch function. *)

\* block, open: the first to set opened registers the descriptor.
Open(u) ==
  /\ pc[u] = "block"
  /\ opened' = [opened EXCEPT ![P(u)] = TRUE]
  /\ Goto(u, IF opened[P(u)] THEN "load" ELSE "add")
  /\ UNCHANGED <<progVars, rut, wut, closing, isBlockingOnRead, pfd, cache, pd, kernelVars,
                 op, side, old, ret, pollVars>>

\* IOPoller::_Open: EPOLL_CTL_ADD reports the readiness the descriptor has; on a
\* descriptor that is closed it fails and the program exits.
Add(u) ==
  LET c == pfd[P(u)] IN
  /\ pc[u] = "add"
  /\ IF c \in Conn /\ sock[c] # "none"
     THEN /\ registered' = [registered EXCEPT ![c] = P(u)]
          /\ readyList' = IF readable[c] \/ writable[c] THEN readyList \cup {c} ELSE readyList
          /\ Goto(u, "load") /\ UNCHANGED opened
     ELSE /\ opened' = [opened EXCEPT ![P(u)] = FALSE]
          /\ Goto(u, "exit") /\ UNCHANGED <<registered, readyList>>
  /\ UNCHANGED <<progVars, rut, wut, closing, isBlockingOnRead, pfd, cache, pd, sock, readable, writable,
                 op, side, old, ret, pollVars>>

\* The slot is read: a notification is there to consume, or u suspends, noting
\* in the PollData which slot its post-switch function is to use.
Load(u) ==
  /\ pc[u] = "load"
  /\ IF SlotOf(P(u), Reads(op[u])) = READY
     THEN Goto(u, "consume") /\ UNCHANGED isBlockingOnRead
     ELSE /\ isBlockingOnRead' = [isBlockingOnRead EXCEPT ![P(u)] = Reads(op[u])]
          /\ Goto(u, "switch")
  /\ UNCHANGED <<progVars, rut, wut, closing, opened, pfd, cache, pd, kernelVars, op, side, old, ret, pollVars>>

Consume(u) ==
  /\ pc[u] = "consume" /\ Store(P(u), Reads(op[u]), NULL) /\ Goto(u, "retry")
  /\ UNCHANGED <<progVars, closing, opened, isBlockingOnRead, pfd, cache, pd, kernelVars,
                 op, side, old, ret, pollVars>>

\* postSwitchFunc, on the kThread that u has left: a PollData that is being closed
\* is left alone, and u with it; otherwise the slot is the one the flag names.
PostSwitch(u) ==
  /\ pc[u] = "switch"
  /\ Goto(u, IF closing[P(u)] THEN "dropped" ELSE "postLoad")
  /\ side' = [side EXCEPT ![u] = isBlockingOnRead[P(u)]]
  /\ UNCHANGED <<progVars, pdVars, kernelVars, op, old, ret, pollVars>>

PostLoad(u) ==
  /\ pc[u] = "postLoad"
  /\ Goto(u, IF SlotOf(P(u), side[u]) = READY THEN "postConsume" ELSE "postCas")
  /\ UNCHANGED <<progVars, pdVars, kernelVars, op, side, old, ret, pollVars>>

\* Consume the notification and resume u at once.
PostConsume(u) ==
  /\ pc[u] = "postConsume" /\ Store(P(u), side[u], NULL) /\ Goto(u, "ready")
  /\ UNCHANGED <<progVars, closing, opened, isBlockingOnRead, pfd, cache, pd, kernelVars,
                 op, side, old, ret, pollVars>>

\* Variant for mutation: u is stored without the comparison with nullptr.
PostCasBlind(u) ==
  /\ pc[u] = "postCas" /\ Store(P(u), side[u], u) /\ Goto(u, "parked")
  /\ UNCHANGED <<progVars, closing, opened, isBlockingOnRead, pfd, cache, pd, kernelVars,
                 op, side, old, ret, pollVars>>

\* The compare-and-swap of nullptr to u; when it fails the loop reads again.
PostCas(u) ==
  /\ pc[u] = "postCas"
  /\ IF SlotOf(P(u), side[u]) = NULL
     THEN Store(P(u), side[u], u) /\ Goto(u, "parked")
     ELSE Goto(u, "postLoad") /\ UNCHANGED <<rut, wut>>
  /\ UNCHANGED <<progVars, closing, opened, isBlockingOnRead, pfd, cache, pd, kernelVars,
                 op, side, old, ret, pollVars>>

\* u's kThread takes it from its ready queue; the call goes on after its wait.
Run(u) ==
  /\ pc[u] = "ready" /\ Goto(u, "retry") /\ side' = [side EXCEPT ![u] = FALSE]
  /\ UNCHANGED <<progVars, pdVars, kernelVars, op, old, ret, pollVars>>

-----------------------------------------------------------------------------
(* IOHandler::unblock(pd, isRead), called by the poller for the head of     *)
(* events and by close for the connection it closes.                        *)

Target(t) == IF t = poller THEN Head(events).pd ELSE P(t)
IsRead(t) == IF t = poller THEN Head(events).read ELSE TRUE

\* unblock returns: the poller has done with this call, close goes on.
Return(t) == IF t = poller THEN Goto(t, "events") /\ events' = Tail(events)
                           ELSE Goto(t, ret[t]) /\ UNCHANGED events

\* A PollData that is being closed needs no processing.
Unblock(t) ==
  /\ pc[t] = "unblock"
  /\ IF closing[Target(t)] THEN Return(t) ELSE Goto(t, "unblockLoad") /\ UNCHANGED events
  /\ UNCHANGED <<progVars, pdVars, kernelVars, op, side, old, ret, bulk, unblockCounter>>

UnblockLoad(t) ==
  /\ pc[t] = "unblockLoad"
  /\ LET slot == SlotOf(Target(t), IsRead(t)) IN
     IF slot = READY
     THEN Return(t) /\ UNCHANGED old
     ELSE old' = [old EXCEPT ![t] = slot] /\ Goto(t, "unblockCas") /\ UNCHANGED events
  /\ UNCHANGED <<progVars, pdVars, kernelVars, op, side, ret, bulk, unblockCounter>>

\* Variant for mutation: the answer of unblock is not counted.
CountNone(t) == UNCHANGED unblockCounter

\* unblock answers true: PollReady, not close, counts it.
Count(t) == unblockCounter' = IF t = poller THEN unblockCounter + 1 ELSE unblockCounter

\* Variant for mutation: the parked uThread stays in the slot.
UnparkKeep(p, read) == UNCHANGED <<rut, wut>>

\* A parked uThread is swapped for nullptr.
Unpark(p, read) == Store(p, read, NULL)

\* The compare-and-swap: an empty slot becomes POLL_READY; a parked uThread is
\* taken out and prepareBulkPush puts it in its kThread's bulk queue.
UnblockCas(t) ==
  LET p == Target(t) IN
  /\ pc[t] = "unblockCas" /\ old' = [old EXCEPT ![t] = NULL]
  /\ IF SlotOf(p, IsRead(t)) # old[t]
     THEN Goto(t, "unblockLoad") /\ UNCHANGED <<rut, wut, pollVars>>
     ELSE IF old[t] = NULL
     THEN Store(p, IsRead(t), READY) /\ Return(t) /\ UNCHANGED <<bulk, unblockCounter>>
     ELSE /\ Unpark(p, IsRead(t)) /\ bulk' = bulk \cup {old[t]} /\ Count(t)
          /\ pc' = [pc EXCEPT ![old[t]] = "bulk",
                              ![t] = IF t = poller THEN "events" ELSE ret[t]]
          /\ events' = IF t = poller THEN Tail(events) ELSE events
  /\ UNCHANGED <<progVars, closing, opened, isBlockingOnRead, pfd, cache, pd, kernelVars, op, side, ret>>

-----------------------------------------------------------------------------
(* Connection::close and IOHandler::close. *)

\* unblock(pd, true) is called for a parked reader, and, since the test of wut
\* guards an empty statement, once more whatever the slots hold.
CloseUnblock(u) ==
  /\ \/ /\ pc[u] = "idle" /\ "close" \in ops[u] /\ sock[conn[u]] # "none"
        /\ ret' = [ret EXCEPT ![u] = IF rut[P(u)] \in UT THEN "close2" ELSE "closeCas"]
     \/ pc[u] = "close2" /\ ret' = [ret EXCEPT ![u] = "closeCas"]
  /\ SetOp(u, "close") /\ Goto(u, "unblock")
  /\ UNCHANGED <<progVars, pdVars, kernelVars, side, old, pollVars>>

\* Only one closer of a PollData gets past the compare-and-swap of closing.
CloseCas(u) ==
  /\ pc[u] = "closeCas"
  /\ closing' = [closing EXCEPT ![P(u)] = TRUE]
  /\ Goto(u, IF closing[P(u)] THEN "closeFd" ELSE "closeDel")
  /\ ret' = [ret EXCEPT ![u] = "idle"]
  /\ UNCHANGED <<progVars, rut, wut, opened, isBlockingOnRead, pfd, cache, pd, kernelVars,
                 op, side, old, pollVars>>

\* IOPoller::_Close: EPOLL_CTL_DEL, harmless for a descriptor never added.
CloseDel(u) ==
  LET c == pfd[P(u)] IN
  /\ pc[u] = "closeDel"
  /\ registered' = [x \in Conn |-> IF x = c THEN NULL ELSE registered[x]]
  /\ readyList' = readyList \ {c} /\ Goto(u, "closeReset")
  /\ UNCHANGED <<progVars, pdVars, sock, readable, writable, op, side, old, ret, pollVars>>

\* PollData::reset
Reset(p) ==
  /\ rut' = [rut EXCEPT ![p] = NULL] /\ wut' = [wut EXCEPT ![p] = NULL]
  /\ pfd' = [pfd EXCEPT ![p] = NULL]
  /\ closing' = [closing EXCEPT ![p] = FALSE] /\ opened' = [opened EXCEPT ![p] = FALSE]

\* The PollData is reset and pushed on the cache.
CloseReset(u) ==
  /\ pc[u] = "closeReset" /\ Reset(P(u)) /\ cache' = Append(cache, P(u)) /\ Goto(u, "closeFd")
  /\ UNCHANGED <<progVars, isBlockingOnRead, pd, kernelVars, op, side, old, ret, pollVars>>

\* ::close(fd), which also takes the descriptor out of epoll.
CloseFd(u) ==
  LET c == conn[u] IN
  /\ pc[u] = "closeFd" /\ Done(u)
  /\ sock' = [sock EXCEPT ![c] = "none"]
  /\ readable' = [readable EXCEPT ![c] = FALSE] /\ writable' = [writable EXCEPT ![c] = FALSE]
  /\ registered' = [registered EXCEPT ![c] = NULL] /\ readyList' = readyList \ {c}
  /\ UNCHANGED <<progVars, pdVars, side, old, ret, pollVars>>

-----------------------------------------------------------------------------
(* IOHandler::poll and IOPoller::_Poll. *)

\* The mode of an event, as the unblock calls PollReady makes for it: read first.
Unblocks(c) ==
  (IF readable[c] THEN <<[pd |-> registered[c], read |-> TRUE]>> ELSE <<>>)
    \o (IF writable[c] THEN <<[pd |-> registered[c], read |-> FALSE]>> ELSE <<>>)

\* epoll_wait returns every descriptor of the ready list (MAXEVENTS = 32 is not
\* exceeded here), each with the readiness it has now; the list is empty after it.
EpollWait ==
  /\ pc[poller] = "poll" /\ readyList # {}
  /\ \E order \in SetToSeqs(readyList) :
       events' = FlattenSeq([i \in DOMAIN order |-> Unblocks(order[i])])
  /\ readyList' = {} /\ Goto(poller, "events")
  /\ UNCHANGED <<progVars, pdVars, sock, readable, writable, registered, op, side, old, ret, bulk,
                 unblockCounter>>

\* The next event of the array.
NextEvent ==
  /\ pc[poller] = "events" /\ events # <<>> /\ Goto(poller, "unblock")
  /\ UNCHANGED <<progVars, pdVars, kernelVars, op, side, old, ret, pollVars>>

\* The next poll starts with its counter at 0.
NewPoll == unblockCounter' = 0

\* The array is done: if something was unblocked, Scheduler::bulkPush schedules
\* every uThread of the bulk queues.  Then the poller polls again.
BulkPush ==
  /\ pc[poller] = "events" /\ events = <<>>
  /\ LET out == IF unblockCounter > 0 THEN bulk ELSE {}
     IN  /\ bulk' = bulk \ out
         /\ pc' = [t \in Thread |-> IF t = poller THEN "poll"
                                    ELSE IF t \in out THEN "ready" ELSE pc[t]]
  /\ NewPoll
  /\ UNCHANGED <<progVars, pdVars, kernelVars, op, side, old, ret, events>>

-----------------------------------------------------------------------------
Poller == EpollWait \/ NextEvent \/ BulkPush \/ Unblock(poller) \/ UnblockLoad(poller)
            \/ UnblockCas(poller)

Waits(u) == Open(u) \/ Add(u) \/ Load(u) \/ Consume(u) \/ PostSwitch(u) \/ PostLoad(u)
              \/ PostConsume(u) \/ PostCas(u) \/ Run(u)

Closes(u) == CloseCas(u) \/ CloseDel(u) \/ CloseReset(u) \/ CloseFd(u) \/ Unblock(u)
               \/ UnblockLoad(u) \/ UnblockCas(u)

\* The calls a uThread makes; nothing obliges it to make one.
Api(u) == Create(u) \/ Read(u) \/ Write(u) \/ Accept(u) \/ Connect(u) \/ CloseUnblock(u)

Next == \/ Poller
        \/ \E c \in Conn : Arrive(c) \/ Drain(c)
        \/ \E u \in UT : Waits(u) \/ Closes(u) \/ Api(u)

Spec == Init /\ [][Next]_vars

\* kThreads run what they have begun and the poller polls; the network and the
\* uThreads' wish to make calls are free.
FairSpec == /\ Spec /\ WF_vars(Poller)
            /\ \A u \in UT : WF_vars(Waits(u) \/ Closes(u) \/ (pc[u] # "idle" /\ Api(u)))

-----------------------------------------------------------------------------
(* Properties *)

\* Every variable keeps its type; one poll unblocks a uThread at most once.
TypeOK ==
  /\ rut \in [PD -> Slot] /\ wut \in [PD -> Slot]
  /\ closing \in [PD -> BOOLEAN] /\ opened \in [PD -> BOOLEAN]
  /\ isBlockingOnRead \in [PD -> BOOLEAN] /\ pfd \in [PD -> Conn \cup {NULL}]
  /\ cache \in Seq(PD) /\ pd \in [Conn -> PD \cup {NULL}]
  /\ sock \in [Conn -> {"none", "new", "listening", "connecting", "open"}]
  /\ registered \in [Conn -> PD \cup {NULL}] /\ readyList \subseteq Conn
  /\ op \in [UT -> Op] /\ side \in [UT -> BOOLEAN] /\ old \in [Thread -> Slot]
  /\ events \in Seq(Job) /\ bulk \subseteq UT /\ unblockCounter \in 0..Cardinality(UT)

Ready(u) == IF side[u] THEN readable[conn[u]] ELSE writable[conn[u]]

\* No two uThreads of the program use one connection.
Exclusive == \A u, v \in UT : conn[u] = conn[v] => u = v

\* A uThread is parked on a descriptor that is ready only while the notification
\* is on its way: epoll has the edge to report or the poller is about to unblock
\* the slot.  block and unblock race for the slot, and the edge comes only once.
\* (Another uThread that closes the descriptor takes it out of epoll.)
NoLostNotification ==
  \A u \in UT : Exclusive /\ pc[u] = "parked" /\ Ready(u) =>
     \/ conn[u] \in readyList
     \/ \E i \in DOMAIN events : events[i] = [pd |-> P(u), read |-> side[u]]

Slots(u) == Cardinality({p \in PD : rut[p] = u}) + Cardinality({p \in PD : wut[p] = u})

\* Whoever unblocks a uThread, the poller or a closer, it is never in two slots,
\* nor in a slot and a bulk queue, nor in either while it runs: it cannot be
\* scheduled twice.  Unless another uThread closes the connection it waits on, it
\* is in a slot exactly while it is parked: a PollData that was closed and
\* recycled holds no uThread of its former life.
OnePlace ==
  \A u \in UT :
    /\ Slots(u) + (IF u \in bulk THEN 1 ELSE 0) <= IF pc[u] \in {"parked", "bulk"} THEN 1 ELSE 0
    /\ Exclusive => (Slots(u) = 1 <=> pc[u] = "parked") /\ (u \in bulk <=> pc[u] = "bulk")

\* A PollData is in the cache or belongs to one connection in use, never both and
\* never twice: otherwise the notifications of two connections would mix.
PollDataOwnedOnce ==
  LET live == {c \in Conn : sock[c] # "none" /\ \A u \in UT : conn[u] = c => pc[u] # "closeFd"}
  IN  /\ IsInjective(cache)
      /\ \A c \in live : pd[c] \notin Range(cache)
      /\ \A c, d \in live : pd[c] = pd[d] => c = d

\* A finished poll leaves no uThread behind in a bulk queue, unless close() put it
\* there.
BulkDrained == Exclusive /\ pc[poller] = "poll" => bulk = {}

\* PollData, cache, bulk queues and counters agree between two connections, two
\* polls and two lives of a PollData.
Consistent == TypeOK /\ PollDataOwnedOnce /\ BulkDrained

\* A uThread waiting for a descriptor that is ready gets to try its call again,
\* unless another uThread closes the descriptor.
ReadyRuns == \A u \in UT : (Exclusive /\ pc[u] = "parked" /\ Ready(u)) ~> (pc[u] = "retry")
=============================================================================
