----------------------------- MODULE Scheduler03 -----------------------------
(***************************************************************************)
(* schedulers/Scheduler_03.h (SCHEDULERNO=3): each kThread has a ready      *)
(* queue of its own, protected by a mutex and a condition variable.         *)
(*                                                                          *)
(* One kThread, kt; other kThreads and the poller schedule uThreads on it.  *)
(* The mutex is held for a few statements at a time and protects all that   *)
(* they touch: a critical section is one step, except that a peer is seen   *)
(* holding it, so that kt's try_lock can fail.                              *)
(***************************************************************************)
EXTENDS PollerGate, Naturals, Sequences, FiniteSets, Functions

CONSTANTS UT,      \* uThreads whose homekThread is kt
          mainUT,  \* kt's mainUT
          NULL,
          Bulk     \* bound: uThreads one poll unblocks

ASSUME NamesAssumption == mainUT \notin UT /\ NULL \notin UT /\ mainUT # NULL
ASSUME UTAssumption == IsFiniteSet(UT)
ASSUME BulkAssumption == Bulk \in Nat

VARIABLES
  runQueue,   \* Scheduler::runQueue
  pushing,    \* what a peer, holding mtx, is about to push; <<>>: mtx is free
  notified,   \* whether kt's wait on cv has been notified
  pc,         \* where kt is
  currentUT,  \* kThread::currentUT
  state,      \* uThread::state of the uThread that leaves kt
  ut,         \* what the switch functions found
  parked      \* suspended uThreads that somebody may resume

queueVars == <<runQueue, pushing, notified>>
ktVars == <<pc, currentUT, state, ut>>
vars == <<queueVars, gateVars, ktVars, parked>>

Init ==
  /\ runQueue = <<>> /\ pushing = <<>> /\ notified = FALSE /\ GateInit
  /\ pc = "main" /\ currentUT = mainUT /\ state = "RUNNING" /\ ut = NULL /\ parked = UT

-----------------------------------------------------------------------------
(* schedule: one uThread (resume), or a batch (bulkPush). *)

Lock(batch) == pushing = <<>> /\ pushing' = batch /\ parked' = parked \ Range(batch)

\* A peer resumes a uThread of kt: schedule(ut, kt).
PeerResume(u) ==
  /\ u \in parked /\ Lock(<<u>>) /\ UNCHANGED <<runQueue, notified, gateVars, ktVars>>

\* The poller unblocked uThreads of kt: bulkPush, or a poll that unblocked none.
PollerBulkPush ==
  /\ Polled
  /\ \/ \E s \in SUBSET parked : /\ s # {} /\ Cardinality(s) <= Bulk
                                 /\ \E batch \in Injection(1 .. Cardinality(s), s) : Lock(batch)
     \/ UNCHANGED <<pushing, parked>>
  /\ UNCHANGED <<runQueue, notified, ktVars>>

\* Variant for mutation: the notify is left out.
NotifyMissing == UNCHANGED notified

Notify == notified' = (notified \/ pc = "wait")

\* The peer's critical section ends.
Push ==
  /\ pushing # <<>> /\ pushing' = <<>>
  /\ runQueue' = runQueue \o pushing /\ Notify
  /\ UNCHANGED <<gateVars, ktVars, parked>>

-----------------------------------------------------------------------------
(* The switch functions of kt. *)

\* nonBlockingSwitch, __tryPop: the lock and a uThread, or nothing.
TryPop(s) ==
  /\ pc = "run" /\ state' = s
  /\ \/ /\ pushing = <<>> /\ runQueue # <<>>
        /\ ut' = Head(runQueue) /\ runQueue' = Tail(runQueue) /\ pc' = "post"
     \/ /\ pushing # <<>> \/ runQueue = <<>>
        /\ ut' = IF s = "YIELD" THEN NULL ELSE mainUT
        /\ pc' = IF s = "YIELD" THEN "run" ELSE "post"
        /\ UNCHANGED runQueue
  /\ UNCHANGED <<pushing, notified, gateVars, currentUT, parked>>

\* kThread::postSwitchFunc: the uThread that left is resumed or may be resumed.
PostSwitch ==
  /\ pc = "post"
  /\ IF state = "YIELD" THEN /\ pushing = <<>> /\ runQueue' = Append(runQueue, currentUT)
                             /\ UNCHANGED parked
                        ELSE parked' = parked \cup {currentUT} /\ UNCHANGED runQueue
  /\ currentUT' = ut /\ ut' = NULL /\ state' = "RUNNING"
  /\ pc' = IF ut = mainUT THEN "main" ELSE "run"
  /\ UNCHANGED <<pushing, notified, gateVars>>

\* The running uThread resumes another one of kt.
Resume(u) ==
  /\ pc = "run" /\ pushing = <<>> /\ u \in parked
  /\ runQueue' = Append(runQueue, u) /\ parked' = parked \ {u} /\ Notify
  /\ UNCHANGED <<pushing, gateVars, ktVars>>

\* blockingSwitch announces that kt may block.
BlockingSwitch ==
  /\ pc = "main" /\ MayBlock /\ pc' = "pop"
  /\ UNCHANGED <<queueVars, currentUT, state, ut, parked>>

\* __Pop: the uThread at the front, or wait until something is there; a wait
\* may also end without a notify.
Pop ==
  /\ pushing = <<>> /\ pc \in {"pop", "wait"} /\ notified' = FALSE
  /\ IF runQueue = <<>>
     THEN pc' = "wait" /\ UNCHANGED <<runQueue, ut>>
     ELSE pc' = "took" /\ ut' = Head(runQueue) /\ runQueue' = Tail(runQueue)
  /\ UNCHANGED <<pushing, gateVars, currentUT, state, parked>>

BlockingSwitchReturn ==
  /\ pc = "took" /\ Unblocked
  /\ currentUT' = ut /\ ut' = NULL /\ pc' = "run"
  /\ UNCHANGED <<queueVars, state, parked>>

Poller == (GateTimedwait \/ GateRepost) /\ UNCHANGED <<queueVars, ktVars, parked>>

-----------------------------------------------------------------------------
Leave == \E s \in {"YIELD", "WAITING"} : TryPop(s)

Next == \/ Leave \/ PostSwitch \/ BlockingSwitch \/ Pop \/ BlockingSwitchReturn
        \/ Push \/ Poller \/ PollerBulkPush
        \/ \E u \in UT : PeerResume(u) \/ Resume(u)

Spec == Init /\ [][Next]_vars

\* kt runs; it wakes from its wait when notified, and nothing promises that it
\* does otherwise; it gets the mutex in the end, by lock and by try_lock, since
\* peers hold it for a few statements only; a uThread gives kt up at some point.
FairSpec ==
  /\ Spec /\ WF_vars(Push) /\ WF_vars(Poller /\ poller = "repost")
  /\ SF_vars(Pop /\ (pc = "wait" => notified)) /\ SF_vars(PostSwitch)
  /\ WF_vars(BlockingSwitch) /\ SF_vars(BlockingSwitchReturn) /\ WF_vars(Leave)
  /\ SF_vars(Leave /\ pushing = <<>> /\ runQueue # <<>>)

-----------------------------------------------------------------------------
(* Properties *)

\* Every variable keeps its type.
TypeOK ==
  /\ runQueue \in Seq(UT) /\ pushing \in Seq(UT) /\ notified \in BOOLEAN
  /\ pc \in {"main", "pop", "wait", "took", "run", "post"}
  /\ currentUT \in UT \cup {mainUT} /\ ut \in UT \cup {mainUT, NULL}
  /\ state \in {"RUNNING", "YIELD", "WAITING"} /\ parked \subseteq UT
  /\ iosem \in 0..1 /\ poller \in {"gate", "repost", "poll"}

\* kt does not sleep on a queue with work unless it has been notified.
NoLostWakeup == pc = "wait" /\ runQueue # <<>> => notified

\* The poller's gate has one token while kt is inside blockingSwitch.
GateExact == Tokens(IF pc \in {"pop", "wait", "took"} THEN 1 ELSE 0)

\* A uThread is queued at most once, and not while it runs or is suspended.
OnePlace ==
  LET held == runQueue \o pushing
  IN  /\ IsInjective(held) /\ Range(held) \cap parked = {}
      /\ {currentUT, ut} \cap (Range(held) \cup parked) = {}

\* kt is on its mainUT exactly in the blocking switch, and the uThread that a
\* switch has found is not the one that leaves; a yield never ends on mainUT.
Registers ==
  /\ currentUT = mainUT <=> pc \in {"main", "pop", "wait", "took"}
  /\ pc \in {"took", "post"} => ut # currentUT
  /\ pc = "took" => ut \in UT
  /\ pc = "post" => ut # NULL /\ (state = "YIELD" => ut # mainUT)

\* The gate's tokens and the places of the uThreads agree with where kt is.
Consistent == TypeOK /\ GateExact /\ OnePlace /\ Registers

\* A uThread that is ready runs at some point.
QueuedRuns == \A u \in UT : (u \in Range(runQueue)) ~> (currentUT = u)
=============================================================================
