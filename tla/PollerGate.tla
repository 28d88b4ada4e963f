----------------------------- MODULE PollerGate -----------------------------
(***************************************************************************)
(* IOHandler::sem, the semaphore that keeps the poller thread from polling  *)
(* while no kThread is about to block.  blockingSwitch of every scheduler   *)
(* posts it before it looks for work and takes a token back once it has     *)
(* some; pollerFunc waits for a token, posts it again, and polls.           *)
(***************************************************************************)
EXTENDS Naturals

VARIABLES iosem,  \* IOHandler::sem
          poller  \* where the poller thread is

gateVars == <<iosem, poller>>

GateInit == iosem = 0 /\ poller = "gate"

\* A kThread announces that it may block.
MayBlock == iosem' = iosem + 1 /\ UNCHANGED poller

\* Variant for mutation: the token is left in the semaphore.
UnblockedKeep == iosem > 0 /\ UNCHANGED gateVars

\* while(!sem.trywait()): it takes a token back, spinning while the poller has it.
Unblocked == iosem > 0 /\ iosem' = iosem - 1 /\ UNCHANGED poller

\* pollerFunc: timedwait gets a token, or times out.
GateTimedwait ==
  /\ poller = "gate"
  /\ \/ iosem > 0 /\ iosem' = iosem - 1 /\ poller' = "repost"
     \/ poller' = "poll" /\ UNCHANGED iosem

\* Variant for mutation: the poller keeps the token it waited for.
GateRepostMissing == poller = "repost" /\ poller' = "poll" /\ UNCHANGED iosem

GateRepost == poller = "repost" /\ poller' = "poll" /\ iosem' = iosem + 1

\* poll() has returned; the scheduler's module says what it did.
Polled == poller = "poll" /\ poller' = "gate" /\ UNCHANGED iosem

\* n kThreads are inside blockingSwitch.
Tokens(n) == iosem + (IF poller = "repost" THEN 1 ELSE 0) = n
=============================================================================
