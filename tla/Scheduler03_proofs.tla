------------------------- MODULE Scheduler03_proofs -------------------------
(***************************************************************************)
(* Proofs about module Scheduler03, for any set of uThreads: the kThread    *)
(* never sleeps on a queue with work it has not been told of, the gate of   *)
(* the poller has exactly the tokens it should have, and a uThread is in    *)
(* one place at a time.                                                     *)
(***************************************************************************)
EXTENDS Scheduler03, FiniteSetTheorems, TLAPS

\* The invariant.
IInv == Consistent /\ NoLostWakeup

-----------------------------------------------------------------------------
(* Sequences *)

\* Append adds the element to the range and keeps an injective sequence
\* injective when the element is new.
LEMMA AppendRange ==
  ASSUME NEW S, NEW q \in Seq(S), NEW e \in S
  PROVE  /\ Append(q, e) \in Seq(S) /\ Append(q, e) # <<>> /\ Len(Append(q, e)) = Len(q) + 1
         /\ Range(Append(q, e)) = Range(q) \cup {e}
         /\ IsInjective(q) /\ e \notin Range(q) => IsInjective(Append(q, e))
<1>1. /\ Append(q, e) \in Seq(S) /\ Len(Append(q, e)) = Len(q) + 1 /\ Append(q, e) # <<>>
      /\ DOMAIN q = 1 .. Len(q) /\ DOMAIN Append(q, e) = 1 .. Len(q) + 1 /\ Len(q) \in Nat
      /\ \A i \in 1 .. Len(q) : Append(q, e)[i] = q[i]
      /\ Append(q, e)[Len(q) + 1] = e
  OBVIOUS
<1>2. Range(Append(q, e)) = Range(q) \cup {e}
  BY <1>1 DEF Range
<1>3. IsInjective(q) /\ e \notin Range(q) => IsInjective(Append(q, e))
  BY <1>1 DEF Range, IsInjective
<1> QED
  BY <1>1, <1>2, <1>3

\* Tail removes the head from the range of an injective sequence.
LEMMA TailRange ==
  ASSUME NEW S, NEW q \in Seq(S), q # <<>>
  PROVE  /\ Tail(q) \in Seq(S) /\ Len(Tail(q)) = Len(q) - 1 /\ Len(q) \in Nat
         /\ Head(q) \in S /\ Head(q) \in Range(q)
         /\ IsInjective(q) => IsInjective(Tail(q)) /\ Range(Tail(q)) = Range(q) \ {Head(q)}
<1>1. /\ Tail(q) \in Seq(S) /\ Len(Tail(q)) = Len(q) - 1 /\ Len(q) \in Nat /\ Len(q) >= 1
      /\ DOMAIN q = 1 .. Len(q) /\ DOMAIN Tail(q) = 1 .. Len(q) - 1
      /\ \A i \in 1 .. Len(q) - 1 : Tail(q)[i] = q[i + 1]
      /\ Head(q) = q[1] /\ Head(q) \in S
  OBVIOUS
<1>2. Head(q) \in Range(q)
  BY <1>1 DEF Range
<1>3. ASSUME IsInjective(q) PROVE IsInjective(Tail(q))
  BY <1>1, <1>3 DEF IsInjective
<1>4. ASSUME IsInjective(q) PROVE Range(Tail(q)) = Range(q) \ {Head(q)}
  <2>1. \A i \in 2 .. Len(q) : q[i] # Head(q) /\ i - 1 \in 1 .. Len(q) - 1 /\ Tail(q)[i - 1] = q[i]
    BY <1>1, <1>4 DEF IsInjective
  <2>2. ASSUME NEW x \in Range(Tail(q)) PROVE x \in Range(q) \ {Head(q)}
    <3>1. PICK i \in 1 .. Len(q) - 1 : x = Tail(q)[i]
      BY <1>1, <2>2 DEF Range
    <3>2. i + 1 \in 2 .. Len(q) /\ i + 1 \in DOMAIN q /\ x = q[i + 1]
      BY <1>1, <3>1
    <3> QED
      BY <2>1, <3>2 DEF Range
  <2>3. ASSUME NEW x \in Range(q) \ {Head(q)} PROVE x \in Range(Tail(q))
    <3>1. PICK i \in 1 .. Len(q) : x = q[i]
      BY <1>1, <2>3 DEF Range
    <3>2. i \in 2 .. Len(q)
      BY <1>1, <2>3, <3>1
    <3> QED
      BY Zenon, <1>1, <2>1, <3>1, <3>2 DEF Range
  <2> QED
    BY Zenon, <2>2, <2>3
<1> QED
  BY <1>1, <1>2, <1>3, <1>4

\* The empty sequence.
LEMMA EmptyRange == Range(<<>>) = {} /\ IsInjective(<<>>)
  BY DEF Range, IsInjective

\* A concatenation has the elements of both, and is injective when both are and
\* share no element.
LEMMA ConcatRange ==
  ASSUME NEW S, NEW q \in Seq(S), NEW r \in Seq(S)
  PROVE  /\ q \o r \in Seq(S) /\ Range(q \o r) = Range(q) \cup Range(r)
         /\ IsInjective(q \o r) <=> /\ IsInjective(q) /\ IsInjective(r)
                                    /\ Range(q) \cap Range(r) = {}
<1>1. /\ q \o r \in Seq(S) /\ Len(q) \in Nat /\ Len(r) \in Nat
      /\ DOMAIN q = 1 .. Len(q) /\ DOMAIN r = 1 .. Len(r)
      /\ DOMAIN (q \o r) = 1 .. Len(q) + Len(r)
      /\ \A i \in 1 .. Len(q) : (q \o r)[i] = q[i]
      /\ \A i \in 1 .. Len(q) + Len(r) : i > Len(q) => (q \o r)[i] = r[i - Len(q)]
  OBVIOUS
<1>2. \A i \in 1 .. Len(r) : /\ i + Len(q) \in 1 .. Len(q) + Len(r)
                             /\ (q \o r)[i + Len(q)] = r[i]
  BY <1>1
<1>3. Range(q \o r) = Range(q) \cup Range(r)
  <2>1. ASSUME NEW x \in Range(q \o r) PROVE x \in Range(q) \cup Range(r)
    <3>1. PICK i \in 1 .. Len(q) + Len(r) : x = (q \o r)[i]
      BY <1>1, <2>1 DEF Range
    <3>2. CASE i <= Len(q)
      BY <1>1, <3>1, <3>2 DEF Range
    <3>3. CASE i > Len(q)
      <4>1. i - Len(q) \in 1 .. Len(r) /\ x = r[i - Len(q)]
        BY <1>1, <3>1, <3>3
      <4> QED
        BY Zenon, <1>1, <4>1 DEF Range
    <3> QED
      BY <1>1, <3>1, <3>2, <3>3
  <2>2. ASSUME NEW x \in Range(q) PROVE x \in Range(q \o r)
    BY <1>1, <2>2 DEF Range
  <2>3. ASSUME NEW x \in Range(r) PROVE x \in Range(q \o r)
    <3>1. PICK i \in 1 .. Len(r) : x = r[i]
      BY Zenon, <1>1, <2>3 DEF Range
    <3>2. i + Len(q) \in DOMAIN (q \o r) /\ (q \o r)[i + Len(q)] = x
      BY Zenon, <1>1, <1>2, <3>1
    <3> QED
      BY Zenon, <3>2 DEF Range
  <2> QED
    BY <2>1, <2>2, <2>3
<1>4. ASSUME IsInjective(q \o r)
      PROVE  IsInjective(q) /\ IsInjective(r) /\ Range(q) \cap Range(r) = {}
  <2>1. IsInjective(q)
    BY <1>1, <1>4 DEF IsInjective
  <2>2. ASSUME NEW i \in 1 .. Len(r), NEW j \in 1 .. Len(r), r[i] = r[j] PROVE i = j
    <3>1. i + Len(q) = j + Len(q)
      BY ZenonT(30), <1>1, <1>2, <1>4, <2>2 DEF IsInjective
    <3> QED
      BY <1>1, <3>1
  <2>3. ASSUME NEW i \in 1 .. Len(q), NEW j \in 1 .. Len(r) PROVE q[i] # r[j]
    <3>1. i # j + Len(q) /\ i \in 1 .. Len(q) + Len(r)
      BY <1>1
    <3> QED
      BY ZenonT(30), <1>1, <1>2, <1>4, <3>1 DEF IsInjective
  <2> QED
    BY <1>1, <2>1, <2>2, <2>3 DEF IsInjective, Range
<1>5. ASSUME IsInjective(q), IsInjective(r), Range(q) \cap Range(r) = {}
      PROVE  IsInjective(q \o r)
  <2>1. \A i \in 1 .. Len(q), j \in 1 .. Len(r) : q[i] # r[j]
    BY Zenon, <1>1, <1>5 DEF Range
  <2>2. SUFFICES ASSUME NEW i \in 1 .. Len(q) + Len(r), NEW j \in 1 .. Len(q) + Len(r),
                        (q \o r)[i] = (q \o r)[j]
                 PROVE  i = j
    BY <1>1 DEF IsInjective
  <2>3. CASE i <= Len(q) /\ j <= Len(q)
    BY <1>1, <1>5, <2>2, <2>3 DEF IsInjective
  <2>4. CASE i <= Len(q) /\ j > Len(q)
    <3>1. (q \o r)[j] = r[j - Len(q)] /\ j - Len(q) \in 1 .. Len(r) /\ i \in 1 .. Len(q)
      BY <1>1, <2>4
    <3> QED
      BY <1>1, <2>1, <2>2, <3>1
  <2>5. CASE i > Len(q) /\ j <= Len(q)
    <3>1. (q \o r)[i] = r[i - Len(q)] /\ i - Len(q) \in 1 .. Len(r) /\ j \in 1 .. Len(q)
      BY <1>1, <2>5
    <3> QED
      BY Zenon, <1>1, <2>1, <2>2, <3>1
  <2>6. CASE i > Len(q) /\ j > Len(q)
    <3>1. /\ i - Len(q) \in 1 .. Len(r) /\ j - Len(q) \in 1 .. Len(r)
          /\ r[i - Len(q)] = r[j - Len(q)]
      BY <1>1, <2>2, <2>6
    <3>2. i - Len(q) = j - Len(q)
      BY SMTT(30), <1>1, <1>5, <3>1 DEF IsInjective
    <3> QED
      BY <1>1, <3>2
  <2> QED
    BY <1>1, <2>3, <2>4, <2>5, <2>6
<1> QED
  BY <1>1, <1>3, <1>4, <1>5

\* One uThread, as a batch.
LEMMA SingleRange ==
  ASSUME NEW S, NEW e \in S
  PROVE  <<e>> \in Seq(S) /\ <<e>> # <<>> /\ Range(<<e>>) = {e} /\ IsInjective(<<e>>)
  BY DEF Range, IsInjective

\* A batch of the poller holds uThreads of the set it was made from, each once.
LEMMA BatchRange ==
  ASSUME NEW s, IsFiniteSet(s), s # {}, NEW batch \in Injection(1 .. Cardinality(s), s)
  PROVE  batch \in Seq(s) /\ Range(batch) \subseteq s /\ IsInjective(batch)
<1>1. Cardinality(s) \in Nat
  BY Zenon, FS_CardinalityType
<1>2. batch \in [1 .. Cardinality(s) -> s] /\ IsInjective(batch)
  BY Zenon DEF Injection
<1>3. batch \in Seq(s)
  BY <1>1, <1>2
<1> QED
  BY <1>2, <1>3 DEF Range
-----------------------------------------------------------------------------
(* Where the uThreads are *)

\* OnePlace, place by place.
Apart ==
  /\ IsInjective(runQueue) /\ IsInjective(pushing) /\ Range(runQueue) \cap Range(pushing) = {}
  /\ Range(runQueue) \cap parked = {} /\ Range(pushing) \cap parked = {}
  /\ currentUT \notin Range(runQueue) \cup Range(pushing) \cup parked
  /\ ut \notin Range(runQueue) \cup Range(pushing) \cup parked

\* The sequence that OnePlace speaks of is what is queued, followed by what a peer
\* that holds the mutex is about to queue.
LEMMA Places == ASSUME TypeOK PROVE OnePlace <=> Apart
<1>1. runQueue \in Seq(UT) /\ pushing \in Seq(UT)
  BY Zenon DEF TypeOK
<1>2. /\ Range(runQueue \o pushing) = Range(runQueue) \cup Range(pushing)
      /\ IsInjective(runQueue \o pushing)
           <=> /\ IsInjective(runQueue) /\ IsInjective(pushing)
               /\ Range(runQueue) \cap Range(pushing) = {}
  BY <1>1, ConcatRange
<1> QED
  BY Zenon, <1>2 DEF OnePlace, Apart

\* Only uThreads are queued.
LEMMA QueuedTypes ==
  ASSUME TypeOK
  PROVE  Range(runQueue) \subseteq UT /\ Range(pushing) \subseteq UT
  BY DEF TypeOK, Range

\* The next state satisfies the invariant when its parts do.
LEMMA Together ==
  ASSUME TypeOK', GateExact', Apart', Registers', NoLostWakeup'
  PROVE  IInv'
<1>1. OnePlace'
  <2>1. runQueue' \in Seq(UT) /\ pushing' \in Seq(UT)
    BY Zenon DEF TypeOK
  <2>2. /\ Range(runQueue' \o pushing') = Range(runQueue') \cup Range(pushing')
        /\ IsInjective(runQueue' \o pushing')
             <=> /\ IsInjective(runQueue') /\ IsInjective(pushing')
                 /\ Range(runQueue') \cap Range(pushing') = {}
    BY <2>1, ConcatRange
  <2> QED
    BY Zenon, <2>2 DEF OnePlace, Apart
<1> QED
  BY Zenon, <1>1 DEF IInv, Consistent

\* What each step starts from.
LEMMA Parts ==
  ASSUME IInv
  PROVE  TypeOK /\ GateExact /\ Apart /\ Registers /\ NoLostWakeup
         /\ Range(runQueue) \subseteq UT /\ Range(pushing) \subseteq UT
  BY Zenon, Places, QueuedTypes DEF IInv, Consistent

-----------------------------------------------------------------------------
(* The initial states and the steps *)

\* Initially kt runs its mainUT and every uThread is suspended.
LEMMA InitInv == Init => IInv
<1> SUFFICES ASSUME Init PROVE IInv
  BY Zenon
<1>1. TypeOK
  <2>1. <<>> \in Seq(UT) /\ UT \subseteq UT /\ 0 \in 0 .. 1
    OBVIOUS
  <2> QED
    BY Zenon, <2>1 DEF Init, GateInit, TypeOK
<1>2. Range(runQueue) = {} /\ Range(pushing) = {} /\ IsInjective(runQueue) /\ IsInjective(pushing)
  BY Zenon, EmptyRange DEF Init
<1>3. Apart
  BY <1>2, NamesAssumption DEF Init, Apart
<1>4. GateExact /\ Registers /\ NoLostWakeup
  BY NamesAssumption DEF Init, GateInit, GateExact, Tokens, Registers, NoLostWakeup
<1> QED
  BY <1>1, <1>3, <1>4, Places DEF IInv, Consistent

\* A peer takes the mutex with a batch of suspended uThreads.
LEMMA LockInv ==
  ASSUME IInv, NEW batch \in Seq(UT), Lock(batch), batch # <<>>, Range(batch) \subseteq parked,
         IsInjective(batch), UNCHANGED <<runQueue, notified, ktVars>>,
         GateExact', iosem' \in 0 .. 1, poller' \in {"gate", "repost", "poll"}
  PROVE  IInv'
<1>i. TypeOK /\ Apart /\ Registers /\ NoLostWakeup
  BY Zenon, Parts
<1>e. /\ pushing = <<>> /\ pushing' = batch /\ parked' = parked \ Range(batch)
      /\ UNCHANGED <<runQueue, notified, pc, currentUT, state, ut>>
  BY Zenon DEF Lock, ktVars
<1>1. TypeOK'
  BY Zenon, <1>i, <1>e DEF TypeOK
<1>2. Apart'
  BY Zenon, <1>i, <1>e DEF Apart
<1>3. Registers' /\ NoLostWakeup'
  BY <1>i, <1>e DEF Registers, NoLostWakeup
<1> QED
  BY <1>1, <1>2, <1>3, Together

\* schedule by a peer.
LEMMA PeerResumeInv == ASSUME IInv, NEW u \in UT, PeerResume(u) PROVE IInv'
<1>i. TypeOK /\ GateExact
  BY Zenon, Parts
<1>e. /\ u \in parked /\ Lock(<<u>>)
      /\ UNCHANGED <<runQueue, notified, iosem, poller, pc, currentUT, state, ut>>
  BY Zenon DEF PeerResume, gateVars, ktVars
<1>1. GateExact' /\ iosem' \in 0 .. 1 /\ poller' \in {"gate", "repost", "poll"}
  BY Zenon, <1>i, <1>e DEF GateExact, Tokens, TypeOK
<1>2. /\ <<u>> \in Seq(UT) /\ <<u>> # <<>> /\ Range(<<u>>) \subseteq parked
      /\ IsInjective(<<u>>)
  BY <1>e, SingleRange
<1> QED
  BY Zenon, <1>e, <1>1, <1>2, LockInv DEF ktVars

\* bulkPush by the poller, or a poll that unblocked nobody.
LEMMA PollerBulkPushInv == ASSUME IInv, PollerBulkPush PROVE IInv'
<1>i. TypeOK /\ GateExact /\ Apart /\ Registers /\ NoLostWakeup
  BY Zenon, Parts
<1>e. /\ poller = "poll" /\ poller' = "gate" /\ iosem' = iosem
      /\ UNCHANGED <<runQueue, notified, pc, currentUT, state, ut>>
  BY Zenon DEF PollerBulkPush, Polled, ktVars
<1>1. GateExact' /\ iosem' \in 0 .. 1 /\ poller' \in {"gate", "repost", "poll"}
  BY Zenon, <1>i, <1>e DEF GateExact, Tokens, TypeOK
<1>2. ASSUME NEW s \in SUBSET parked, s # {},
             NEW batch \in Injection(1 .. Cardinality(s), s), Lock(batch)
      PROVE  IInv'
  <2>1. s \subseteq UT /\ IsFiniteSet(s)
    BY <1>i, UTAssumption, FS_Subset DEF TypeOK
  <2>2. batch \in Seq(s) /\ Range(batch) \subseteq s /\ IsInjective(batch)
    BY <1>2, <2>1, BatchRange
  <2>3. batch \in Seq(UT)
    BY <2>1, <2>2
  <2>4. batch # <<>>
    <3>1. Cardinality(s) \in Nat /\ Cardinality(s) # 0
      BY <1>2, <2>1, FS_CardinalityType, FS_EmptySet
    <3>2. DOMAIN batch = 1 .. Cardinality(s)
      BY Zenon, <1>2 DEF Injection
    <3> QED
      BY <3>1, <3>2
  <2> QED
    BY <1>e, <1>1, <1>2, <2>2, <2>3, <2>4, LockInv DEF ktVars
<1>3. ASSUME UNCHANGED <<pushing, parked>> PROVE IInv'
  <2>1. TypeOK'
    BY <1>i, <1>e, <1>1, <1>3 DEF TypeOK
  <2>2. Apart'
    BY <1>i, <1>e, <1>3 DEF Apart
  <2>3. Registers' /\ NoLostWakeup'
    BY Zenon, <1>i, <1>e DEF Registers, NoLostWakeup
  <2> QED
    BY <1>1, <2>1, <2>2, <2>3, Together
<1> QED
  BY Zenon, <1>2, <1>3 DEF PollerBulkPush

\* The end of a peer's critical section: a sleeping kt is notified.
LEMMA PushInv == ASSUME IInv, Push PROVE IInv'
<1>i. TypeOK /\ GateExact /\ Apart /\ Registers
  BY Zenon, Parts
<1>e. /\ pushing # <<>> /\ pushing' = <<>> /\ runQueue' = runQueue \o pushing
      /\ notified' = (notified \/ pc = "wait")
      /\ UNCHANGED <<iosem, poller, pc, currentUT, state, ut, parked>>
  BY Zenon DEF Push, Notify, gateVars, ktVars
<1>1. /\ runQueue' \in Seq(UT) /\ Range(runQueue') = Range(runQueue) \cup Range(pushing)
      /\ IsInjective(runQueue')
  BY <1>i, <1>e, ConcatRange DEF TypeOK, Apart
<1>2. TypeOK'
  BY <1>i, <1>e, <1>1 DEF TypeOK
<1>3. Apart'
  BY <1>i, <1>e, <1>1, EmptyRange DEF Apart
<1>4. GateExact' /\ Registers'
  BY <1>i, <1>e DEF GateExact, Tokens, Registers
<1>5. NoLostWakeup'
  BY Zenon, <1>e DEF NoLostWakeup
<1> QED
  BY <1>2, <1>3, <1>4, <1>5, Together

\* nonBlockingSwitch: the front of the queue, or mainUT for a uThread that blocks.
LEMMA TryPopInv == ASSUME IInv, NEW s \in {"YIELD", "WAITING"}, TryPop(s) PROVE IInv'
<1>i. /\ TypeOK /\ GateExact /\ Apart /\ Registers
      /\ Range(runQueue) \subseteq UT /\ Range(pushing) \subseteq UT
  BY Zenon, Parts
<1>e. /\ pc = "run" /\ state' = s
      /\ UNCHANGED <<pushing, notified, iosem, poller, currentUT, parked>>
  BY Zenon DEF TryPop, gateVars
<1>1. CASE pushing = <<>> /\ runQueue # <<>> /\ ut' = Head(runQueue)
           /\ runQueue' = Tail(runQueue) /\ pc' = "post"
  <2>1. /\ runQueue' \in Seq(UT) /\ IsInjective(runQueue') /\ ut' \in UT /\ ut' \in Range(runQueue)
        /\ Range(runQueue') = Range(runQueue) \ {ut'}
    BY <1>i, <1>1, TailRange DEF TypeOK, Apart
  <2>2. TypeOK'
    BY <1>i, <1>e, <1>1, <2>1 DEF TypeOK
  <2>3. Apart'
    BY <1>i, <1>e, <2>1 DEF Apart
  <2>4. GateExact' /\ NoLostWakeup'
    BY <1>i, <1>e, <1>1 DEF GateExact, Tokens, NoLostWakeup
  <2>5. Registers'
    BY SMTT(30), <1>i, <1>e, <1>1, <2>1, NamesAssumption DEF Registers, Apart
  <2> QED
    BY <2>2, <2>3, <2>4, <2>5, Together
<1>2. CASE /\ ut' = IF s = "YIELD" THEN NULL ELSE mainUT
           /\ pc' = IF s = "YIELD" THEN "run" ELSE "post"
           /\ runQueue' = runQueue
  <2>1. ut' \in {NULL, mainUT} /\ pc' \in {"run", "post"}
    BY Zenon, <1>2
  <2>2. TypeOK'
    BY SMTT(30), <1>i, <1>e, <1>2, <2>1 DEF TypeOK
  <2>3. Apart'
    BY <1>i, <1>e, <1>2, <2>1, NamesAssumption DEF Apart, TypeOK
  <2>4. GateExact' /\ NoLostWakeup'
    BY Zenon, <1>i, <1>e, <2>1 DEF GateExact, Tokens, NoLostWakeup
  <2>5. Registers'
    BY <1>i, <1>e, <1>2, NamesAssumption DEF Registers
  <2> QED
    BY <2>2, <2>3, <2>4, <2>5, Together
<1> QED
  BY Zenon, <1>1, <1>2 DEF TryPop

\* The post-switch function: what left is queued again or may be resumed.
LEMMA PostSwitchInv == ASSUME IInv, PostSwitch PROVE IInv'
<1>i. /\ TypeOK /\ GateExact /\ Apart /\ Registers
      /\ Range(runQueue) \subseteq UT /\ Range(pushing) \subseteq UT
  BY Zenon, Parts
<1>e. /\ pc = "post" /\ currentUT' = ut /\ ut' = NULL /\ state' = "RUNNING"
      /\ pc' = IF ut = mainUT THEN "main" ELSE "run"
      /\ UNCHANGED <<pushing, notified, iosem, poller>>
  BY Zenon DEF PostSwitch, gateVars
<1>1. /\ currentUT \in UT /\ ut # NULL /\ ut # currentUT /\ pc' \in {"main", "run"}
      /\ ut \in UT \cup {mainUT}
  BY Zenon, <1>i, <1>e DEF TypeOK, Registers
<1>2. GateExact' /\ NoLostWakeup'
  BY <1>i, <1>e, <1>1 DEF GateExact, Tokens, NoLostWakeup
<1>3. Registers'
  BY <1>i, <1>e, <1>1, NamesAssumption DEF Registers
<1>4. CASE state = "YIELD" /\ runQueue' = Append(runQueue, currentUT) /\ parked' = parked
  <2>1. /\ runQueue' \in Seq(UT) /\ Range(runQueue') = Range(runQueue) \cup {currentUT}
        /\ IsInjective(runQueue')
    BY <1>i, <1>1, <1>4, AppendRange DEF TypeOK, Apart
  <2>2. TypeOK'
    BY <1>i, <1>e, <1>1, <1>4, <2>1 DEF TypeOK
  <2>3. Apart'
    BY SMTT(30), <1>i, <1>e, <1>1, <1>4, <2>1, NamesAssumption DEF Apart, TypeOK
  <2> QED
    BY <1>2, <1>3, <2>2, <2>3, Together
<1>5. CASE parked' = parked \cup {currentUT} /\ runQueue' = runQueue
  <2>1. TypeOK'
    BY <1>i, <1>e, <1>1, <1>5 DEF TypeOK
  <2>2. Apart'
    BY <1>i, <1>e, <1>1, <1>5, NamesAssumption DEF Apart, TypeOK
  <2> QED
    BY <1>2, <1>3, <2>1, <2>2, Together
<1> QED
  BY <1>4, <1>5 DEF PostSwitch

\* schedule by the running uThread.
LEMMA ResumeInv == ASSUME IInv, NEW u \in UT, Resume(u) PROVE IInv'
<1>i. TypeOK /\ GateExact /\ Apart /\ Registers
  BY Zenon, Parts
<1>e. /\ pc = "run" /\ pushing = <<>> /\ u \in parked /\ runQueue' = Append(runQueue, u)
      /\ parked' = parked \ {u} /\ notified' = (notified \/ pc = "wait")
      /\ UNCHANGED <<pushing, iosem, poller, pc, currentUT, state, ut>>
  BY Zenon DEF Resume, Notify, gateVars, ktVars
<1>1. /\ runQueue' \in Seq(UT) /\ Range(runQueue') = Range(runQueue) \cup {u}
      /\ IsInjective(runQueue')
  BY <1>i, <1>e, AppendRange DEF TypeOK, Apart
<1>2. TypeOK'
  BY <1>i, <1>e, <1>1 DEF TypeOK
<1>3. Apart'
  BY <1>i, <1>e, <1>1 DEF Apart
<1>4. GateExact' /\ Registers' /\ NoLostWakeup'
  BY <1>i, <1>e DEF GateExact, Tokens, Registers, NoLostWakeup
<1> QED
  BY <1>2, <1>3, <1>4, Together

\* blockingSwitch gives the poller a token.
LEMMA BlockingSwitchInv == ASSUME IInv, BlockingSwitch PROVE IInv'
<1>i. TypeOK /\ GateExact /\ Apart /\ Registers
  BY Zenon, Parts
<1>e. /\ pc = "main" /\ pc' = "pop" /\ iosem' = iosem + 1 /\ poller' = poller
      /\ UNCHANGED <<runQueue, pushing, notified, currentUT, state, ut, parked>>
  BY Zenon DEF BlockingSwitch, MayBlock, queueVars
<1>1. GateExact' /\ iosem' \in 0 .. 1
  BY <1>i, <1>e DEF GateExact, Tokens, TypeOK
<1>2. TypeOK'
  BY <1>i, <1>e, <1>1 DEF TypeOK
<1>3. Apart' /\ Registers' /\ NoLostWakeup'
  BY <1>i, <1>e DEF Apart, Registers, NoLostWakeup
<1> QED
  BY <1>1, <1>2, <1>3, Together

\* __Pop: kt sleeps only on an empty queue.
LEMMA PopInv == ASSUME IInv, Pop PROVE IInv'
<1>i. TypeOK /\ GateExact /\ Apart /\ Registers
  BY Parts
<1>e. /\ pushing = <<>> /\ pc \in {"pop", "wait"} /\ notified' = FALSE
      /\ UNCHANGED <<pushing, iosem, poller, currentUT, state, parked>>
  BY Zenon DEF Pop, gateVars
<1>1. CASE runQueue = <<>> /\ pc' = "wait" /\ runQueue' = runQueue /\ ut' = ut
  <2>1. TypeOK'
    BY Zenon, <1>i, <1>e, <1>1 DEF TypeOK
  <2>2. Apart' /\ Registers'
    BY <1>i, <1>e, <1>1 DEF Apart, Registers
  <2>3. GateExact' /\ NoLostWakeup'
    BY <1>i, <1>e, <1>1 DEF GateExact, Tokens, NoLostWakeup
  <2> QED
    BY <2>1, <2>2, <2>3, Together
<1>2. CASE runQueue # <<>> /\ pc' = "took" /\ ut' = Head(runQueue) /\ runQueue' = Tail(runQueue)
  <2>1. /\ runQueue' \in Seq(UT) /\ IsInjective(runQueue') /\ ut' \in UT /\ ut' \in Range(runQueue)
        /\ Range(runQueue') = Range(runQueue) \ {ut'}
    BY <1>i, <1>2, TailRange DEF TypeOK, Apart
  <2>2. TypeOK'
    BY Zenon, <1>i, <1>e, <1>2, <2>1 DEF TypeOK
  <2>3. Apart'
    BY <1>i, <1>e, <2>1 DEF Apart
  <2>4. GateExact' /\ NoLostWakeup'
    BY <1>i, <1>e, <1>2 DEF GateExact, Tokens, NoLostWakeup
  <2>5. Registers'
    BY <1>i, <1>e, <1>2, <2>1, NamesAssumption DEF Registers
  <2> QED
    BY SMTT(30), <2>2, <2>3, <2>4, <2>5, Together
<1> QED
  BY <1>e, <1>1, <1>2 DEF Pop

\* The token is taken back once kt has a uThread.
LEMMA BlockingSwitchReturnInv == ASSUME IInv, BlockingSwitchReturn PROVE IInv'
<1>i. TypeOK /\ GateExact /\ Apart /\ Registers
  BY Zenon, Parts
<1>e. /\ pc = "took" /\ iosem > 0 /\ iosem' = iosem - 1 /\ poller' = poller
      /\ currentUT' = ut /\ ut' = NULL /\ pc' = "run"
      /\ UNCHANGED <<runQueue, pushing, notified, state, parked>>
  BY Zenon DEF BlockingSwitchReturn, Unblocked, queueVars
<1>1. GateExact' /\ iosem' \in 0 .. 1 /\ ut \in UT
  BY <1>i, <1>e DEF GateExact, Tokens, TypeOK, Registers
<1>2. TypeOK'
  BY SMTT(30), <1>i, <1>e, <1>1 DEF TypeOK
<1>3. Apart'
  BY <1>i, <1>e, <1>1, NamesAssumption, Parts DEF Apart, TypeOK
<1>4. Registers' /\ NoLostWakeup'
  BY <1>i, <1>e, <1>1, NamesAssumption DEF Registers, NoLostWakeup
<1> QED
  BY <1>1, <1>2, <1>3, <1>4, Together

\* The poller takes a token and posts it again, or times out.
LEMMA PollerInv == ASSUME IInv, Poller PROVE IInv'
<1>i. TypeOK /\ GateExact /\ Apart /\ Registers /\ NoLostWakeup
  BY Parts
<1>e. UNCHANGED <<runQueue, pushing, notified, pc, currentUT, state, ut, parked>>
  BY Zenon DEF Poller, queueVars, ktVars
<1>1. GateExact' /\ iosem' \in 0 .. 1 /\ poller' \in {"gate", "repost", "poll"}
  BY <1>i, <1>e DEF Poller, GateTimedwait, GateRepost, GateExact, Tokens, TypeOK
<1>2. TypeOK'
  BY <1>i, <1>e, <1>1 DEF TypeOK
<1>3. Apart' /\ Registers' /\ NoLostWakeup'
  BY <1>i, <1>e DEF Apart, Registers, NoLostWakeup
<1> QED
  BY <1>1, <1>2, <1>3, Together

\* Every step preserves the invariant: one case for each action.
LEMMA StepInv == IInv /\ [Next]_vars => IInv'
<1> SUFFICES ASSUME IInv, [Next]_vars PROVE IInv'
  BY Zenon
<1>1. CASE UNCHANGED vars
  <2>1. UNCHANGED <<runQueue, pushing, notified, iosem, poller, pc, currentUT, state, ut, parked>>
    BY Zenon, <1>1 DEF vars, queueVars, gateVars, ktVars
  <2>2. TypeOK' /\ GateExact'
    BY <2>1, Parts DEF TypeOK, GateExact, Tokens
  <2>3. Apart' /\ Registers' /\ NoLostWakeup'
    BY <2>1, Parts DEF Apart, Registers, NoLostWakeup
  <2> QED
    BY <2>2, <2>3, Together
<1> QED
  BY SMTT(30), <1>1, TryPopInv, PostSwitchInv, BlockingSwitchInv, PopInv, BlockingSwitchReturnInv,
     PushInv, PollerInv, PollerBulkPushInv, PeerResumeInv, ResumeInv DEF Next, Leave

-----------------------------------------------------------------------------
(* Theorems *)

\* The inductive invariant holds in every state the scheduler can reach.
THEOREM Invariance == Spec => []IInv
  BY InitInv, StepInv, PTL DEF Spec

\* The poller's gate holds exactly the token of a kThread inside blockingSwitch,
\* and a uThread is queued at most once, and not while it runs or is suspended.
THEOREM SchedulerConsistent == Spec => []Consistent
<1>1. IInv => Consistent
  BY Zenon DEF IInv
<1> QED
  BY <1>1, Invariance, PTL

\* A kThread that sleeps while its queue has work has been notified.
THEOREM NoWakeupLost == Spec => []NoLostWakeup
<1>1. IInv => NoLostWakeup
  BY Zenon DEF IInv
<1> QED
  BY <1>1, Invariance, PTL
=============================================================================
