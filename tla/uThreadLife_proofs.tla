------------------------- MODULE uThreadLife_proofs -------------------------
(***************************************************************************)
(* Proofs about module uThreadLife, for any number of uThreads and creators *)
(* and any cache size: a joiner never touches a uThread that was destroyed  *)
(* or recycled, join returns only after the joined function has, and a      *)
(* uThread leaves the cache clean.                                          *)
(*                                                                          *)
(* The invariant follows each pair of a creator and the uThread it has the  *)
(* pointer of through their meeting (Meetings).  A step concerns one        *)
(* uThread o and the creator, if any, that has its pointer; lemma Local     *)
(* leaves only these two to look at.                                        *)
(***************************************************************************)
EXTENDS uThreadLife, FiniteSetTheorems, TLAPS

\* The invariant, which holds until a detach() comes too late; CleanRecycle follows
\* from it.
IInv == TypeOK /\ Lives /\ Handles /\ Meetings

Live == {u \in UT : life[u] = "live"}

\* A step leaves the uThread v, or the creator q, alone.
Untouched(v) ==
  /\ joinMtx'[v] = joinMtx[v] /\ joinWait'[v] = joinWait[v] /\ afterJoin'[v] = afterJoin[v]
  /\ jState'[v] = jState[v] /\ life'[v] = life[v] /\ pc'[v] = pc[v] /\ woken'[v] = woken[v]
Kept(q) == tgt'[q] = tgt[q] /\ pc'[q] = pc[q] /\ woken'[q] = woken[q]

\* The meeting of p and o goes on, or p lets o go.
GoesOn(p, o) ==
  /\ Handle(p)'
  /\ (tgt'[p] = o /\ Meeting(p, o)') \/ (tgt'[p] = NULL /\ Solo(o)')

-----------------------------------------------------------------------------
(* Sequences *)

\* Append adds the element to the range and keeps an injective sequence
\* injective when the element is new.
LEMMA AppendRange ==
  ASSUME NEW S, NEW q \in Seq(S), NEW e \in S
  PROVE  /\ Append(q, e) \in Seq(S) /\ Len(Append(q, e)) = Len(q) + 1
         /\ Range(Append(q, e)) = Range(q) \cup {e}
         /\ IsInjective(q) /\ e \notin Range(q) => IsInjective(Append(q, e))
<1>1. /\ Append(q, e) \in Seq(S) /\ Len(Append(q, e)) = Len(q) + 1
      /\ DOMAIN q = 1 .. Len(q) /\ DOMAIN Append(q, e) = 1 .. Len(q) + 1 /\ Len(q) \in Nat
      /\ \A i \in 1 .. Len(q) : Append(q, e)[i] = q[i]
      /\ Append(q, e)[Len(q) + 1] = e
  OBVIOUS
<1>2. Range(Append(q, e)) = Range(q) \cup {e}
  BY <1>1 DEF Range
<1>3. IsInjective(q) /\ e \notin Range(q) => IsInjective(Append(q, e))
  BY <1>1 DEF Range, IsInjective
<1> QED
  BY Zenon, <1>1, <1>2, <1>3

\* The empty sequence.
LEMMA EmptyRange == Range(<<>>) = {} /\ IsInjective(<<>>)
  BY DEF Range, IsInjective

\* Taking the last element off an injective sequence takes it out of the range.
LEMMA PopRange ==
  ASSUME NEW S, NEW q \in Seq(S), q # <<>>, IsInjective(q)
  PROVE  /\ SubSeq(q, 1, Len(q) - 1) \in Seq(S) /\ Len(SubSeq(q, 1, Len(q) - 1)) = Len(q) - 1
         /\ Len(q) \in Nat /\ q[Len(q)] \in S /\ q[Len(q)] \in Range(q)
         /\ IsInjective(SubSeq(q, 1, Len(q) - 1))
         /\ Range(SubSeq(q, 1, Len(q) - 1)) = Range(q) \ {q[Len(q)]}
<1> DEFINE f == SubSeq(q, 1, Len(q) - 1)
<1>0. Len(q) \in Nat /\ Len(q) - 1 \in Nat /\ DOMAIN q = 1 .. Len(q) /\ q[Len(q)] \in S
  OBVIOUS
<1>1. PICK n \in Nat : n = Len(q) - 1
  BY Zenon, <1>0
<1>2. n + 1 = Len(q)
  BY <1>0, <1>1
<1>3. f \in Seq(S) /\ Len(f) = n /\ DOMAIN f = 1 .. n /\ \A i \in 1 .. n : f[i] = q[i]
  BY <1>0, <1>1, <1>2
<1> HIDE DEF f
<1>4. q[Len(q)] \in Range(q)
  BY <1>0 DEF Range
<1>5. IsInjective(f)
  BY <1>0, <1>2, <1>3 DEF IsInjective
<1>6. ASSUME NEW x \in Range(f) PROVE x \in Range(q) \ {q[Len(q)]}
  <2>1. PICK i \in 1 .. n : x = q[i]
    BY Zenon, <1>3, <1>6 DEF Range
  <2>2. i \in 1 .. Len(q) /\ Len(q) \in 1 .. Len(q) /\ i # Len(q)
    BY <1>2, <2>1
  <2> QED
    BY Zenon, <1>0, <2>1, <2>2 DEF Range, IsInjective
<1>7. ASSUME NEW x \in Range(q) \ {q[Len(q)]} PROVE x \in Range(f)
  <2>1. PICK i \in 1 .. Len(q) : x = q[i]
    BY Zenon, <1>0, <1>7 DEF Range
  <2>2. i # Len(q)
    BY Zenon, <1>7, <2>1
  <2>3. i \in 1 .. n
    BY <1>2, <2>1, <2>2
  <2> QED
    BY Zenon, <1>3, <2>1, <2>3 DEF Range
<1>8. Range(f) = Range(q) \ {q[Len(q)]}
  BY Zenon, <1>6, <1>7
<1> QED
  BY Zenon, <1>0, <1>1, <1>3, <1>4, <1>5, <1>8 DEF f

-----------------------------------------------------------------------------
(* The variables *)

\* The two kinds of actors are distinct, and NULL is none of them.
LEMMA Kinds ==
  /\ \A u \in UT : u \notin Creators /\ u # NULL /\ u \in Actor
  /\ \A p \in Creators : p \notin UT /\ p # NULL /\ p \in Actor
  /\ \A x \in Actor : x \in UT \/ x \in Creators
  BY Zenon, SetsAssumption DEF Actor

\* The variables are functions on their sets.
LEMMA Domains ==
  ASSUME TypeOK
  PROVE  /\ DOMAIN joinMtx = UT /\ DOMAIN joinWait = UT /\ DOMAIN afterJoin = UT
         /\ DOMAIN life = UT /\ DOMAIN jState = UT /\ DOMAIN tgt = Creators
         /\ DOMAIN woken = Actor /\ DOMAIN pc = Actor
         /\ \A p \in Creators : tgt[p] \in UT \cup {NULL}
  BY Zenon DEF TypeOK

-----------------------------------------------------------------------------
(* One uThread at a time *)

\* A meeting goes on when neither side is touched.
LEMMA MeetingKept ==
  ASSUME NEW p \in Creators, NEW u \in UT, Meeting(p, u), Untouched(u), Kept(p)
  PROVE  Meeting(p, u)'
  BY Zenon DEF Meeting, Owned, Untouched, Kept

\* A uThread that no creator has the pointer of is not touched either.
LEMMA SoloKept ==
  ASSUME NEW u \in UT, Solo(u), Untouched(u)
  PROVE  Solo(u)'
  BY Zenon DEF Solo, Untouched

\* A creator whose pointer nobody touches keeps it in order.
LEMMA HandleKept ==
  ASSUME NEW q \in Creators, Handle(q), Kept(q), tgt[q] # NULL => Untouched(tgt[q])
  PROVE  Handle(q)'
  BY Zenon DEF Handle, Kept, Untouched

\* A step of one uThread o and of creators that have its pointer, or get it.
LEMMA Local ==
  ASSUME TypeOK, Handles, Meetings, NEW o \in UT,
         \A v \in UT : v # o => Untouched(v),
         NEW p \in Creators, tgt[p] = NULL \/ tgt[p] = o,
         \A q \in Creators : q # p => Kept(q) /\ tgt[q] # o,
         GoesOn(p, o)
  PROVE  Handles' /\ Meetings'
<1>n. o # NULL /\ \A q \in Creators : tgt[q] \in UT \cup {NULL}
  BY Zenon, Domains, Kinds
<1>1. ASSUME NEW q \in Creators, q # p, tgt[q] # NULL PROVE tgt[q] \in UT /\ Untouched(tgt[q])
  BY Zenon, <1>n, <1>1
<1>2. ASSUME NEW q \in Creators PROVE Handle(q)'
  BY Zenon, <1>1, HandleKept DEF Handles, GoesOn
<1>4. ASSUME NEW q \in Creators, NEW r \in Creators, tgt'[q] = tgt'[r], tgt'[q] # NULL PROVE q = r
  <2>1. \A s \in Creators : s # p => tgt'[s] = tgt[s] /\ tgt[s] # o
    BY Zenon DEF Kept
  <2>2. tgt'[p] \in {o, NULL}
    BY Zenon DEF GoesOn
  <2> QED
    BY Zenon, <1>4, <2>1, <2>2 DEF Handles
<1>5. ASSUME NEW q \in Creators, tgt'[q] # NULL PROVE Meeting(q, tgt[q])'
  <2>1. CASE q = p
    BY Zenon, <1>5, <2>1 DEF GoesOn
  <2>2. CASE q # p
    <3>1. tgt'[q] = tgt[q] /\ Kept(q) /\ tgt[q] \in UT /\ Untouched(tgt[q]) /\ Meeting(q, tgt[q])
      BY Zenon, <1>1, <1>5, <2>2 DEF Kept, Meetings
    <3>2. \A v \in UT : Meeting(q, v) /\ Untouched(v) => Meeting(q, v)'
      BY Zenon, <3>1, MeetingKept
    <3> QED
      BY Zenon, <3>1, <3>2
  <2> QED
    BY Zenon, <2>1, <2>2
<1>6. ASSUME NEW v \in UT, \A q \in Creators : tgt'[q] # v PROVE Solo(v)'
  <2>1. CASE v = o
    BY Zenon, <1>6, <2>1 DEF GoesOn
  <2>2. CASE v # o
    <3>1. \A q \in Creators : tgt[q] # v
      BY Zenon, <1>6, <1>n, <2>2, Kinds DEF Kept
    <3> QED
      BY Zenon, <2>2, <3>1, SoloKept DEF Meetings
  <2> QED
    BY Zenon, <2>1, <2>2
<1>7. Handles'
  BY Zenon, <1>2, <1>4 DEF Handles
<1>8. Meetings'
  BY Zenon, <1>5, <1>6 DEF Meetings
<1> QED
  BY Zenon, <1>7, <1>8

\* A step of a uThread o that no creator has the pointer of.
LEMMA Single ==
  ASSUME TypeOK, Handles, Meetings, NEW o \in UT, \A q \in Creators : tgt[q] # o /\ Kept(q),
         \A v \in UT : v # o => Untouched(v), Solo(o)'
  PROVE  Handles' /\ Meetings'
<1>n. \A q \in Creators : tgt'[q] = tgt[q] /\ pc'[q] = pc[q] /\ tgt[q] \in UT \cup {NULL}
  BY Zenon, Domains DEF Kept
<1>1. ASSUME NEW q \in Creators, tgt[q] # NULL PROVE tgt[q] \in UT /\ Untouched(tgt[q])
  BY Zenon, <1>n, <1>1
<1>2. ASSUME NEW q \in Creators PROVE Handle(q)'
  BY Zenon, <1>1, HandleKept DEF Handles
<1>4. ASSUME NEW q \in Creators, tgt'[q] # NULL PROVE Meeting(q, tgt[q])'
  <2>1. tgt'[q] = tgt[q] /\ Kept(q) /\ tgt[q] \in UT /\ Untouched(tgt[q]) /\ Meeting(q, tgt[q])
    BY Zenon, <1>n, <1>1, <1>4 DEF Meetings
  <2>2. \A v \in UT : Meeting(q, v) /\ Untouched(v) => Meeting(q, v)'
    BY Zenon, <2>1, MeetingKept
  <2> QED
    BY Zenon, <2>1, <2>2
<1>5. ASSUME NEW v \in UT, \A q \in Creators : tgt'[q] # v PROVE Solo(v)'
  BY Zenon, <1>n, <1>5, SoloKept DEF Meetings
<1>6. \A q, r \in Creators : tgt'[q] = tgt'[r] /\ tgt'[q] # NULL => q = r
  BY Zenon, <1>n DEF Handles
<1>7. Handles'
  BY Zenon, <1>2, <1>6 DEF Handles
<1>8. Meetings'
  BY Zenon, <1>4, <1>5 DEF Meetings
<1> QED
  BY Zenon, <1>7, <1>8

\* A step of x at the uThread o: x is o, or the creator that has its pointer.
LEMMA StepAt ==
  ASSUME TypeOK, Handles, Meetings, NEW x \in Actor, NEW o \in UT,
         x \in UT => x = o, x \in Creators => tgt[x] = o,
         \A v \in UT : v # o => Untouched(v),
         \A q \in Creators : tgt[q] # o => Kept(q),
         \A p \in Creators : tgt[p] = o /\ Meeting(p, o) /\ Handle(p) /\ (x = p \/ x = o)
                               => GoesOn(p, o),
         Solo(o) /\ x = o => Solo(o)'
  PROVE  Handles' /\ Meetings'
<1>n. o # NULL
  BY Zenon, Kinds
<1>1. ASSUME NEW p \in Creators, tgt[p] = o PROVE Handles' /\ Meetings'
  <2>1. \A q \in Creators : q # p => tgt[q] # o /\ Kept(q)
    BY Zenon, <1>n, <1>1 DEF Handles
  <2>2. Meeting(p, o) /\ Handle(p)
    BY Zenon, <1>n, <1>1 DEF Meetings, Handles, Handle
  <2>3. x = p \/ x = o
    BY Zenon, <2>1, Kinds
  <2>4. GoesOn(p, o)
    BY Zenon, <1>1, <2>2, <2>3
  <2> QED
    BY Zenon, <1>1, <2>1, <2>2, <2>4, Local
<1>2. ASSUME \A p \in Creators : tgt[p] # o PROVE Handles' /\ Meetings'
  <2>1. x = o /\ Solo(o)
    BY Zenon, <1>2, Kinds DEF Meetings
  <2>2. Solo(o)'
    BY Zenon, <2>1
  <2>3. \A q \in Creators : tgt[q] # o /\ Kept(q)
    BY Zenon, <1>2
  <2> QED
    BY Zenon, <2>2, <2>3, Single
<1> QED
  BY Zenon, <1>1, <1>2

\* A step of a creator p and the uThread o that it has the pointer of.
LEMMA PairStep ==
  ASSUME TypeOK, Handles, Meetings, NEW p \in Creators, NEW o \in UT, tgt[p] = o,
         \A v \in UT : v # o => Untouched(v), \A q \in Creators : q # p => Kept(q), GoesOn(p, o)
  PROVE  Handles' /\ Meetings'
<1>1. o # NULL
  BY Zenon, Kinds
<1>2. \A q \in Creators : q # p => tgt[q] # o
  BY Zenon, <1>1 DEF Handles
<1> QED
  BY Zenon, <1>2, Local

\* A creator in a call is at a meeting.
LEMMA Pointed ==
  ASSUME TypeOK, Handles, Meetings, NEW p \in Creators, pc[p] # "idle"
  PROVE  tgt[p] \in UT /\ Meeting(p, tgt[p]) /\ Handle(p)
<1>1. Handle(p) /\ tgt[p] # NULL
  BY Zenon DEF Handles, Handle
<1> QED
  BY Zenon, <1>1, Domains DEF Meetings

\* Who is in a call works at a uThread: itself, or the one it has the pointer of.
LEMMA Works ==
  ASSUME TypeOK, Handles, NEW x \in Actor, pc[x] # "idle"
  PROVE  \E o \in UT : o = O(x) /\ (x \in UT => x = o) /\ (x \in Creators => tgt[x] = o)
<1>1. ASSUME x \in Creators PROVE tgt[x] \in UT
  BY Zenon, <1>1, Domains DEF Handles, Handle
<1> QED
  BY Zenon, <1>1, Kinds DEF O

\* Steps that neither create nor destroy.
LEMMA LivesKept ==
  ASSUME Lives, UNCHANGED <<life, cache>>, \A u \in UT : pc'[u] = "none" <=> pc[u] = "none"
  PROVE  Lives'
  BY Zenon DEF Lives

-----------------------------------------------------------------------------
(* waitOrSignal *)

\* The mutex is taken when it is free.
LEMMA AcquireInv == ASSUME IInv, NEW x \in Actor, Acquire(x) PROVE IInv'
<1> SUFFICES ASSUME TypeOK, Lives, Handles, Meetings PROVE IInv'
  BY Zenon DEF IInv
<1>1. PICK o \in UT : o = O(x) /\ (x \in UT => x = o) /\ (x \in Creators => tgt[x] = o)
  BY Zenon, Works DEF Acquire
<1>e. /\ pc[x] = "acquire" /\ joinMtx[o] = NULL
      /\ joinMtx' = [joinMtx EXCEPT ![o] = x] /\ pc' = [pc EXCEPT ![x] = "test"]
      /\ UNCHANGED <<joinWait, afterJoin, life, cache, total, jState, tgt, woken>>
  BY Zenon, <1>1 DEF Acquire, SetMtx, Goto, memVars
<1>f. /\ pc'[x] = "test" /\ \A y \in Actor : y # x => pc'[y] = pc[y]
      /\ joinMtx'[o] = x /\ \A v \in UT : v # o => joinMtx'[v] = joinMtx[v]
  BY Zenon, <1>e, Domains
<1>t. TypeOK'
  BY Zenon, <1>e DEF TypeOK, Joining
<1>l. Lives'
  BY Zenon, <1>e, <1>f, Kinds, LivesKept
<1>u. \A v \in UT : v # o => Untouched(v)
  BY Zenon, <1>1, <1>e, <1>f, Kinds DEF Untouched
<1>k. \A q \in Creators : tgt[q] # o => Kept(q)
  BY Zenon, <1>1, <1>e, <1>f, Kinds DEF Kept
<1>2. ASSUME NEW p \in Creators, tgt[p] = o, Meeting(p, o), Handle(p), x = p \/ x = o
      PROVE  GoesOn(p, o)
  <2>1. /\ pc'[p] = IF x = p THEN "test" ELSE pc[p]
        /\ pc'[o] = IF x = p THEN pc[o] ELSE "test"
    BY Zenon, <1>2, <1>f, Kinds
  <2>2. Meeting(p, o)'
    BY SMTT(30), <1>2, <1>e, <1>f, <2>1, Kinds DEF Meeting, Owned, Detaching
  <2>3. Handle(p)'
    BY <1>2, <1>e, <2>1, Kinds DEF Handle, Joining, Detaching
  <2> QED
    BY Zenon, <1>2, <1>e, <2>2, <2>3 DEF GoesOn
<1>3. ASSUME Solo(o), x = o PROVE Solo(o)'
  BY <1>3, <1>e, <1>f DEF Solo, Lives
<1>4. Handles' /\ Meetings'
  BY Zenon, <1>1, <1>u, <1>k, <1>2, <1>3, StepAt
<1> QED
  BY Zenon, <1>t, <1>l, <1>4 DEF IInv

\* A waiter that was resumed takes the mutex again.
LEMMA ReacquireInv == ASSUME IInv, NEW x \in Actor, Reacquire(x) PROVE IInv'
<1> SUFFICES ASSUME TypeOK, Lives, Handles, Meetings PROVE IInv'
  BY Zenon DEF IInv
<1>1. PICK o \in UT : o = O(x) /\ (x \in UT => x = o) /\ (x \in Creators => tgt[x] = o)
  BY Zenon, Works DEF Reacquire
<1>e. /\ pc[x] = "reacquire" /\ joinMtx[o] = NULL
      /\ joinMtx' = [joinMtx EXCEPT ![o] = x] /\ pc' = [pc EXCEPT ![x] = "release"]
      /\ UNCHANGED <<joinWait, afterJoin, life, cache, total, jState, tgt, woken>>
  BY Zenon, <1>1 DEF Reacquire, SetMtx, Goto, memVars
<1>f. /\ pc'[x] = "release" /\ \A y \in Actor : y # x => pc'[y] = pc[y]
      /\ joinMtx'[o] = x /\ \A v \in UT : v # o => joinMtx'[v] = joinMtx[v]
  BY Zenon, <1>e, Domains
<1>t. TypeOK'
  BY Zenon, <1>e DEF TypeOK, Joining
<1>l. Lives'
  BY Zenon, <1>e, <1>f, Kinds, LivesKept
<1>u. \A v \in UT : v # o => Untouched(v)
  BY Zenon, <1>1, <1>e, <1>f, Kinds DEF Untouched
<1>k. \A q \in Creators : tgt[q] # o => Kept(q)
  BY Zenon, <1>1, <1>e, <1>f, Kinds DEF Kept
<1>2. ASSUME NEW p \in Creators, tgt[p] = o, Meeting(p, o), Handle(p), x = p \/ x = o
      PROVE  GoesOn(p, o)
  <2>1. /\ pc'[p] = IF x = p THEN "release" ELSE pc[p]
        /\ pc'[o] = IF x = p THEN pc[o] ELSE "release"
    BY Zenon, <1>2, <1>f, Kinds
  <2>2. Meeting(p, o)'
    BY SMTT(30), <1>2, <1>e, <1>f, <2>1, Kinds DEF Meeting, Owned, Detaching
  <2>3. Handle(p)'
    BY SMTT(30), <1>2, <1>e, <2>1, Kinds DEF Handle, Joining, Detaching
  <2> QED
    BY Zenon, <1>2, <1>e, <2>2, <2>3 DEF GoesOn
<1>3. ASSUME Solo(o), x = o PROVE Solo(o)'
  BY SMTT(30), <1>3, <1>e, <1>f DEF Solo, Lives
<1>4. Handles' /\ Meetings'
  BY Zenon, <1>1, <1>u, <1>k, <1>2, <1>3, StepAt
<1> QED
  BY Zenon, <1>t, <1>l, <1>4 DEF IInv

\* The joiner still owes V(); the uThread that ends is done.
LEMMA ReleaseInv == ASSUME IInv, NEW x \in Actor, Release(x) PROVE IInv'
<1> SUFFICES ASSUME TypeOK, Lives, Handles, Meetings PROVE IInv'
  BY Zenon DEF IInv
<1>1. PICK o \in UT : o = O(x) /\ (x \in UT => x = o) /\ (x \in Creators => tgt[x] = o)
  BY Zenon, Works DEF Release
<1>e. /\ pc[x] = "release" /\ joinMtx' = [joinMtx EXCEPT ![o] = NULL]
      /\ pc' = [pc EXCEPT ![x] = IF x \in UT THEN "terminated" ELSE "V"]
      /\ UNCHANGED <<joinWait, afterJoin, life, cache, total, jState, tgt, woken>>
  BY Zenon, <1>1 DEF Release, SetMtx, Goto, AfterWait, memVars
<1>f. /\ pc'[x] = IF x \in UT THEN "terminated" ELSE "V"
      /\ \A y \in Actor : y # x => pc'[y] = pc[y]
      /\ joinMtx'[o] = NULL /\ \A v \in UT : v # o => joinMtx'[v] = joinMtx[v]
  BY Zenon, <1>e, Domains
<1>t. TypeOK'
  BY Zenon, <1>e DEF TypeOK, Joining
<1>l. Lives'
  BY <1>e, <1>f, Kinds, LivesKept
<1>u. \A v \in UT : v # o => Untouched(v)
  BY Zenon, <1>1, <1>e, <1>f, Kinds DEF Untouched
<1>k. \A q \in Creators : tgt[q] # o => Kept(q)
  BY Zenon, <1>1, <1>e, <1>f, Kinds DEF Kept
<1>2. ASSUME NEW p \in Creators, tgt[p] = o, Meeting(p, o), Handle(p), x = p \/ x = o
      PROVE  GoesOn(p, o)
  <2>1. /\ pc'[p] = IF x = p THEN "V" ELSE pc[p]
        /\ pc'[o] = IF x = p THEN pc[o] ELSE "terminated"
    BY ZenonT(30), <1>2, <1>f, Kinds
  <2>2. Meeting(p, o)'
    BY SMTT(30), <1>2, <1>e, <1>f, <2>1, Kinds DEF Meeting, Owned, Detaching
  <2>3. Handle(p)'
    BY SMTT(30), <1>2, <1>e, <2>1, Kinds DEF Handle, Joining, Detaching
  <2> QED
    BY Zenon, <1>2, <1>e, <2>2, <2>3 DEF GoesOn
<1>3. ASSUME Solo(o), x = o PROVE Solo(o)'
  BY SMTT(30), <1>3, <1>e, <1>f DEF Solo, Lives
<1>4. Handles' /\ Meetings'
  BY Zenon, <1>1, <1>u, <1>k, <1>2, <1>3, StepAt
<1> QED
  BY Zenon, <1>t, <1>l, <1>4 DEF IInv

\* V(): the joiner has done with the object and leaves it a token.
LEMMA VInv == ASSUME IInv, NEW x \in Actor, V(x) PROVE IInv'
<1> SUFFICES ASSUME TypeOK, Lives, Handles, Meetings PROVE IInv'
  BY Zenon DEF IInv
<1>1. PICK o \in UT : o = O(x) /\ (x \in UT => x = o) /\ (x \in Creators => tgt[x] = o)
  BY Zenon, Works DEF V
<1>2. x \in Creators /\ Meeting(x, o) /\ Handle(x)
  <2>1. pc[x] = "V"
    BY Zenon DEF V
  <2>2. x # o
    <3>1. \A p \in Creators : tgt[p] = o => pc[o] # "V"
      BY SMTT(30), Kinds DEF Meetings, Meeting
    <3>2. (\A p \in Creators : tgt[p] # o) => pc[o] # "V"
      BY DEF Meetings, Solo, Lives
    <3> QED
      BY Zenon, <2>1, <3>1, <3>2
  <2> QED
    BY Zenon, <1>1, <2>2, Kinds DEF Meetings, Handles
<1>e. /\ pc[x] = "V" /\ afterJoin' = [afterJoin EXCEPT ![o] = afterJoin[o] + 1]
      /\ pc' = [pc EXCEPT ![x] = "idle"]
      /\ tgt' = [q \in Creators |-> IF q = x THEN NULL ELSE tgt[q]]
      /\ UNCHANGED <<joinMtx, joinWait, life, cache, total, jState, woken>>
  BY Zenon, <1>1, <1>2, Kinds DEF V, Post, Goto, Forget, memVars
<1>v. pc[o] = "P" /\ joinWait[o] = <<>> /\ joinMtx[o] = NULL /\ afterJoin[o] = 0
  BY Zenon, <1>2, <1>e DEF Meeting, Owned
<1>f. /\ pc'[x] = "idle" /\ tgt'[x] = NULL /\ afterJoin'[o] = 1
      /\ \A y \in Actor : y # x => pc'[y] = pc[y]
      /\ \A q \in Creators : q # x => tgt'[q] = tgt[q]
      /\ \A v \in UT : v # o => afterJoin'[v] = afterJoin[v]
  <2>1. afterJoin[o] + 1 = 1
    BY <1>v
  <2> QED
    BY Zenon, <1>2, <1>e, <2>1, Domains
<1>t. TypeOK'
  <2>1. afterJoin' \in [UT -> 0 .. 1]
    BY <1>e, <1>v DEF TypeOK
  <2>2. tgt' \in [Creators -> UT \cup {NULL}]
    BY Zenon, <1>e DEF TypeOK
  <2> QED
    BY Zenon, <1>e, <2>1, <2>2 DEF TypeOK
<1>l. Lives'
  BY Zenon, <1>2, <1>e, <1>f, Kinds, LivesKept
<1>u. \A v \in UT : v # o => Untouched(v)
  BY Zenon, <1>2, <1>e, <1>f, Kinds DEF Untouched
<1>k. \A q \in Creators : q # x => Kept(q)
  BY Zenon, <1>2, <1>e, <1>f, Kinds DEF Kept
<1>3. GoesOn(x, o)
  <2>1. Solo(o)'
    BY Zenon, <1>2, <1>e, <1>v, <1>f, Kinds DEF Solo
  <2>2. Handle(x)'
    BY Zenon, <1>f DEF Handle, Detaching
  <2> QED
    BY Zenon, <1>f, <2>1, <2>2 DEF GoesOn
<1>4. Handles' /\ Meetings'
  BY Zenon, <1>1, <1>2, <1>u, <1>k, <1>3, PairStep
<1> QED
  BY Zenon, <1>t, <1>l, <1>4 DEF IInv

\* The side that comes first waits.
LEMMA WaitFirstInv ==
  ASSUME IInv, NEW x \in Actor, WaitOrSignal(x), joinWait[O(x)] = <<>>
  PROVE  IInv'
<1> SUFFICES ASSUME TypeOK, Lives, Handles, Meetings PROVE IInv'
  BY Zenon DEF IInv
<1>1. PICK o \in UT : o = O(x) /\ (x \in UT => x = o) /\ (x \in Creators => tgt[x] = o)
  BY Zenon, Works DEF WaitOrSignal
<1>e. /\ pc[x] = "test" /\ joinWait[o] = <<>> /\ joinWait' = [joinWait EXCEPT ![o] = <<x>>]
      /\ joinMtx' = [joinMtx EXCEPT ![o] = NULL] /\ pc' = [pc EXCEPT ![x] = "cv"]
      /\ UNCHANGED <<afterJoin, life, cache, total, jState, tgt, woken>>
  BY Zenon, <1>1 DEF WaitOrSignal, SetMtx, Goto, memVars
<1>f. /\ pc'[x] = "cv" /\ \A y \in Actor : y # x => pc'[y] = pc[y]
      /\ joinMtx'[o] = NULL /\ \A v \in UT : v # o => joinMtx'[v] = joinMtx[v]
      /\ joinWait'[o] = <<x>> /\ \A v \in UT : v # o => joinWait'[v] = joinWait[v]
  BY Zenon, <1>e, Domains
<1>t. TypeOK'
  <2>1. <<x>> \in Seq(Actor)
    OBVIOUS
  <2> QED
    BY Zenon, <1>e, <2>1 DEF TypeOK, Joining
<1>l. Lives'
  BY Zenon, <1>e, <1>f, Kinds, LivesKept
<1>u. \A v \in UT : v # o => Untouched(v)
  BY Zenon, <1>1, <1>e, <1>f, Kinds DEF Untouched
<1>k. \A q \in Creators : tgt[q] # o => Kept(q)
  BY Zenon, <1>1, <1>e, <1>f, Kinds DEF Kept
<1>2. ASSUME NEW p \in Creators, tgt[p] = o, Meeting(p, o), Handle(p), x = p \/ x = o
      PROVE  GoesOn(p, o)
  <2>1. /\ pc'[p] = IF x = p THEN "cv" ELSE pc[p]
        /\ pc'[o] = IF x = p THEN pc[o] ELSE "cv"
    BY ZenonT(30), <1>2, <1>f, Kinds
  <2>2. Meeting(p, o)'
    BY SMTT(30), <1>2, <1>e, <1>f, <2>1, Kinds DEF Meeting, Owned, Detaching
  <2>3. Handle(p)'
    BY SMTT(30), <1>2, <1>e, <2>1, Kinds DEF Handle, Joining, Detaching
  <2> QED
    BY Zenon, <1>2, <1>e, <2>2, <2>3 DEF GoesOn
<1>3. ASSUME Solo(o), x = o PROVE Solo(o)'
  BY <1>3, <1>e, <1>f DEF Solo, Lives
<1>4. Handles' /\ Meetings'
  BY Zenon, <1>1, <1>u, <1>k, <1>2, <1>3, StepAt
<1> QED
  BY Zenon, <1>t, <1>l, <1>4 DEF IInv

\* The side that comes second takes the other one out of the condition's queue.
LEMMA SignalSecondInv ==
  ASSUME IInv, NEW x \in Actor, WaitOrSignal(x), joinWait[O(x)] # <<>>
  PROVE  IInv'
<1> SUFFICES ASSUME TypeOK, Lives, Handles, Meetings PROVE IInv'
  BY Zenon DEF IInv
<1>1. PICK o \in UT : o = O(x) /\ (x \in UT => x = o) /\ (x \in Creators => tgt[x] = o)
  BY Zenon, Works DEF WaitOrSignal
<1>0. pc[x] = "test" /\ joinWait[o] # <<>>
  BY Zenon, <1>1 DEF WaitOrSignal
<1>p. PICK p \in Creators : tgt[p] = o /\ (x = p \/ x = o)
  <2>1. ASSUME x = o, \A q \in Creators : tgt[q] # o PROVE FALSE
    <3>1. Solo(o)
      BY Zenon, <2>1 DEF Meetings
    <3> QED
      BY Zenon, <1>0, <2>1, <3>1 DEF Solo, Lives
  <2> QED
    BY Zenon, <1>1, <2>1, Kinds
<1>m. tgt[p] = o /\ Meeting(p, o) /\ Handle(p) /\ p # o
  BY Zenon, <1>p, Kinds DEF Meetings, Handles
<1>w. PICK w \in Actor : joinWait[o] = <<w>> /\ w = IF x = p THEN o ELSE p
  BY <1>0, <1>p, <1>m, Kinds DEF Meeting
<1>e. /\ joinWait' = [joinWait EXCEPT ![o] = <<>>] /\ woken' = [woken EXCEPT ![x] = w]
      /\ joinMtx' = [joinMtx EXCEPT ![o] = NULL] /\ pc' = [pc EXCEPT ![x] = "resume"]
      /\ UNCHANGED <<afterJoin, life, cache, total, jState, tgt>>
  <2>1. Head(joinWait[o]) = w /\ Tail(joinWait[o]) = <<>>
    BY <1>w
  <2> QED
    BY Zenon, <1>0, <1>1, <2>1 DEF WaitOrSignal, TakeWaiter, SetMtx, Goto, memVars
<1>f. /\ pc'[x] = "resume" /\ \A y \in Actor : y # x => pc'[y] = pc[y]
      /\ joinMtx'[o] = NULL /\ \A v \in UT : v # o => joinMtx'[v] = joinMtx[v]
      /\ joinWait'[o] = <<>> /\ \A v \in UT : v # o => joinWait'[v] = joinWait[v]
      /\ woken'[x] = w /\ \A y \in Actor : y # x => woken'[y] = woken[y]
  BY Zenon, <1>e, Domains
<1>t. TypeOK'
  <2>1. <<>> \in Seq(Actor)
    OBVIOUS
  <2> QED
    BY Zenon, <1>e, <2>1 DEF TypeOK, Joining
<1>l. Lives'
  BY Zenon, <1>0, <1>e, <1>f, Kinds, LivesKept
<1>u. \A v \in UT : v # o => Untouched(v)
  BY Zenon, <1>1, <1>e, <1>f, Kinds DEF Untouched
<1>k. \A q \in Creators : q # p => Kept(q)
  BY ZenonT(30), <1>p, <1>e, <1>f, Kinds DEF Kept
<1>2. GoesOn(p, o)
  <2>1. /\ pc'[p] = IF x = p THEN "resume" ELSE pc[p]
        /\ pc'[o] = IF x = p THEN pc[o] ELSE "resume"
    BY Zenon, <1>p, <1>m, <1>f, Kinds
  <2>2. Meeting(p, o)'
    BY SMTT(30), <1>0, <1>p, <1>m, <1>w, <1>e, <1>f, <2>1 DEF Meeting, Owned, Detaching
  <2>3. Handle(p)'
    BY <1>0, <1>m, <1>e, <2>1 DEF Handle, Joining, Detaching
  <2> QED
    BY Zenon, <1>m, <1>e, <2>2, <2>3 DEF GoesOn
<1>3. Handles' /\ Meetings'
  BY Zenon, <1>m, <1>u, <1>k, <1>2, PairStep
<1> QED
  BY Zenon, <1>t, <1>l, <1>3 DEF IInv

\* The joiner that came second resumes the uThread that ends, and returns.
LEMMA JoinerResumesInv == ASSUME IInv, NEW p \in Creators, ResumeWaiter(p) PROVE IInv'
<1> SUFFICES ASSUME TypeOK, Lives, Handles, Meetings PROVE IInv'
  BY Zenon DEF IInv
<1>1. PICK o \in UT : tgt[p] = o /\ Meeting(p, o) /\ Handle(p)
  BY Zenon, Pointed DEF ResumeWaiter
<1>w. pc[p] = "resume" /\ woken[p] = o /\ pc[o] = "cv" /\ joinWait[o] = <<>> /\ joinMtx[o] = NULL
      /\ afterJoin[o] = 0 /\ o # p
  BY Zenon, <1>1, Kinds DEF ResumeWaiter, Meeting
<1>e. /\ pc' = [pc EXCEPT ![o] = "reacquire", ![p] = "idle"] /\ woken' = [woken EXCEPT ![p] = NULL]
      /\ tgt' = [q \in Creators |-> IF q = p THEN NULL ELSE tgt[q]]
      /\ UNCHANGED <<joinMtx, joinWait, afterJoin, life, cache, total, jState>>
  BY Zenon, <1>w, Kinds DEF ResumeWaiter, AfterSignal, Forget, syncVars, memVars
<1>f. /\ pc'[p] = "idle" /\ pc'[o] = "reacquire" /\ tgt'[p] = NULL
      /\ \A y \in Actor : y # p /\ y # o => pc'[y] = pc[y]
      /\ \A y \in Actor : y # p => woken'[y] = woken[y]
      /\ \A q \in Creators : q # p => tgt'[q] = tgt[q]
  BY Zenon, <1>w, <1>e, Domains, Kinds
<1>t. TypeOK'
  BY Zenon, <1>e DEF TypeOK, Joining
<1>l. Lives'
  BY Zenon, <1>w, <1>e, <1>f, Kinds, LivesKept
<1>u. \A v \in UT : v # o => Untouched(v)
  BY Zenon, <1>e, <1>f, Kinds DEF Untouched
<1>k. \A q \in Creators : q # p => Kept(q)
  BY Zenon, <1>1, <1>e, <1>f, Kinds DEF Kept
<1>2. GoesOn(p, o)
  <2>1. Solo(o)'
    BY Zenon, <1>w, <1>e, <1>f DEF Solo
  <2>2. Handle(p)'
    BY Zenon, <1>f DEF Handle, Detaching
  <2> QED
    BY Zenon, <1>f, <2>1, <2>2 DEF GoesOn
<1>3. Handles' /\ Meetings'
  BY Zenon, <1>1, <1>u, <1>k, <1>2, PairStep
<1> QED
  BY Zenon, <1>t, <1>l, <1>3 DEF IInv

\* The uThread that ends resumes its joiner, and waits for its token.
LEMMA EnderResumesInv == ASSUME IInv, NEW o \in UT, ResumeWaiter(o) PROVE IInv'
<1> SUFFICES ASSUME TypeOK, Lives, Handles, Meetings PROVE IInv'
  BY Zenon DEF IInv
<1>0. pc[o] = "resume"
  BY Zenon DEF ResumeWaiter
<1>1. PICK p \in Creators : tgt[p] = o
  BY Zenon, <1>0 DEF Meetings, Solo, Lives
<1>2. Meeting(p, o) /\ Handle(p) /\ p # o
  BY Zenon, <1>1, Kinds DEF Meetings, Handles
<1>w. woken[o] = p /\ pc[p] = "cv" /\ joinWait[o] = <<>> /\ joinMtx[o] = NULL /\ afterJoin[o] = 0
  BY Zenon, <1>0, <1>2 DEF Meeting
<1>e. /\ pc' = [pc EXCEPT ![p] = "reacquire", ![o] = "P"] /\ woken' = [woken EXCEPT ![o] = NULL]
      /\ UNCHANGED <<joinMtx, joinWait, afterJoin, life, cache, total, jState>>
      /\ tgt' = [q \in Creators |-> IF q = o THEN NULL ELSE tgt[q]]
  BY Zenon, <1>w, Kinds DEF ResumeWaiter, AfterSignal, Forget, syncVars, memVars
<1>f. /\ pc'[o] = "P" /\ pc'[p] = "reacquire"
      /\ \A y \in Actor : y # p /\ y # o => pc'[y] = pc[y]
      /\ \A y \in Actor : y # o => woken'[y] = woken[y]
      /\ \A q \in Creators : tgt'[q] = tgt[q]
  BY Zenon, <1>2, <1>e, Domains, Kinds
<1>t. TypeOK'
  BY Zenon, <1>e DEF TypeOK, Joining
<1>l. Lives'
  BY Zenon, <1>0, <1>e, <1>f, Kinds, LivesKept
<1>u. \A v \in UT : v # o => Untouched(v)
  BY Zenon, <1>e, <1>f, Kinds DEF Untouched
<1>k. \A q \in Creators : q # p => Kept(q)
  BY Zenon, <1>1, <1>e, <1>f, Kinds DEF Kept
<1>3. GoesOn(p, o)
  <2>1. Meeting(p, o)'
    BY Zenon, <1>w, <1>e, <1>f DEF Meeting, Owned
  <2>2. Handle(p)'
    BY SMTT(30), <1>1, <1>2, <1>w, <1>e, <1>f DEF Handle, Joining, Detaching
  <2> QED
    BY Zenon, <1>1, <1>f, <2>1, <2>2 DEF GoesOn
<1>4. Handles' /\ Meetings'
  BY Zenon, <1>1, <1>u, <1>k, <1>3, PairStep
<1> QED
  BY Zenon, <1>t, <1>l, <1>4 DEF IInv

-----------------------------------------------------------------------------
(* terminate, join and detach *)

\* A detached uThread ends at once, another one goes to meet its joiner.
LEMMA TerminateInv == ASSUME IInv, NEW o \in UT, Terminate(o) PROVE IInv'
<1> SUFFICES ASSUME TypeOK, Lives, Handles, Meetings PROVE IInv'
  BY Zenon DEF IInv
<1>e. /\ pc[o] = "body"
      /\ pc' = [pc EXCEPT ![o] = IF jState[o] = "DETACHED" THEN "terminated" ELSE "acquire"]
      /\ UNCHANGED <<joinMtx, joinWait, afterJoin, life, cache, total, jState, tgt, woken>>
  BY Zenon DEF Terminate, Goto, syncVars, memVars
<1>f. /\ pc'[o] = IF jState[o] = "DETACHED" THEN "terminated" ELSE "acquire"
      /\ \A y \in Actor : y # o => pc'[y] = pc[y]
  BY Zenon, <1>e, Domains, Kinds
<1>t. TypeOK'
  BY Zenon, <1>e DEF TypeOK, Joining
<1>l. Lives'
  <2>1. pc'[o] # "none"
    BY Zenon, <1>f
  <2> QED
    BY Zenon, <1>e, <1>f, <2>1, Kinds, LivesKept
<1>u. \A v \in UT : v # o => Untouched(v)
  BY Zenon, <1>e, <1>f, Kinds DEF Untouched
<1>k. \A q \in Creators : Kept(q)
  BY Zenon, <1>e, <1>f, Kinds DEF Kept
<1>2. ASSUME NEW p \in Creators, tgt[p] = o, Meeting(p, o), Handle(p) PROVE GoesOn(p, o)
  <2>1. pc'[p] = pc[p] /\ o # NULL
    BY Zenon, <1>f, Kinds
  <2>2. jState[o] = "DETACHED" => pc[p] \in Detaching
    BY SMTT(30), <1>2, <2>1 DEF Handle, Joining, Detaching
  <2>3. Meeting(p, o)'
    BY SMTT(30), <1>2, <1>e, <1>f, <2>1, <2>2, Kinds DEF Meeting, Owned, Detaching
  <2>4. Handle(p)'
    BY Zenon, <1>2, <1>e, <2>1 DEF Handle
  <2> QED
    BY Zenon, <1>2, <1>e, <2>3, <2>4 DEF GoesOn
<1>3. ASSUME Solo(o) PROVE Solo(o)'
  BY <1>3, <1>e, <1>f DEF Solo, Lives
<1>4. Handles' /\ Meetings'
  BY ZenonT(30), <1>u, <1>k, <1>2, <1>3, StepAt, Kinds
<1> QED
  BY Zenon, <1>t, <1>l, <1>4 DEF IInv

\* P(): the joiner has passed, its token is there, and the uThread ends.
LEMMA PInv == ASSUME IInv, NEW o \in UT, P(o) PROVE IInv'
<1> SUFFICES ASSUME TypeOK, Lives, Handles, Meetings PROVE IInv'
  BY Zenon DEF IInv
<1>0. pc[o] = "P" /\ afterJoin[o] \in 0 .. 1 /\ afterJoin[o] # 0
  BY DEF P, TypeOK
<1>1. Solo(o) /\ \A q \in Creators : tgt[q] # o
  <2>1. o # NULL
    BY Zenon, Kinds
  <2> QED
    BY ZenonT(30), <1>0, <2>1 DEF Meetings, Meeting
<1>s. joinWait[o] = <<>> /\ joinMtx[o] = NULL /\ afterJoin[o] = 1 /\ afterJoin[o] - 1 = 0
  BY <1>0, <1>1 DEF Solo, Lives
<1>e. /\ afterJoin' = [afterJoin EXCEPT ![o] = 0] /\ pc' = [pc EXCEPT ![o] = "terminated"]
      /\ UNCHANGED <<joinMtx, joinWait, life, cache, total, jState, tgt, woken>>
  BY Zenon, <1>s DEF P, Goto, memVars
<1>f. /\ pc'[o] = "terminated" /\ \A y \in Actor : y # o => pc'[y] = pc[y]
      /\ afterJoin'[o] = 0 /\ \A v \in UT : v # o => afterJoin'[v] = afterJoin[v]
  BY Zenon, <1>e, Domains, Kinds
<1>t. TypeOK'
  <2>1. 0 \in 0 .. 1
    OBVIOUS
  <2> QED
    BY Zenon, <1>e, <2>1 DEF TypeOK
<1>l. Lives'
  BY Zenon, <1>0, <1>e, <1>f, Kinds, LivesKept
<1>u. \A v \in UT : v # o => Untouched(v)
  BY Zenon, <1>e, <1>f, Kinds DEF Untouched
<1>k. \A q \in Creators : Kept(q)
  BY Zenon, <1>e, <1>f, Kinds DEF Kept
<1>2. Solo(o)'
  BY Zenon, <1>s, <1>e, <1>f DEF Solo
<1>3. Handles' /\ Meetings'
  BY Zenon, <1>1, <1>u, <1>k, <1>2, Single
<1> QED
  BY Zenon, <1>t, <1>l, <1>3 DEF IInv

\* join(): the creator goes to the meeting.
LEMMA JoinInv == ASSUME IInv, NEW p \in Creators, Join(p) PROVE IInv'
<1> SUFFICES ASSUME TypeOK, Lives, Handles, Meetings PROVE IInv'
  BY Zenon DEF IInv
<1>1. PICK o \in UT : tgt[p] = o /\ Meeting(p, o) /\ Handle(p)
  BY Zenon, Pointed DEF Join
<1>e. /\ pc[p] = "handle" /\ jState' = [jState EXCEPT ![o] = "JOINING"]
      /\ pc' = [pc EXCEPT ![p] = "acquire"]
      /\ UNCHANGED <<joinMtx, joinWait, afterJoin, life, cache, total, tgt, woken>>
  BY Zenon, <1>1 DEF Join, Goto, syncVars, memVars
<1>f. /\ pc'[p] = "acquire" /\ \A y \in Actor : y # p => pc'[y] = pc[y]
      /\ jState'[o] = "JOINING" /\ \A v \in UT : v # o => jState'[v] = jState[v]
  BY Zenon, <1>e, Domains, Kinds
<1>t. TypeOK'
  BY Zenon, <1>e DEF TypeOK, Joining
<1>l. Lives'
  BY Zenon, <1>e, <1>f, Kinds, LivesKept
<1>u. \A v \in UT : v # o => Untouched(v)
  BY Zenon, <1>e, <1>f, Kinds DEF Untouched
<1>k. \A q \in Creators : q # p => Kept(q)
  BY Zenon, <1>e, <1>f, Kinds DEF Kept
<1>2. GoesOn(p, o)
  <2>1. pc'[o] = pc[o] /\ p # o /\ o # NULL
    BY Zenon, <1>f, Kinds
  <2>2. Meeting(p, o)'
    BY SMTT(30), <1>1, <1>e, <1>f, <2>1, Kinds DEF Meeting, Owned, Detaching
  <2>3. Handle(p)'
    BY SMTT(30), <1>1, <1>e, <1>f, <2>1 DEF Handle, Joining, Detaching
  <2> QED
    BY Zenon, <1>1, <1>e, <2>2, <2>3 DEF GoesOn
<1>3. Handles' /\ Meetings'
  BY Zenon, <1>1, <1>u, <1>k, <1>2, PairStep
<1> QED
  BY Zenon, <1>t, <1>l, <1>3 DEF IInv

\* detach() marks the uThread, which may end from now on.
LEMMA DetachInv == ASSUME IInv, NEW p \in Creators, Detach(p) PROVE IInv'
<1> SUFFICES ASSUME TypeOK, Lives, Handles, Meetings PROVE IInv'
  BY Zenon DEF IInv
<1>1. PICK o \in UT : tgt[p] = o /\ Meeting(p, o) /\ Handle(p)
  BY Zenon, Pointed DEF Detach
<1>e. /\ pc[p] = "handle" /\ jState' = [jState EXCEPT ![o] = "DETACHED"]
      /\ pc' = [pc EXCEPT ![p] = "dAcquire"]
      /\ UNCHANGED <<joinMtx, joinWait, afterJoin, life, cache, total, tgt, woken>>
  BY Zenon, <1>1 DEF Detach, Goto, syncVars, memVars
<1>f. /\ pc'[p] = "dAcquire" /\ \A y \in Actor : y # p => pc'[y] = pc[y]
      /\ jState'[o] = "DETACHED" /\ \A v \in UT : v # o => jState'[v] = jState[v]
  BY Zenon, <1>e, Domains, Kinds
<1>t. TypeOK'
  BY Zenon, <1>e DEF TypeOK, Detaching
<1>l. Lives'
  BY Zenon, <1>e, <1>f, Kinds, LivesKept
<1>u. \A v \in UT : v # o => Untouched(v)
  BY Zenon, <1>e, <1>f, Kinds DEF Untouched
<1>k. \A q \in Creators : q # p => Kept(q)
  BY Zenon, <1>e, <1>f, Kinds DEF Kept
<1>2. GoesOn(p, o)
  <2>1. pc'[o] = pc[o] /\ p # o /\ o # NULL
    BY Zenon, <1>f, Kinds
  <2>2. Meeting(p, o)'
    BY SMTT(30), <1>1, <1>e, <1>f, <2>1, Kinds DEF Meeting, Owned, Detaching
  <2>3. Handle(p)'
    BY SMTT(30), <1>1, <1>e, <1>f, <2>1 DEF Handle, Joining, Detaching
  <2> QED
    BY Zenon, <1>1, <1>e, <2>2, <2>3 DEF GoesOn
<1>3. Handles' /\ Meetings'
  BY Zenon, <1>1, <1>u, <1>k, <1>2, PairStep
<1> QED
  BY Zenon, <1>t, <1>l, <1>3 DEF IInv

\* detach() takes the mutex, which the uThread may have released for good.
LEMMA DetachAcquireInv == ASSUME IInv, NEW p \in Creators, DetachAcquire(p) PROVE IInv'
<1> SUFFICES ASSUME TypeOK, Lives, Handles, Meetings PROVE IInv'
  BY Zenon DEF IInv
<1>1. PICK o \in UT : tgt[p] = o /\ Meeting(p, o) /\ Handle(p)
  BY Zenon, Pointed DEF DetachAcquire
<1>e. /\ pc[p] = "dAcquire" /\ joinMtx[o] = NULL /\ joinMtx' = [joinMtx EXCEPT ![o] = p]
      /\ pc' = [pc EXCEPT ![p] = "dTest"]
      /\ UNCHANGED <<joinWait, afterJoin, life, cache, total, jState, tgt, woken>>
  BY Zenon, <1>1 DEF DetachAcquire, SetMtx, Goto, memVars
<1>f. /\ pc'[p] = "dTest" /\ \A y \in Actor : y # p => pc'[y] = pc[y]
      /\ joinMtx'[o] = p /\ \A v \in UT : v # o => joinMtx'[v] = joinMtx[v]
  BY Zenon, <1>e, Domains, Kinds
<1>t. TypeOK'
  BY Zenon, <1>e, Kinds DEF TypeOK, Detaching
<1>l. Lives'
  BY Zenon, <1>e, <1>f, Kinds, LivesKept
<1>u. \A v \in UT : v # o => Untouched(v)
  BY Zenon, <1>e, <1>f, Kinds DEF Untouched
<1>k. \A q \in Creators : q # p => Kept(q)
  BY Zenon, <1>e, <1>f, Kinds DEF Kept
<1>2. GoesOn(p, o)
  <2>1. pc'[o] = pc[o] /\ p # o /\ o # NULL /\ p # NULL
    BY ZenonT(30), <1>f, Kinds
  <2>2. Meeting(p, o)'
    BY SMTT(30), <1>1, <1>e, <1>f, <2>1 DEF Meeting, Owned, Detaching
  <2>3. Handle(p)'
    BY SMTT(30), <1>1, <1>e, <1>f, <2>1 DEF Handle, Joining, Detaching
  <2> QED
    BY Zenon, <1>1, <1>e, <2>2, <2>3 DEF GoesOn
<1>3. Handles' /\ Meetings'
  BY Zenon, <1>1, <1>u, <1>k, <1>2, PairStep
<1> QED
  BY Zenon, <1>t, <1>l, <1>3 DEF IInv

\* Nobody waits: detach() goes on to release the mutex.
LEMMA DetachFreeInv ==
  ASSUME IInv, NEW p \in Creators, DetachTest(p), joinWait[tgt[p]] = <<>>
  PROVE  IInv'
<1> SUFFICES ASSUME TypeOK, Lives, Handles, Meetings PROVE IInv'
  BY Zenon DEF IInv
<1>1. PICK o \in UT : tgt[p] = o /\ Meeting(p, o) /\ Handle(p)
  BY Zenon, Pointed DEF DetachTest
<1>e. /\ pc[p] = "dTest" /\ joinWait[o] = <<>> /\ pc' = [pc EXCEPT ![p] = "dRelease"]
      /\ UNCHANGED <<joinMtx, joinWait, afterJoin, life, cache, total, jState, tgt, woken>>
  BY Zenon, <1>1 DEF DetachTest, Goto, memVars
<1>f. pc'[p] = "dRelease" /\ \A y \in Actor : y # p => pc'[y] = pc[y]
  BY Zenon, <1>e, Domains, Kinds
<1>t. TypeOK'
  BY Zenon, <1>e DEF TypeOK, Detaching
<1>l. Lives'
  BY Zenon, <1>e, <1>f, Kinds, LivesKept
<1>u. \A v \in UT : v # o => Untouched(v)
  BY Zenon, <1>e, <1>f, Kinds DEF Untouched
<1>k. \A q \in Creators : q # p => Kept(q)
  BY Zenon, <1>e, <1>f, Kinds DEF Kept
<1>2. GoesOn(p, o)
  <2>1. pc'[o] = pc[o] /\ p # o /\ o # NULL
    BY ZenonT(30), <1>f, Kinds
  <2>2. Meeting(p, o)'
    BY SMTT(30), <1>1, <1>e, <1>f, <2>1, Kinds DEF Meeting, Owned, Detaching
  <2>3. Handle(p)'
    BY <1>1, <1>e, <1>f, <2>1 DEF Handle, Joining, Detaching
  <2> QED
    BY Zenon, <1>1, <1>e, <2>2, <2>3 DEF GoesOn
<1>3. Handles' /\ Meetings'
  BY Zenon, <1>1, <1>u, <1>k, <1>2, PairStep
<1> QED
  BY Zenon, <1>t, <1>l, <1>3 DEF IInv

\* The uThread waits for its joiner: detach() takes it out instead.
LEMMA DetachSignalInv ==
  ASSUME IInv, NEW p \in Creators, DetachTest(p), joinWait[tgt[p]] # <<>>
  PROVE  IInv'
<1> SUFFICES ASSUME TypeOK, Lives, Handles, Meetings PROVE IInv'
  BY Zenon DEF IInv
<1>1. PICK o \in UT : tgt[p] = o /\ Meeting(p, o) /\ Handle(p)
  BY Zenon, Pointed DEF DetachTest
<1>w. pc[p] = "dTest" /\ pc[o] = "cv" /\ joinWait[o] = <<o>> /\ afterJoin[o] = 0
  BY Zenon, <1>1 DEF DetachTest, Meeting
<1>e. /\ joinWait' = [joinWait EXCEPT ![o] = <<>>] /\ woken' = [woken EXCEPT ![p] = o]
      /\ joinMtx' = [joinMtx EXCEPT ![o] = NULL] /\ pc' = [pc EXCEPT ![p] = "dResume"]
      /\ UNCHANGED <<afterJoin, life, cache, total, jState, tgt>>
  <2>1. O(p) = o /\ joinWait[o] # <<>>
    BY Zenon, <1>1, Kinds DEF O
  <2>2. Head(joinWait[o]) = o /\ Tail(joinWait[o]) = <<>>
    BY <1>w
  <2> QED
    BY Zenon, <1>1, <2>1, <2>2 DEF DetachTest, TakeWaiter, SetMtx, Goto, memVars
<1>f. /\ pc'[p] = "dResume" /\ \A y \in Actor : y # p => pc'[y] = pc[y]
      /\ joinMtx'[o] = NULL /\ \A v \in UT : v # o => joinMtx'[v] = joinMtx[v]
      /\ joinWait'[o] = <<>> /\ \A v \in UT : v # o => joinWait'[v] = joinWait[v]
      /\ woken'[p] = o /\ \A y \in Actor : y # p => woken'[y] = woken[y]
  BY Zenon, <1>e, Domains, Kinds
<1>t. TypeOK'
  <2>1. <<>> \in Seq(Actor)
    OBVIOUS
  <2> QED
    BY Zenon, <1>e, <2>1, Kinds DEF TypeOK, Detaching
<1>l. Lives'
  BY Zenon, <1>e, <1>f, Kinds, LivesKept
<1>u. \A v \in UT : v # o => Untouched(v)
  BY Zenon, <1>e, <1>f, Kinds DEF Untouched
<1>k. \A q \in Creators : q # p => Kept(q)
  BY Zenon, <1>e, <1>f, Kinds DEF Kept
<1>2. GoesOn(p, o)
  <2>1. pc'[o] = "cv" /\ p # o /\ o # NULL
    BY Zenon, <1>w, <1>f, Kinds
  <2>2. Meeting(p, o)'
    BY ZenonT(30), <1>w, <1>e, <1>f, <2>1 DEF Meeting, Detaching
  <2>3. Handle(p)'
    BY <1>1, <1>w, <1>e, <1>f, <2>1 DEF Handle, Joining, Detaching
  <2> QED
    BY Zenon, <1>1, <1>e, <2>2, <2>3 DEF GoesOn
<1>3. Handles' /\ Meetings'
  BY Zenon, <1>1, <1>u, <1>k, <1>2, PairStep
<1> QED
  BY Zenon, <1>t, <1>l, <1>3 DEF IInv

\* detach() resumes the uThread, which may take the mutex at once.
LEMMA DetachResumeInv == ASSUME IInv, NEW p \in Creators, DetachResume(p) PROVE IInv'
<1> SUFFICES ASSUME TypeOK, Lives, Handles, Meetings PROVE IInv'
  BY Zenon DEF IInv
<1>1. PICK o \in UT : tgt[p] = o /\ Meeting(p, o) /\ Handle(p)
  BY Zenon, Pointed DEF DetachResume
<1>w. /\ pc[p] = "dResume" /\ woken[p] = o /\ pc[o] = "cv" /\ joinWait[o] = <<>>
      /\ joinMtx[o] = NULL /\ afterJoin[o] = 0 /\ p # o /\ o # NULL
  BY Zenon, <1>1, Kinds DEF DetachResume, Meeting
<1>e. /\ pc' = [pc EXCEPT ![o] = "reacquire", ![p] = "dRelease"]
      /\ woken' = [woken EXCEPT ![p] = NULL]
      /\ UNCHANGED <<joinMtx, joinWait, afterJoin, life, cache, total, jState, tgt>>
  BY Zenon, <1>w DEF DetachResume, syncVars, memVars
<1>f. /\ pc'[p] = "dRelease" /\ pc'[o] = "reacquire"
      /\ \A y \in Actor : y # p /\ y # o => pc'[y] = pc[y]
      /\ \A y \in Actor : y # p => woken'[y] = woken[y]
  BY Zenon, <1>w, <1>e, Domains, Kinds
<1>t. TypeOK'
  BY Zenon, <1>e DEF TypeOK, Joining, Detaching
<1>l. Lives'
  BY Zenon, <1>w, <1>e, <1>f, Kinds, LivesKept
<1>u. \A v \in UT : v # o => Untouched(v)
  BY Zenon, <1>e, <1>f, Kinds DEF Untouched
<1>k. \A q \in Creators : q # p => Kept(q)
  BY Zenon, <1>1, <1>e, <1>f, Kinds DEF Kept
<1>2. GoesOn(p, o)
  <2>1. Meeting(p, o)'
    BY Zenon, <1>w, <1>e, <1>f DEF Meeting, Owned, Detaching
  <2>2. Handle(p)'
    BY SMTT(30), <1>1, <1>w, <1>e, <1>f DEF Handle, Joining, Detaching
  <2> QED
    BY Zenon, <1>1, <1>e, <2>1, <2>2 DEF GoesOn
<1>3. Handles' /\ Meetings'
  BY Zenon, <1>1, <1>u, <1>k, <1>2, PairStep
<1> QED
  BY Zenon, <1>t, <1>l, <1>3 DEF IInv

\* detach() releases the mutex, even if it is the uThread that holds it by now, and
\* has no pointer any more.
LEMMA DetachReleaseInv == ASSUME IInv, NEW p \in Creators, DetachRelease(p) PROVE IInv'
<1> SUFFICES ASSUME TypeOK, Lives, Handles, Meetings PROVE IInv'
  BY Zenon DEF IInv
<1>1. PICK o \in UT : tgt[p] = o /\ Meeting(p, o) /\ Handle(p)
  BY Zenon, Pointed DEF DetachRelease
<1>e. /\ pc[p] = "dRelease" /\ joinMtx' = [joinMtx EXCEPT ![o] = NULL]
      /\ pc' = [pc EXCEPT ![p] = "idle"]
      /\ tgt' = [q \in Creators |-> IF q = p THEN NULL ELSE tgt[q]]
      /\ UNCHANGED <<joinWait, afterJoin, life, cache, total, jState, woken>>
  BY Zenon, <1>1 DEF DetachRelease, SetMtx, Goto, Forget, memVars
<1>f. /\ pc'[p] = "idle" /\ \A y \in Actor : y # p => pc'[y] = pc[y]
      /\ joinMtx'[o] = NULL /\ \A v \in UT : v # o => joinMtx'[v] = joinMtx[v]
      /\ tgt'[p] = NULL /\ \A q \in Creators : q # p => tgt'[q] = tgt[q]
  BY Zenon, <1>e, Domains, Kinds
<1>t. TypeOK'
  BY Zenon, <1>e DEF TypeOK
<1>l. Lives'
  BY Zenon, <1>e, <1>f, Kinds, LivesKept
<1>u. \A v \in UT : v # o => Untouched(v)
  BY Zenon, <1>e, <1>f, Kinds DEF Untouched
<1>k. \A q \in Creators : q # p => Kept(q)
  BY Zenon, <1>e, <1>f, Kinds DEF Kept
<1>2. GoesOn(p, o)
  <2>1. Solo(o)'
    <3>1. pc'[o] = pc[o] /\ p # o
      BY Zenon, <1>f, Kinds
    <3> QED
      BY <1>1, <1>e, <1>f, <3>1 DEF Meeting, Solo, Lives
  <2>2. Handle(p)'
    BY Zenon, <1>f DEF Handle, Detaching
  <2> QED
    BY Zenon, <1>f, <2>1, <2>2 DEF GoesOn
<1>3. Handles' /\ Meetings'
  BY Zenon, <1>1, <1>u, <1>k, <1>2, PairStep
<1> QED
  BY Zenon, <1>t, <1>l, <1>3 DEF IInv

-----------------------------------------------------------------------------
(* create and destory *)

\* A uThread begins or ends to be counted by totalNumberofUTs.
LEMMA Counted ==
  ASSUME NEW S \in SUBSET UT, NEW u \in UT
  PROVE  /\ Cardinality(S) \in Nat
         /\ u \notin S => Cardinality(S \cup {u}) = Cardinality(S) + 1
         /\ u \in S => Cardinality(S \ {u}) = Cardinality(S) - 1
<1>1. IsFiniteSet(S)
  BY Zenon, SetsAssumption, FS_Subset
<1>2. Cardinality(S) \in Nat
  BY Zenon, <1>1, FS_CardinalityType
<1>3. u \notin S => Cardinality(S \cup {u}) = Cardinality(S) + 1
  BY Zenon, <1>1, FS_AddElement
<1>4. u \in S => Cardinality(S \ {u}) = Cardinality(S) - 1
  BY Zenon, <1>1, FS_RemoveElement
<1> QED
  BY Zenon, <1>2, <1>3, <1>4

\* The uThread is reset and cached, or freed; a detacher may still have its pointer.
LEMMA DestoryInv == ASSUME IInv, NEW o \in UT, Destory(o) PROVE IInv'
<1> DEFINE Keep == /\ Len(cache) < CacheSize /\ cache' = Append(cache, o)
                   /\ life' = [life EXCEPT ![o] = "cached"]
                   /\ jState' = [jState EXCEPT ![o] = "DETACHED"]
           Free == life' = [life EXCEPT ![o] = "none"] /\ cache' = cache /\ jState' = jState
<1> SUFFICES ASSUME TypeOK, Lives, Handles, Meetings PROVE IInv'
  BY Zenon DEF IInv
<1>e. /\ pc[o] = "terminated" /\ pc' = [pc EXCEPT ![o] = "none"] /\ total' = total - 1
      /\ Keep \/ Free
      /\ UNCHANGED <<joinMtx, joinWait, afterJoin, tgt, woken>>
  BY Zenon DEF Destory, Goto, syncVars
<1>f. /\ pc'[o] = "none" /\ \A y \in Actor : y # o => pc'[y] = pc[y]
      /\ life' \in [UT -> {"none", "live", "cached"}] /\ life'[o] # "live"
      /\ jState' \in [UT -> {"DETACHED", "JOINABLE", "JOINING"}]
      /\ \A v \in UT : v # o => life'[v] = life[v] /\ jState'[v] = jState[v]
      /\ jState'[o] = jState[o] \/ jState'[o] = "DETACHED"
  <2>1. pc'[o] = "none" /\ \A y \in Actor : y # o => pc'[y] = pc[y]
    BY Zenon, <1>e, Domains, Kinds
  <2>2. CASE Keep
    BY Zenon, <2>1, <2>2, Domains DEF TypeOK
  <2>3. CASE Free
    BY Zenon, <2>1, <2>3, Domains DEF TypeOK
  <2> QED
    BY Zenon, <1>e, <2>2, <2>3
<1>1. life[o] = "live" /\ o \notin Range(cache) /\ cache \in Seq(UT) /\ IsInjective(cache)
  BY Zenon, <1>e DEF Lives, TypeOK
<1>2. total' = Cardinality(Live')
  <2>1. Live' = Live \ {o} /\ o \in Live /\ Live \in SUBSET UT /\ total = Cardinality(Live)
    BY <1>f, <1>1 DEF Live, TypeOK
  <2> QED
    BY Zenon, <1>e, <2>1, Counted
<1>c. /\ cache' \in Seq(UT) /\ Len(cache') <= CacheSize /\ IsInjective(cache')
      /\ \A u \in UT : life'[u] = "cached" <=> u \in Range(cache')
  <2>1. CASE Keep
    <3>1. /\ cache' \in Seq(UT) /\ Range(cache') = Range(cache) \cup {o} /\ IsInjective(cache')
          /\ Len(cache') = Len(cache) + 1
      BY ZenonT(30), <1>1, <2>1, AppendRange
    <3>2. Len(cache') <= CacheSize
      BY <1>1, <2>1, <3>1, CacheAssumption
    <3>3. \A u \in UT : life'[u] = "cached" <=> u \in Range(cache')
      BY Zenon, <1>f, <2>1, <3>1, Domains DEF Lives
    <3> QED
      BY Zenon, <3>1, <3>2, <3>3
  <2>2. CASE Free
    <3>1. life'[o] = "none"
      BY Zenon, <2>2, Domains
    <3> QED
      BY Zenon, <1>f, <1>1, <2>2, <3>1 DEF TypeOK, Lives
  <2> QED
    BY Zenon, <1>e, <2>1, <2>2
<1>t. TypeOK'
  BY Zenon, <1>e, <1>f, <1>2, <1>c DEF TypeOK, Live
<1>l. Lives'
  BY Zenon, <1>f, <1>c, Kinds DEF Lives
<1>u. \A v \in UT : v # o => Untouched(v)
  BY Zenon, <1>e, <1>f, Kinds DEF Untouched
<1>k. \A q \in Creators : Kept(q)
  BY Zenon, <1>e, <1>f, Kinds DEF Kept
<1>3. ASSUME NEW p \in Creators, tgt[p] = o, Meeting(p, o), Handle(p) PROVE GoesOn(p, o)
  <2>1. pc'[p] = pc[p] /\ tgt'[p] = o /\ o # NULL
    BY Zenon, <1>3, <1>k, Kinds DEF Kept
  <2>2. pc[p] \in Detaching
    BY ZenonT(30), <1>3, <1>e DEF Meeting
  <2>3. Meeting(p, o)'
    BY SMTT(30), <1>3, <1>e, <1>f, <2>1, <2>2 DEF Meeting, Owned, Detaching
  <2>4. Handle(p)'
    BY SMTT(30), <1>3, <1>f, <2>1, <2>2 DEF Handle, Joining, Detaching
  <2> QED
    BY Zenon, <2>1, <2>2, <2>3, <2>4 DEF GoesOn
<1>4. ASSUME Solo(o) PROVE Solo(o)'
  BY ZenonT(30), <1>4, <1>1, <1>e, <1>f DEF Solo
<1>5. Handles' /\ Meetings'
  BY Zenon, <1>u, <1>k, <1>3, <1>4, StepAt, Kinds
<1> QED
  BY Zenon, <1>t, <1>l, <1>5 DEF IInv

\* A started uThread meets nobody yet, whether its creator keeps its pointer or not:
\* no detach() is still at work on it.
LEMMA StartInv ==
  ASSUME IInv, NEW p \in Creators, pc[p] = "idle", NEW o \in UT, life[o] # "live", Start(p, o),
         \A q \in Creators : tgt[q] # o,
         joinMtx' = [joinMtx EXCEPT ![o] = NULL], joinWait' = [joinWait EXCEPT ![o] = <<>>],
         afterJoin' = [afterJoin EXCEPT ![o] = 0], total' = total + 1, woken' = woken,
         cache' \in Seq(UT), Len(cache') <= CacheSize, IsInjective(cache'),
         \A u \in UT : u \in Range(cache') <=> life[u] = "cached" /\ u # o
  PROVE  IInv'
<1> SUFFICES ASSUME TypeOK, Lives, Handles, Meetings PROVE IInv'
  BY Zenon DEF IInv
<1>1. PICK joinable \in BOOLEAN :
        /\ jState' = [jState EXCEPT ![o] = IF joinable THEN "JOINABLE" ELSE "DETACHED"]
        /\ tgt' = IF joinable THEN [tgt EXCEPT ![p] = o] ELSE tgt
        /\ pc' = [pc EXCEPT ![o] = "body", ![p] = IF joinable THEN "handle" ELSE "idle"]
        /\ life' = [life EXCEPT ![o] = "live"]
  BY Zenon DEF Start
<1>2. tgt[p] = NULL /\ (\A q \in Creators : tgt[q] # o) /\ o # NULL /\ p # o
  BY Zenon, Kinds DEF Handles, Handle
<1>f. /\ pc'[o] = "body" /\ pc'[p] = IF joinable THEN "handle" ELSE "idle"
      /\ \A y \in Actor : y # p /\ y # o => pc'[y] = pc[y]
      /\ life'[o] = "live" /\ \A v \in UT : v # o => life'[v] = life[v]
      /\ jState'[o] = IF joinable THEN "JOINABLE" ELSE "DETACHED"
      /\ \A v \in UT : v # o => jState'[v] = jState[v]
      /\ joinMtx'[o] = NULL /\ \A v \in UT : v # o => joinMtx'[v] = joinMtx[v]
      /\ joinWait'[o] = <<>> /\ \A v \in UT : v # o => joinWait'[v] = joinWait[v]
      /\ afterJoin'[o] = 0 /\ \A v \in UT : v # o => afterJoin'[v] = afterJoin[v]
  BY Zenon, <1>1, <1>2, Domains, Kinds
<1>g. tgt'[p] = (IF joinable THEN o ELSE NULL) /\ \A q \in Creators : q # p => tgt'[q] = tgt[q]
  BY Zenon, <1>1, <1>2, Domains
<1>3. total' = Cardinality(Live')
  <2>1. Live' = Live \cup {o} /\ o \notin Live /\ Live \in SUBSET UT /\ total = Cardinality(Live)
    BY <1>f DEF Live, TypeOK
  <2> QED
    BY ZenonT(30), <2>1, Counted
<1>t. TypeOK'
  <2>1. tgt' \in [Creators -> UT \cup {NULL}]
    BY Zenon, <1>1 DEF TypeOK
  <2>2. /\ life' \in [UT -> {"none", "live", "cached"}]
        /\ jState' \in [UT -> {"DETACHED", "JOINABLE", "JOINING"}]
    BY Zenon, <1>1 DEF TypeOK
  <2>3. <<>> \in Seq(Actor) /\ 0 \in 0 .. 1
    OBVIOUS
  <2>4. pc' \in [Actor -> {"idle", "handle", "none", "body", "P", "terminated"} \cup Joining
                           \cup Detaching]
    BY Zenon, <1>1 DEF TypeOK
  <2> QED
    BY Zenon, <1>3, <2>1, <2>2, <2>3, <2>4 DEF TypeOK, Live
<1>l. Lives'
  <2>1. ASSUME NEW u \in UT PROVE life'[u] = "live" <=> pc'[u] # "none"
    <3>1. u # o => pc'[u] = pc[u] /\ life'[u] = life[u]
      BY Zenon, <1>f, Kinds
    <3>2. life[u] = "live" <=> pc[u] # "none"
      BY Zenon DEF Lives
    <3> QED
      BY Zenon, <1>f, <3>1, <3>2
  <2>2. ASSUME NEW u \in UT PROVE life'[u] = "cached" <=> u \in Range(cache')
    BY Zenon, <1>f
  <2> QED
    BY Zenon, <2>1, <2>2 DEF Lives
<1>u. \A v \in UT : v # o => Untouched(v)
  BY Zenon, <1>f, Kinds DEF Untouched
<1>k. \A q \in Creators : q # p => Kept(q) /\ tgt[q] # o
  BY Zenon, <1>2, <1>f, <1>g, Kinds DEF Kept
<1>4. GoesOn(p, o)
  <2>1. Handle(p)'
    BY <1>2, <1>f, <1>g DEF Handle, Joining, Detaching
  <2>2. CASE joinable
    <3>1. Meeting(p, o)'
      BY SMTT(30), <1>2, <1>f, <2>2, Kinds DEF Meeting, Detaching
    <3> QED
      BY ZenonT(30), <1>g, <2>1, <2>2, <3>1 DEF GoesOn
  <2>3. CASE ~joinable
    <3>1. Solo(o)'
      BY Zenon, <1>f DEF Solo
    <3> QED
      BY Zenon, <1>g, <2>1, <2>3, <3>1 DEF GoesOn
  <2> QED
    BY Zenon, <2>2, <2>3
<1>5. Handles' /\ Meetings'
  BY Zenon, <1>2, <1>u, <1>k, <1>4, Local
<1> QED
  BY Zenon, <1>t, <1>l, <1>5 DEF IInv

\* The constructor.
LEMMA CreateNewInv == ASSUME IInv, NEW p \in Creators, CreateNew(p), ~stale' PROVE IInv'
<1>1. PICK o \in UT : /\ pc[p] = "idle" /\ life[o] = "none" /\ Start(p, o)
                      /\ joinMtx' = [joinMtx EXCEPT ![o] = NULL]
                      /\ joinWait' = [joinWait EXCEPT ![o] = <<>>]
                      /\ afterJoin' = [afterJoin EXCEPT ![o] = 0]
                      /\ total' = total + 1 /\ cache' = cache /\ woken' = woken
  BY Zenon DEF CreateNew, SetMtx
<1>2. /\ cache \in Seq(UT) /\ Len(cache) <= CacheSize /\ IsInjective(cache) /\ life[o] # "live"
      /\ \A u \in UT : u \in Range(cache) <=> life[u] = "cached" /\ u # o
  BY Zenon, <1>1 DEF IInv, TypeOK, Lives
<1>3. \A q \in Creators : tgt[q] # o
  BY Zenon, <1>1 DEF Start
<1> QED
  BY Zenon, <1>1, <1>2, <1>3, StartInv

\* A cached uThread is as clean as a new one.
LEMMA CreateCachedInv == ASSUME IInv, NEW p \in Creators, CreateCached(p), ~stale' PROVE IInv'
<1>i. TypeOK /\ Lives /\ Handles /\ Meetings
  BY Zenon DEF IInv
<1>1. PICK o : o = cache[Len(cache)]
  OBVIOUS
<1>e. /\ pc[p] = "idle" /\ cache # <<>> /\ Start(p, o) /\ cache' = SubSeq(cache, 1, Len(cache) - 1)
      /\ total' = total + 1 /\ UNCHANGED <<joinMtx, joinWait, afterJoin, woken>>
  BY Zenon, <1>1 DEF CreateCached, CountCached, syncVars
<1>2. /\ cache' \in Seq(UT) /\ Len(cache') = Len(cache) - 1 /\ Len(cache) \in Nat
      /\ o \in UT /\ o \in Range(cache)
      /\ IsInjective(cache') /\ Range(cache') = Range(cache) \ {o} /\ Len(cache) <= CacheSize
  <2>1. cache \in Seq(UT) /\ Len(cache) <= CacheSize /\ IsInjective(cache)
    BY Zenon, <1>i DEF TypeOK, Lives
  <2> QED
    BY Zenon, <1>1, <1>e, <2>1, PopRange
<1>3. /\ life[o] = "cached" /\ life[o] # "live"
      /\ \A u \in UT : u \in Range(cache') <=> life[u] = "cached" /\ u # o
  BY Zenon, <1>i, <1>2 DEF Lives
<1>s. \A q \in Creators : tgt[q] # o
  BY Zenon, <1>e DEF Start
<1>4. joinMtx[o] = NULL /\ joinWait[o] = <<>> /\ afterJoin[o] = 0
  <2>1. Solo(o) /\ pc[o] = "none"
    BY Zenon, <1>i, <1>2, <1>3, <1>s DEF Meetings, Lives
  <2> QED
    BY Zenon, <1>3, <2>1 DEF Solo
<1>5. /\ joinMtx' = [joinMtx EXCEPT ![o] = NULL] /\ joinWait' = [joinWait EXCEPT ![o] = <<>>]
      /\ afterJoin' = [afterJoin EXCEPT ![o] = 0]
  BY SMTT(30), <1>i, <1>e, <1>2, <1>4 DEF TypeOK
<1>6. Len(cache') <= CacheSize
  BY <1>2, CacheAssumption
<1> QED
  BY Zenon, <1>e, <1>s, <1>2, <1>3, <1>5, <1>6, StartInv

-----------------------------------------------------------------------------
(* The invariant *)

\* Initially there is no uThread but the creators.
LEMMA InitInv == Init => IInv
<1> SUFFICES ASSUME Init PROVE IInv
  OBVIOUS
<1>1. /\ \A u \in UT : pc[u] = "none" /\ life[u] = "none"
      /\ \A p \in Creators : pc[p] = "idle" /\ tgt[p] = NULL
      /\ cache = <<>> /\ total = 0
  BY Kinds DEF Init
<1>2. TypeOK
  <2>1. Live = {} /\ total = Cardinality(Live)
    BY <1>1, FS_EmptySet DEF Live
  <2>2. pc \in [Actor -> {"idle", "handle", "none", "body", "P", "terminated"} \cup Joining
                          \cup Detaching]
    BY DEF Init
  <2>3. /\ life \in [UT -> {"none", "live", "cached"}]
        /\ jState \in [UT -> {"DETACHED", "JOINABLE", "JOINING"}]
        /\ joinMtx \in [UT -> Actor \cup {NULL}] /\ joinWait \in [UT -> Seq(Actor)]
        /\ afterJoin \in [UT -> 0 .. 1] /\ tgt \in [Creators -> UT \cup {NULL}]
        /\ woken \in [Actor -> Actor \cup {NULL}]
    BY DEF Init
  <2>4. cache \in Seq(UT) /\ Len(cache) <= CacheSize
    BY <1>1, CacheAssumption
  <2> QED
    BY Zenon, <2>1, <2>2, <2>3, <2>4 DEF TypeOK, Live
<1>3. Lives
  <2>1. Range(cache) = {} /\ IsInjective(cache)
    BY Zenon, <1>1, EmptyRange
  <2> QED
    BY Zenon, <1>1, <2>1 DEF Lives
<1>4. Handles
  BY Zenon, <1>1 DEF Handles, Handle, Detaching
<1>5. Meetings
  BY Zenon, <1>1 DEF Meetings, Solo
<1> QED
  BY Zenon, <1>2, <1>3, <1>4, <1>5 DEF IInv

\* Every step preserves the invariant, one case for each action, unless a detach()
\* comes too late with it.
LEMMA StepInv == (~stale => IInv) /\ [Next]_vars => (~stale => IInv)'
<1> SUFFICES ASSUME IInv, Step \/ UNCHANGED vars, ~stale' PROVE IInv'
  BY Zenon DEF Next, vars
<1>1. ASSUME NEW x \in Actor, Meet(x) PROVE IInv'
  <2>1. CASE ResumeWaiter(x)
    BY Zenon, <2>1, JoinerResumesInv, EnderResumesInv, Kinds
  <2>2. CASE WaitOrSignal(x)
    BY Zenon, <2>2, WaitFirstInv, SignalSecondInv
  <2> QED
    BY Zenon, <1>1, <2>1, <2>2, AcquireInv, ReacquireInv, ReleaseInv, VInv DEF Meet
<1>2. ASSUME NEW u \in UT, Ends(u) PROVE IInv'
  BY Zenon, <1>2, TerminateInv, PInv, DestoryInv DEF Ends
<1>3. ASSUME NEW p \in Creators, Detaches(p) PROVE IInv'
  <2>1. CASE DetachTest(p)
    BY Zenon, <2>1, DetachFreeInv, DetachSignalInv
  <2> QED
    BY Zenon, <1>3, <2>1, DetachAcquireInv, DetachResumeInv, DetachReleaseInv DEF Detaches
<1>4. CASE UNCHANGED vars
  <2>1. UNCHANGED <<joinMtx, joinWait, afterJoin, life, cache, total, jState, pc, tgt, woken>>
    BY Zenon, <1>4 DEF vars, syncVars, memVars
  <2>2. TypeOK /\ Lives /\ Handles /\ Meetings
    BY Zenon DEF IInv
  <2>3. TypeOK' /\ Lives'
    BY Zenon, <2>1, <2>2 DEF TypeOK, Lives
  <2>4. Handles'
    BY ZenonT(30), <2>1, <2>2 DEF Handles, Handle
  <2>5. ASSUME NEW p \in Creators, tgt[p] # NULL PROVE Meeting(p, tgt[p])'
    <3>1. \A v \in UT : Meeting(p, v) => Meeting(p, v)'
      BY Zenon, <2>1, MeetingKept DEF Untouched, Kept
    <3>2. tgt[p] \in UT /\ tgt'[p] = tgt[p] /\ Meeting(p, tgt[p])
      BY Zenon, <2>1, <2>2, <2>5, Domains DEF Meetings
    <3> QED
      BY Zenon, <3>1, <3>2
  <2>6. \A u \in UT : (\A p \in Creators : tgt'[p] # u) => Solo(u)'
    BY Zenon, <2>1, <2>2 DEF Meetings, Solo
  <2> QED
    BY Zenon, <2>1, <2>3, <2>4, <2>5, <2>6 DEF IInv, Meetings
<1> QED
  BY Zenon, <1>1, <1>2, <1>3, <1>4, CreateNewInv, CreateCachedInv, JoinInv, DetachInv DEF Step

-----------------------------------------------------------------------------
(* Theorems *)

\* The inductive invariant holds in every state that the program can reach before a
\* detach() comes too late.
THEOREM Invariance == Spec => [](~stale => IInv)
<1>1. Init => (~stale => IInv)
  BY Zenon, InitInv
<1> QED
  BY <1>1, StepInv, PTL DEF Spec

\* The counters and the memory agree, a uThread leaves the cache with its mutex
\* free, nobody waiting and no token, and every creator and the uThread it has the
\* pointer of are together in one of the states of their meeting.
THEOREM LifeConsistent == Spec => []Consistent
<1>1. (~stale => IInv) => Consistent
  <2> SUFFICES ASSUME IInv PROVE CleanRecycle
    BY Zenon DEF IInv, Consistent
  <2> SUFFICES ASSUME NEW u \in UT, life[u] = "cached", \A p \in Creators : tgt[p] # u
               PROVE  joinMtx[u] = NULL /\ joinWait[u] = <<>> /\ afterJoin[u] = 0
    BY Zenon DEF CleanRecycle
  <2>1. Solo(u) /\ pc[u] = "none"
    BY Zenon DEF IInv, Meetings, Lives
  <2> QED
    BY Zenon, <2>1 DEF Solo
<1> QED
  BY <1>1, Invariance, PTL

\* A joiner that still has to touch the mutex, the condition variable or the
\* semaphore of the uThread it joins finds it neither destroyed nor recycled, and so
\* does a detach() that resumes the uThread.
THEOREM JoinerTouchesLive == Spec => []TouchesLive
<1>1. (~stale => IInv) => TouchesLive
  <2> SUFFICES ASSUME IInv, NEW p \in Creators,
                      pc[p] \in {"acquire", "test", "cv", "reacquire", "release", "V", "dResume"}
               PROVE  life[tgt[p]] = "live"
    BY Zenon DEF TouchesLive
  <2>1. tgt[p] \in UT /\ Meeting(p, tgt[p])
    BY Zenon, Pointed DEF IInv
  <2>2. pc[tgt[p]] # "none"
    BY Zenon, <2>1 DEF Meeting, Detaching
  <2> QED
    BY Zenon, <2>1, <2>2 DEF IInv, Lives
<1> QED
  BY <1>1, Invariance, PTL

\* A creator loses its pointer in no other step than the ones that end its join or
\* its detach.
LEMMA PointerDropped ==
  ASSUME IInv, Step, NEW p \in Creators, tgt[p] # NULL, tgt'[p] = NULL
  PROVE  pc[p] \in {"resume", "V", "dRelease"}
<1>1. ASSUME NEW x \in Actor, Meet(x) PROVE pc[p] \in {"resume", "V", "dRelease"}
  <2>1. CASE ResumeWaiter(x) \/ V(x)
    <3>1. tgt' = [q \in Creators |-> IF q = x THEN NULL ELSE tgt[q]] /\ pc[x] \in {"resume", "V"}
      BY Zenon, <2>1 DEF ResumeWaiter, V, Forget
    <3> QED
      BY Zenon, <3>1
  <2> QED
    BY Zenon, <1>1, <2>1 DEF Meet, Acquire, WaitOrSignal, Reacquire, Release
<1>2. ASSUME NEW u \in UT, Ends(u) PROVE FALSE
  BY Zenon, <1>2 DEF Ends, Terminate, P, Destory
<1>3. ASSUME NEW q \in Creators, Detaches(q) PROVE pc[p] \in {"resume", "V", "dRelease"}
  <2>1. CASE DetachRelease(q)
    <3>1. tgt' = [r \in Creators |-> IF r = q THEN NULL ELSE tgt[r]] /\ pc[q] = "dRelease"
      BY Zenon, <2>1 DEF DetachRelease, Forget
    <3> QED
      BY Zenon, <3>1
  <2> QED
    BY Zenon, <1>3, <2>1 DEF Detaches, DetachAcquire, DetachTest, DetachResume
<1>4. ASSUME NEW q \in Creators, NEW u \in UT, Start(q, u) PROVE FALSE
  <2>1. DOMAIN tgt = Creators /\ u # NULL
    BY Zenon, Domains, Kinds DEF IInv
  <2> QED
    BY Zenon, <1>4, <2>1 DEF Start
<1>5. ASSUME NEW q \in Creators, CreateNew(q) \/ CreateCached(q) PROVE FALSE
  <2>1. cache # <<>> => cache[Len(cache)] \in UT
    <3>1. cache \in Seq(UT) /\ IsInjective(cache)
      BY Zenon DEF IInv, TypeOK, Lives
    <3> QED
      BY Zenon, <3>1, PopRange
  <2> QED
    BY Zenon, <1>4, <1>5, <2>1 DEF CreateNew, CreateCached
<1>6. ASSUME NEW q \in Creators, Join(q) \/ Detach(q) PROVE FALSE
  BY Zenon, <1>6 DEF Join, Detach
<1> QED
  BY Zenon, <1>1, <1>2, <1>3, <1>5, <1>6 DEF Step

\* join() returns only after the function of the joined uThread has returned.
THEOREM JoinReturnsAfterEnd == Spec => JoinAfterEnd
<1> DEFINE After == \A p \in Creators : tgt[p] # NULL /\ tgt'[p] = NULL /\ pc[p] # "dRelease"
                                          => pc[tgt[p]] \notin {"none", "body"}
<1>1. ASSUME ~stale => IInv, [Next]_vars PROVE [After]_vars
  <2> SUFFICES ASSUME IInv, Step, NEW p \in Creators, tgt[p] # NULL, tgt'[p] = NULL, pc[p] # "dRelease"
               PROVE  pc[tgt[p]] \notin {"none", "body"}
    BY Zenon, <1>1 DEF Next
  <2>1. Meeting(p, tgt[p])
    BY Zenon DEF IInv, Meetings
  <2>2. pc[p] \in {"resume", "V"}
    BY Zenon, PointerDropped
  <2> QED
    BY Zenon, <2>1, <2>2 DEF Meeting
<1>2. Spec => [](~stale => IInv) /\ [][Next]_vars
  BY Invariance, PTL DEF Spec
<1>3. Spec => [][After]_vars
  BY <1>1, <1>2, PTL
<1> QED
  BY Zenon, <1>3 DEF JoinAfterEnd
=============================================================================
