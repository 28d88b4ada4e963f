---------------------------- MODULE ContainerSpec ----------------------------
(***************************************************************************)
(* What the intrusive containers promise: a stack, a queue or a list is a   *)
(* sequence of elements, and an operation moves a run of elements between   *)
(* sequences, or between a sequence and the caller, keeping their order.    *)
(***************************************************************************)
EXTENDS Naturals, Sequences, FiniteSets, SequencesExt

CONSTANTS E,                       \* elements
          Stacks, Queues, Lists,   \* containers
          MaxCount                 \* bound on the counts that callers ask for

VARIABLES items,  \* the sequence in each container, its front first
          held,   \* the run of elements the caller holds
          moved   \* the count that the last operation reported

Containers == Stacks \cup Queues \cup Lists
Counts == 1..MaxCount
Smaller(n, m) == IF n < m THEN n ELSE m
Stored == UNION {Range(items[q]) : q \in Containers}

Init == items = [q \in Containers |-> <<>>] /\ held = <<>> /\ moved = 0

\* The caller comes with an element that is in no container, or drops one.
Bring(e) == held = <<>> /\ e \notin Stored /\ held' = <<e>> /\ UNCHANGED <<items, moved>>
Drop == Len(held) = 1 /\ held' = <<>> /\ UNCHANGED <<items, moved>>

PutFront(q) ==
  held # <<>> /\ items' = [items EXCEPT ![q] = held \o @] /\ held' = <<>> /\ UNCHANGED moved

PutBack(q) ==
  held # <<>> /\ items' = [items EXCEPT ![q] = @ \o held] /\ held' = <<>> /\ UNCHANGED moved

\* n elements from position i on, or as many as there are.
Get(q, i, n) ==
  LET k == Smaller(n, Len(items[q]) + 1 - i) IN
  /\ held = <<>> /\ i \in 1..Len(items[q])
  /\ held' = SubSeq(items[q], i, i + k - 1) /\ moved' = k
  /\ items' = [items EXCEPT ![q] = SubSeq(@, 1, i - 1) \o SubSeq(@, i + k, Len(@))]

\* The first n elements of q go to r: to its front if r is a stack, else to its back.
Move(q, r, n) ==
  LET k == Smaller(n, Len(items[q]))
      run == SubSeq(items[q], 1, k) IN
  /\ items[q] # <<>> /\ q # r /\ moved' = k /\ UNCHANGED held
  /\ items' = [items EXCEPT ![q] = SubSeq(@, k + 1, Len(@)), ![r] = IF r \in Stacks THEN run \o @ ELSE @ \o run]

\* All of q goes to r or to the caller, with no count.
MoveAll(q, r) ==
  /\ items[q] # <<>> /\ q # r /\ UNCHANGED <<held, moved>>
  /\ items' = [items EXCEPT ![q] = <<>>, ![r] = @ \o items[q]]

GetAll(q) ==
  held = <<>> /\ items[q] # <<>> /\ held' = items[q] /\ items' = [items EXCEPT ![q] = <<>>] /\ UNCHANGED moved

Next ==
  \/ Drop \/ \E e \in E : Bring(e)
  \/ \E q \in Stacks \cup Lists : PutFront(q)
  \/ \E q \in Queues \cup Lists : PutBack(q)
  \/ \E q \in Containers, n \in Counts : Get(q, 1, n)
  \/ \E q \in Lists, i \in 1..Cardinality(E), n \in Counts : Get(q, i, n)
  \/ \E q \in Queues : GetAll(q)
  \/ \E S \in {Stacks, Queues, Lists} : \E q, r \in S : \E n \in Counts : Move(q, r, n)
  \/ \E S \in {Queues, Lists} : \E q, r \in S : MoveAll(q, r)

Spec == Init /\ [][Next]_<<items, held, moved>>
=============================================================================
