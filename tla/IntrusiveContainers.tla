------------------------- MODULE IntrusiveContainers -------------------------
(***************************************************************************)
(* IntrusiveStack, IntrusiveQueue and IntrusiveList of                      *)
(* generic/IntrusiveContainers.h: containers whose links are inside the     *)
(* elements, pointer by pointer.  The caller keeps an element in at most    *)
(* one container, as every use in the library does.  What is shown is that  *)
(* they implement ContainerSpec and leave no stale link behind.             *)
(***************************************************************************)
EXTENDS Naturals, Sequences, FiniteSets, SequencesExt

CONSTANTS E, Stacks, Queues, Lists, MaxCount, NULL

VARIABLES mem,    \* the memory: next and prev of each Link, head and tail of each container
          held,   \* first and last of the run of elements the caller holds, or <<>>
          moved   \* the count that the last operation reported

vars == <<mem, held, moved>>
Counts == 1..MaxCount
Containers == Stacks \cup Queues \cup Lists
Links == E \cup Lists            \* a list stands for its anchor

Init == /\ mem = [next |-> [x \in Links |-> IF x \in Lists THEN x ELSE NULL],
                  prev |-> [x \in Links |-> IF x \in Lists THEN x ELSE NULL],
                  head |-> [q \in Stacks \cup Queues |-> NULL], tail |-> [q \in Queues |-> NULL]]
        /\ held = <<>> /\ moved = 0

\* The elements from x up to the link stop, following next.
RECURSIVE Follow(_, _, _, _)
Follow(m, x, stop, fuel) ==
  IF x = stop \/ x = NULL \/ fuel = 0 THEN <<>> ELSE <<x>> \o Follow(m, m.next[x], stop, fuel - 1)

Chain(m, x, stop) == Follow(m, x, stop, Cardinality(E) + 1)
Items(q) == IF q \in Lists THEN Chain(mem, mem.next[q], q) ELSE Chain(mem, mem.head[q], NULL)

\* Variant for mutation: the loop runs once too often.
LastOfOneMore(m, x, n, stop) == LET c == Chain(m, x, stop) IN IF n < Len(c) THEN c[n + 1] ELSE Last(c)

\* The loop of pop(count) and remove(first, count): the n-th element from x on, or
\* the last one, and the count it leaves.
LastOf(m, x, n, stop) == LET c == Chain(m, x, stop) IN IF n < Len(c) THEN c[n] ELSE Last(c)

CountOf(m, x, n, stop) == LET c == Chain(m, x, stop) IN IF n < Len(c) THEN n ELSE Len(c)

-----------------------------------------------------------------------------
(* Memory after an operation *)

StackPush(m, s, first, last) == [m EXCEPT !.next[last] = m.head[s], !.head[s] = first]

StackPop(m, s, last) == [m EXCEPT !.head[s] = m.next[last], !.next[last] = NULL]

QueuePush(m, q, first, last) ==
  IF m.head[q] = NULL THEN [m EXCEPT !.head[q] = first, !.tail[q] = last]
                      ELSE [m EXCEPT !.next[m.tail[q]] = first, !.tail[q] = last]

QueuePop(m, q, last) ==
  [m EXCEPT !.head[q] = m.next[last], !.next[last] = NULL,
            !.tail[q] = IF @ = last THEN NULL ELSE @]

\* removeAll, and the first half of transferAllFrom.
QueueClear(m, q) == [m EXCEPT !.next[m.tail[q]] = NULL, !.head[q] = NULL, !.tail[q] = NULL]

InsertBefore(m, n, e) ==
  [m EXCEPT !.next[m.prev[n]] = e, !.prev[e] = m.prev[n], !.prev[n] = e, !.next[e] = n]

InsertAfter(m, p, first, last) ==
  [m EXCEPT !.prev[m.next[p]] = last, !.next[last] = m.next[p], !.next[p] = first, !.prev[first] = p]

\* Variant for mutation: the removed run keeps its link to what was before it.
UnlinkKeepPrev(m, first, last) ==
  [m EXCEPT !.next[m.prev[first]] = m.next[last], !.prev[m.next[last]] = m.prev[first],
            !.next[last] = NULL]

\* remove(elem) with first = last, and remove(first, count).
Unlink(m, first, last) ==
  [m EXCEPT !.next[m.prev[first]] = m.next[last], !.prev[m.next[last]] = m.prev[first],
            !.prev[first] = NULL, !.next[last] = NULL]

ListClear(m, l) ==
  [m EXCEPT !.prev[m.next[l]] = NULL, !.next[m.prev[l]] = NULL, !.next[l] = l, !.prev[l] = l]

-----------------------------------------------------------------------------
(* Operations *)

Stored == UNION {Range(Items(q)) : q \in Containers}

Single == held # <<>> /\ held[1] = held[2]

Bring(e) == held = <<>> /\ e \notin Stored /\ held' = <<e, e>> /\ UNCHANGED <<mem, moved>>
Drop == Single /\ held' = <<>> /\ UNCHANGED <<mem, moved>>

\* The caller's run goes into a container, which makes the memory m.  A single
\* element goes into any; only a run that comes from a list has the prev links that
\* a list needs, and it goes back to a list.
FromList == held # <<>> /\ ~Single /\ mem.prev[mem.next[held[1]]] = held[1]
Give(m) == mem' = m /\ held' = <<>> /\ UNCHANGED moved

SPush(s) == held # <<>> /\ ~FromList /\ Give(StackPush(mem, s, held[1], held[2]))
QPush(q) == held # <<>> /\ ~FromList /\ Give(QueuePush(mem, q, held[1], held[2]))
LPushFront(l) == Single /\ Give(InsertBefore(mem, mem.next[l], held[1]))
LPushBack(l) == (Single \/ FromList) /\ Give(InsertAfter(mem, mem.prev[l], held[1], held[2]))

\* pop() is pop(count) with count 1.
SPop(s, n) ==
  LET last == LastOf(mem, mem.head[s], n, NULL) IN
  /\ held = <<>> /\ mem.head[s] # NULL /\ moved' = CountOf(mem, mem.head[s], n, NULL)
  /\ mem' = StackPop(mem, s, last) /\ held' = <<mem.head[s], last>>

STransfer(s, t, n) ==
  LET last == LastOf(mem, mem.head[s], n, NULL) IN
  /\ s # t /\ mem.head[s] # NULL /\ moved' = CountOf(mem, mem.head[s], n, NULL)
  /\ mem' = StackPush(StackPop(mem, s, last), t, mem.head[s], last) /\ UNCHANGED held

QPop(q, n) ==
  LET last == LastOf(mem, mem.head[q], n, NULL) IN
  /\ held = <<>> /\ mem.head[q] # NULL /\ moved' = CountOf(mem, mem.head[q], n, NULL)
  /\ mem' = QueuePop(mem, q, last) /\ held' = <<mem.head[q], last>>

QTransfer(q, r, n) ==
  LET last == LastOf(mem, mem.head[q], n, NULL) IN
  /\ q # r /\ mem.head[q] # NULL /\ moved' = CountOf(mem, mem.head[q], n, NULL)
  /\ mem' = QueuePush(QueuePop(mem, q, last), r, mem.head[q], last) /\ UNCHANGED held

QRemoveAll(q) == /\ held = <<>> /\ mem.head[q] # NULL /\ UNCHANGED moved
                 /\ held' = <<mem.head[q], mem.tail[q]>> /\ mem' = QueueClear(mem, q)

QTransferAll(q, r) ==
  /\ q # r /\ mem.head[q] # NULL /\ UNCHANGED <<held, moved>>
  /\ mem' = QueuePush(QueueClear(mem, q), r, mem.head[q], mem.tail[q])

\* remove of any element, pop_front, pop_back, and remove(first, count).
LRemove(l, first, n) ==
  LET last == LastOf(mem, first, n, l) IN
  /\ held = <<>> /\ first \in Range(Items(l)) /\ moved' = CountOf(mem, first, n, l)
  /\ mem' = Unlink(mem, first, last) /\ held' = <<first, last>>

LTransfer(l, k, n) ==
  LET first == mem.next[l]
      last == LastOf(mem, first, n, l) IN
  /\ l # k /\ first # l /\ moved' = CountOf(mem, first, n, l)
  /\ mem' = InsertAfter(Unlink(mem, first, last), mem.prev[k], first, last) /\ UNCHANGED held

LTransferAll(l, k) ==
  /\ l # k /\ mem.next[l] # l /\ UNCHANGED <<held, moved>>
  /\ mem' = InsertAfter(ListClear(mem, l), mem.prev[k], mem.next[l], mem.prev[l])

Next ==
  \/ Drop \/ \E e \in E : Bring(e)
  \/ \E s \in Stacks : SPush(s) \/ \E n \in Counts : SPop(s, n) \/ \E t \in Stacks : STransfer(s, t, n)
  \/ \E q \in Queues : \/ QPush(q) \/ QRemoveAll(q)
                       \/ \E n \in Counts : QPop(q, n) \/ \E r \in Queues : QTransfer(q, r, n)
                       \/ \E r \in Queues : QTransferAll(q, r)
  \/ \E l \in Lists : \/ LPushFront(l) \/ LPushBack(l)
                      \/ \E n \in Counts, first \in E : LRemove(l, first, n)
                      \/ \E n \in Counts, k \in Lists : LTransfer(l, k, n)
                      \/ \E k \in Lists : LTransferAll(l, k)

Spec == Init /\ [][Next]_vars

-----------------------------------------------------------------------------
(* Properties *)

Held == IF held = <<>> THEN <<>> ELSE Chain(mem, held[1], NULL)

Abstract == INSTANCE ContainerSpec
              WITH items <- [q \in Containers |-> Items(q)],
                   held <- Held

\* Following the links of a container gives a sequence, and each operation moves the
\* elements, in order and as many as it reports, that its abstract counterpart moves.
Implements == Abstract!Spec

\* No stale link: an element in no container has none, the run a caller holds ends
\* at its last element and, if it comes from a list, begins at its first (the
\* assertions of push and insert_after), a queue's tail is its last element, and a
\* list read backwards is the list read forwards.
WellLinked ==
  /\ \A e \in E \ (Stored \cup Range(Held)) : mem.next[e] = NULL /\ mem.prev[e] = NULL
  /\ held # <<>> => mem.prev[held[1]] = NULL /\ mem.next[held[2]] = NULL
  /\ \A q \in Queues : mem.tail[q] = IF Items(q) = <<>> THEN NULL ELSE Last(Items(q))
  /\ \A l \in Lists : LET c == <<l>> \o Items(l) \o <<l>> IN
       \A i \in 2..Len(c) : mem.prev[c[i]] = c[i - 1]
=============================================================================
