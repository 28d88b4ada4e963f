------------------------- MODULE Scheduler02_proofs -------------------------
(***************************************************************************)
(* TLAPS proofs about Scheduler02: types and control, the links of the     *)
(* queue, the place of every uThread, and the theorems.                    *)
(***************************************************************************)
EXTENDS Scheduler02, TLAPS

-----------------------------------------------------------------------------
(* Facts about the helpers.                                                *)

\* The links of a one-node chain: its next field is cleared.
LEMMA SingletonChain ==
  ASSUME NEW n \in Node, next \in [Node -> Node \cup {NULL}]
  PROVE  ChainLinks(<<n>>) = [next EXCEPT ![n] = NULL]
<1> DEFINE c == <<n>>
<1>1. Len(c) = 1 /\ c[1] = n
  BY Zenon
<1>2. \A m \in Node : (\E i \in 1 .. Len(c) : c[i] = m) <=> m = n
  BY <1>1
<1>3. (CHOOSE i \in 1 .. Len(c) : c[i] = n) = 1
  BY <1>1
<1>4. ASSUME NEW m \in Node
      PROVE  ChainLinks(c)[m] = [next EXCEPT ![n] = NULL][m]
  <2>1. CASE m = n
    BY Zenon, <1>1, <1>2, <1>3, <2>1 DEF ChainLinks
  <2>2. CASE m # n
    BY Zenon, <1>2, <2>2 DEF ChainLinks
  <2> QED BY Zenon, <2>1, <2>2
<1> QED BY Zenon, <1>4 DEF ChainLinks

\* The links of any chain without duplicates: inside the chain they follow
\* it and end with NULL, outside they are unchanged.
LEMMA ChainLinksProperties ==
  ASSUME next \in [Node -> Node \cup {NULL}],
         NEW c \in Seq(Node), c # <<>>,
         \A i, j \in 1 .. Len(c) : c[i] = c[j] => i = j
  PROVE  /\ ChainLinks(c) \in [Node -> Node \cup {NULL}]
         /\ \A i \in 1 .. Len(c) - 1 : ChainLinks(c)[c[i]] = c[i + 1]
         /\ ChainLinks(c)[c[Len(c)]] = NULL
         /\ \A n \in Node : (\A i \in 1 .. Len(c) : c[i] # n) =>
                              ChainLinks(c)[n] = next[n]
<1>1. Len(c) \in Nat /\ Len(c) >= 1 /\ \A i \in 1 .. Len(c) : c[i] \in Node
  OBVIOUS
<1>2. ASSUME NEW k \in 1 .. Len(c)
      PROVE  (CHOOSE i \in 1 .. Len(c) : c[i] = c[k]) = k
  BY Zenon
<1>3. ASSUME NEW k \in 1 .. Len(c)
      PROVE  ChainLinks(c)[c[k]] = IF k = Len(c) THEN NULL ELSE c[k + 1]
  BY Zenon, <1>1, <1>2 DEF ChainLinks
<1>4. ASSUME NEW n \in Node
      PROVE  /\ ChainLinks(c)[n] \in Node \cup {NULL}
             /\ (\A i \in 1 .. Len(c) : c[i] # n) => ChainLinks(c)[n] = next[n]
  <2>1. CASE \A i \in 1 .. Len(c) : c[i] # n
    BY Zenon, <2>1 DEF ChainLinks
  <2>2. CASE \E i \in 1 .. Len(c) : c[i] = n
    <3>1. PICK k \in 1 .. Len(c) : c[k] = n
      BY Zenon, <2>2
    <3> QED BY <3>1, <1>1, <1>3
  <2> QED BY Zenon, <2>1, <2>2
<1>5. ChainLinks(c) \in [Node -> Node \cup {NULL}]
  BY Zenon, <1>4 DEF ChainLinks
<1> QED BY SMTT(30), <1>1, <1>3, <1>4, <1>5

\* A bulkQueue is a non-empty chain of distinct uThreads.
LEMMA BulkQueueProperties ==
  ASSUME NEW c \in BulkQueues
  PROVE  /\ c \in Seq(Node) /\ c # <<>>
         /\ \A i \in 1 .. Len(c) : c[i] \in UT
         /\ \A i, j \in 1 .. Len(c) : c[i] = c[j] => i = j
<1>1. PICK n \in 1 .. MaxBulk : c \in [1 .. n -> UT]
  BY Zenon DEF BulkQueues
<1>2. n \in Nat /\ n >= 1
  BY <1>1, MaxBulkNat
<1>3. c \in Seq(UT) /\ Len(c) = n
  BY <1>1, <1>2
<1> QED BY <1>1, <1>2, <1>3 DEF BulkQueues, Node

-----------------------------------------------------------------------------
(* The queue in memory.                                                    *)

QInv == WellLinked /\ InsertInv /\ EmptyMark

\* What typing says about the list.
LEMMA ListType ==
  ASSUME TypeOK, WellLinked
  PROVE  /\ Len(list) \in Nat /\ Len(list) >= 1
         /\ \A i \in 1 .. Len(list) : list[i] \in Node
BY DEF TypeOK, WellLinked

\* Where pop() removes the stub, the stub is first in the list and linked to
\* the second node.
LEMMA StubFollowed ==
  ASSUME TypeOK, KtInv, WellLinked, pc[kt] = "spinStub", next[stub] # NULL
  PROVE  /\ list[1] = stub /\ Len(list) \in Nat /\ Len(list) >= 2
         /\ next[stub] = list[2] /\ next[stub] # stub
<1>1. Len(list) \in Nat /\ Len(list) >= 1 /\ list[1] = stub
  BY DEF WellLinked, KtInv, TypeOK
<1>2. Len(list) # 1
  BY Zenon, <1>1 DEF WellLinked, KtInv
<1>3. Linked(1)
  BY <1>1, <1>2 DEF WellLinked
<1>4. next[stub] = list[2]
  BY <1>1, <1>3 DEF Linked
<1> QED BY <1>1, <1>2, <1>4 DEF WellLinked

\* Where pop() takes the first node, that node is linked to the second one.
LEMMA HeadFollowed ==
  ASSUME TypeOK, WellLinked, next[head] # NULL
  PROVE  /\ list[1] = head /\ Len(list) \in Nat /\ Len(list) >= 2
         /\ next[head] = list[2]
<1>1. Len(list) \in Nat /\ Len(list) >= 1 /\ list[1] = head
  BY DEF WellLinked, TypeOK
<1>2. Len(list) >= 2
  <2>1. SUFFICES ASSUME Len(list) = 1 PROVE FALSE
    BY SMTT(30), <1>1
  <2> QED BY Zenon, <1>1, <2>1 DEF WellLinked
<1>3. Linked(1)
  BY <1>1, <1>2 DEF WellLinked
<1>4. next[head] = list[2]
  BY <1>1, <1>3 DEF Linked
<1> QED BY Zenon, <1>1, <1>2, <1>4

\* A step that writes none of the queue's memory and neither starts nor
\* finishes part of an insert.
LEMMA QueueFrame ==
  ASSUME TypeOK, QInv, UNCHANGED <<next, head, tail, list, chain, prev>>,
         \A t \in Thread : /\ pc'[t] = "link" <=> pc[t] = "link"
                           /\ pc'[t] = "exchange" <=> pc[t] = "exchange"
  PROVE  QInv'
<1>1. WellLinked'
  BY SMTT(30) DEF QInv, WellLinked, Linked
<1>2. InsertInv'
  BY DEF QInv, InsertInv
<1> QED BY Zenon, <1>1, <1>2 DEF QInv, EmptyMark

\* The first part of insert() writes only nodes that are not in the queue
\* and not in another thread's hands.
LEMMA QueueBegin ==
  ASSUME TypeOK, QInv, NEW t \in Thread, pc[t] \notin {"link", "exchange"},
         NEW c \in Seq(Node), c # <<>>,
         \A i, j \in 1 .. Len(c) : c[i] = c[j] => i = j,
         InsertBegin(t, c), UNCHANGED <<head, tail, list, prev>>,
         \A i \in 1 .. Len(c) : c[i] \notin InQueue,
         \A s \in Thread : \A i \in 1 .. Len(c) : c[i] \notin Inserting(s)
  PROVE  QInv'
<1>1. /\ \A i \in 1 .. Len(c) - 1 : next'[c[i]] = c[i + 1]
      /\ next'[c[Len(c)]] = NULL
      /\ \A n \in Node : (\A i \in 1 .. Len(c) : c[i] # n) => next'[n] = next[n]
  BY SMTT(30), ChainLinksProperties DEF TypeOK, InsertBegin
<1>2. chain' = [chain EXCEPT ![t] = c] /\ pc' = [pc EXCEPT ![t] = "exchange"]
  BY Zenon DEF InsertBegin, Goto
<1>3. \A i \in 1 .. Len(list) : next'[list[i]] = next[list[i]]
  BY <1>1, ListType DEF InQueue, QInv
<1>4. \A s \in Thread \ {t} : pc'[s] = pc[s] /\ chain'[s] = chain[s]
  BY Zenon, <1>2 DEF TypeOK
<1>5. pc'[t] = "exchange" /\ chain'[t] = c
  BY Zenon, <1>2 DEF TypeOK
<1>6. WellLinked'
  <2>1. ASSUME NEW i \in 1 .. Len(list) - 1
        PROVE  Linked(i)'
    <3>1. Linked(i) /\ i \in 1 .. Len(list)
      BY ListType DEF QInv, WellLinked
    <3> QED BY <1>3, <1>4, <3>1 DEF Linked
  <2> QED
    BY <1>3, <2>1, ListType DEF QInv, WellLinked
<1>7. InsertInv'
  <2>1. ASSUME NEW s \in Thread, pc'[s] = "link"
        PROVE  \E i \in 1 .. Len(list') - 1 :
                 /\ prev'[s] = list'[i] /\ chain'[s][1] = list'[i + 1]
                 /\ next'[list'[i]] = NULL
    <3>1. s # t /\ pc[s] = "link" /\ chain'[s] = chain[s]
      BY Zenon, <1>4, <1>5, <2>1
    <3>2. PICK i \in 1 .. Len(list) - 1 :
            prev[s] = list[i] /\ chain[s][1] = list[i + 1] /\ next[list[i]] = NULL
      BY Zenon, <3>1 DEF QInv, InsertInv
    <3>3. next'[list[i]] = NULL
      BY <1>3, <3>2, ListType DEF QInv
    <3> QED BY Zenon, <3>1, <3>2, <3>3
  <2>2. ASSUME NEW r \in Thread, NEW s \in Thread,
               pc'[r] = "link", pc'[s] = "link", prev'[r] = prev'[s]
        PROVE  r = s
    BY <1>4, <1>5, <2>2 DEF QInv, InsertInv
  <2>3. ASSUME NEW s \in Thread, pc'[s] = "exchange"
        PROVE  /\ \A i, j \in 1 .. Len(chain'[s]) : chain'[s][i] = chain'[s][j] => i = j
               /\ \A i \in 1 .. Len(chain'[s]) - 1 : next'[chain'[s][i]] = chain'[s][i + 1]
               /\ next'[chain'[s][Len(chain'[s])]] = NULL
    <3>1. CASE s = t
      BY SMTT(30), <1>1, <1>5, <3>1
    <3>2. CASE s # t
      <4>1. pc[s] = "exchange" /\ chain'[s] = chain[s]
        BY Zenon, <1>4, <2>3, <3>2
      <4>2. /\ Len(chain[s]) \in Nat /\ Len(chain[s]) >= 1
            /\ \A i \in 1 .. Len(chain[s]) : chain[s][i] \in Node
        BY DEF TypeOK
      <4>3. \A i \in 1 .. Len(chain[s]) : next'[chain[s][i]] = next[chain[s][i]]
        <5> TAKE i \in 1 .. Len(chain[s])
        <5>1. chain[s][i] \in Inserting(s)
          BY Zenon, <4>1 DEF Inserting
        <5>2. \A k \in 1 .. Len(c) : c[k] # chain[s][i]
          BY Zenon, <5>1
        <5> QED BY Zenon, <1>1, <4>2, <5>2
      <4> QED BY SMTT(30), <4>1, <4>2, <4>3 DEF QInv, InsertInv
    <3> QED BY Zenon, <3>1, <3>2
  <2> QED BY <2>1, <2>2, <2>3 DEF InsertInv
<1> QED BY Zenon, <1>6, <1>7 DEF QInv, EmptyMark

\* tail.exchange appends the chain; the gap behind the old tail is the
\* inserting thread's own.
LEMMA QueueExchange ==
  ASSUME TypeOK, QInv, ExactlyOnePlace, NEW t \in Thread, InsertExchange(t)
  PROVE  QInv'
<1> DEFINE L == Len(list)
           C == Len(chain[t])
<1>1. /\ L \in Nat /\ L >= 1 /\ \A i \in 1 .. L : list[i] \in Node
      /\ C \in Nat /\ C >= 1 /\ \A i \in 1 .. C : chain[t][i] \in Node
  <2>1. chain[t] \in Seq(Node) /\ chain[t] # <<>>
    BY Zenon DEF TypeOK
  <2>2. C \in Nat /\ C >= 1 /\ \A i \in 1 .. C : chain[t][i] \in Node
    BY <2>1
  <2> QED BY Zenon, ListType, <2>2 DEF QInv
<1>2. /\ list' = list \o chain[t] /\ Len(list') = L + C
      /\ \A i \in 1 .. L : list'[i] = list[i]
      /\ \A i \in 1 .. C : list'[L + i] = chain[t][i]
  BY <1>1 DEF InsertExchange, TypeOK
<1>3. /\ pc[t] = "exchange" /\ pc'[t] = "link" /\ prev'[t] = list[L]
      /\ tail'.node = chain[t][C] /\ ~tail'.empty
      /\ UNCHANGED <<next, head, chain>>
  BY Zenon DEF InsertExchange, Goto, TypeOK, QInv, WellLinked
<1>4. \A s \in Thread \ {t} : pc'[s] = pc[s] /\ prev'[s] = prev[s]
  BY Zenon DEF InsertExchange, Goto, TypeOK
<1>5. \A i \in 1 .. C : chain[t][i] \notin InQueue
  BY <1>1, <1>3 DEF ExactlyOnePlace, Inserting
<1>6. /\ \A i, j \in 1 .. C : chain[t][i] = chain[t][j] => i = j
      /\ \A i \in 1 .. C - 1 : next[chain[t][i]] = chain[t][i + 1]
      /\ next[chain[t][C]] = NULL
  BY Zenon, <1>3 DEF QInv, InsertInv
<1> HIDE DEF L, C
<1>7. \A i \in 1 .. L + C - 1 : Linked(i)'
  <2> TAKE i \in 1 .. L + C - 1
  <2>1. CASE i < L
    <3>1. Linked(i) /\ list'[i] = list[i] /\ list'[i + 1] = list[i + 1]
      BY SMTT(30), <1>1, <1>2, <2>1 DEF QInv, WellLinked, L
    <3>2. CASE next[list[i]] = list[i + 1]
      BY Zenon, <1>3, <3>1, <3>2 DEF Linked
    <3>3. ASSUME next[list[i]] = NULL, NEW s \in Thread, pc[s] = "link",
                 prev[s] = list[i], chain[s][1] = list[i + 1]
          PROVE  Linked(i)'
      BY <1>3, <1>4, <3>1, <3>3 DEF Linked
    <3> QED BY Zenon, <3>1, <3>2, <3>3 DEF Linked
  <2>2. CASE i = L
    <3>1. list'[i] = list[L] /\ list'[i + 1] = chain[t][1] /\ next[list[L]] = NULL
      BY SMTT(30), <1>1, <1>2, <2>2 DEF QInv, WellLinked, L
    <3> QED BY Zenon, <1>3, <3>1 DEF Linked
  <2>3. CASE i > L
    <3>1. PICK k \in 1 .. C - 1 : i = L + k
      <4>1. i - L \in 1 .. C - 1 /\ i = L + (i - L)
        BY <1>1, <2>3
      <4> QED BY Zenon, <4>1
    <3>2. k \in 1 .. C /\ k + 1 \in 1 .. C /\ i + 1 = L + (k + 1)
      BY <1>1, <3>1
    <3>3. list'[i] = chain[t][k] /\ list'[i + 1] = chain[t][k + 1]
      BY Zenon, <1>2, <3>1, <3>2
    <3> QED BY Zenon, <1>3, <1>6, <3>1, <3>3 DEF Linked
  <2> QED BY <1>1, <2>1, <2>2, <2>3
<1>8. \A i, j \in 1 .. L + C : list'[i] = list'[j] => i = j
  <2> SUFFICES ASSUME NEW i \in 1 .. L + C, NEW j \in 1 .. L + C,
                      list'[i] = list'[j], i <= j
               PROVE  i = j
    BY <1>1
  <2>1. CASE j <= L
    <3>1. i \in 1 .. L /\ j \in 1 .. L
      BY <1>1, <2>1
    <3> QED BY <1>2, <3>1 DEF QInv, WellLinked, L
  <2>2. CASE i <= L /\ j > L
    <3>1. i \in 1 .. L /\ j - L \in 1 .. C /\ j = L + (j - L)
      BY <1>1, <2>2
    <3>2. list'[i] = list[i] /\ list'[j] = chain[t][j - L]
      BY Zenon, <1>2, <3>1
    <3>3. list[i] \in InQueue
      BY Zenon, <3>1 DEF InQueue, L
    <3> QED BY Zenon, <1>5, <3>1, <3>2, <3>3
  <2>3. CASE i > L
    <3>1. /\ i - L \in 1 .. C /\ i = L + (i - L)
          /\ j - L \in 1 .. C /\ j = L + (j - L)
      BY <1>1, <2>3
    <3>2. list'[i] = chain[t][i - L] /\ list'[j] = chain[t][j - L]
      BY Zenon, <1>2, <3>1
    <3>3. i - L = j - L
      BY Zenon, <1>6, <3>1, <3>2
    <3> QED BY Zenon, <1>1, <3>1, <3>3
  <2> QED BY <1>1, <2>1, <2>2, <2>3
<1>9. WellLinked'
  <2>1. list' # <<>> /\ head' = list'[1]
    BY <1>1, <1>2, <1>3 DEF QInv, WellLinked
  <2>2. tail'.node = list'[Len(list')] /\ next'[list'[Len(list')]] = NULL
    BY SMTT(30), <1>1, <1>2, <1>3, <1>6
  <2>3. \A i \in 1 .. Len(list') - 1 : Linked(i)'
    <3>1. Len(list') = L + C
      BY Zenon, <1>2
    <3>2. 1 .. Len(list') - 1 = 1 .. L + C - 1
      BY <1>1, <3>1
    <3> QED BY Zenon, <1>7, <3>2, Zenon
  <2>4. \A i, j \in 1 .. Len(list') : list'[i] = list'[j] => i = j
    BY <1>2, <1>8
  <2> QED BY Zenon, <2>1, <2>2, <2>3, <2>4, Zenon DEF WellLinked
<1>10. InsertInv'
  <2>1. ASSUME NEW s \in Thread, pc'[s] = "link"
        PROVE  \E i \in 1 .. Len(list') - 1 :
                 /\ prev'[s] = list'[i] /\ chain'[s][1] = list'[i + 1]
                 /\ next'[list'[i]] = NULL
    <3>1. CASE s = t
      <4>1. /\ L \in 1 .. Len(list') - 1 /\ list'[L] = list[L]
            /\ list'[L + 1] = chain[t][1] /\ next[list[L]] = NULL
        BY <1>1, <1>2 DEF QInv, WellLinked, L
      <4> QED BY Zenon, <1>3, <3>1, <4>1
    <3>2. CASE s # t
      <4>1. PICK i \in 1 .. L - 1 :
              prev[s] = list[i] /\ chain[s][1] = list[i + 1] /\ next[list[i]] = NULL
        BY <1>4, <2>1, <3>2 DEF QInv, InsertInv, L
      <4>2. /\ i \in 1 .. Len(list') - 1 /\ list'[i] = list[i]
            /\ list'[i + 1] = list[i + 1]
        BY SMTT(30), <1>1, <1>2, <4>1
      <4> QED BY Zenon, <1>3, <1>4, <3>2, <4>1, <4>2
    <3> QED BY Zenon, <3>1, <3>2
  <2>2. ASSUME NEW s \in Thread \ {t}, pc[s] = "link"
        PROVE  prev[s] # prev'[t]
    <3>1. PICK i \in 1 .. L - 1 : prev[s] = list[i]
      BY Zenon, <2>2 DEF QInv, InsertInv, L
    <3>2. list[i] # list[L]
      BY <1>1, <3>1 DEF QInv, WellLinked, L
    <3> QED BY Zenon, <1>3, <3>1, <3>2
  <2>3. ASSUME NEW r \in Thread, NEW s \in Thread,
               pc'[r] = "link", pc'[s] = "link", prev'[r] = prev'[s]
        PROVE  r = s
    <3>1. CASE r = t \/ s = t
      BY Zenon, <1>4, <2>2, <2>3, <3>1
    <3>2. CASE r # t /\ s # t
      BY SMTT(30), <1>4, <2>3, <3>2 DEF QInv, InsertInv
    <3> QED BY Zenon, <3>1, <3>2
  <2>4. ASSUME NEW s \in Thread, pc'[s] = "exchange"
        PROVE  /\ \A i, j \in 1 .. Len(chain'[s]) : chain'[s][i] = chain'[s][j] => i = j
               /\ \A i \in 1 .. Len(chain'[s]) - 1 : next'[chain'[s][i]] = chain'[s][i + 1]
               /\ next'[chain'[s][Len(chain'[s])]] = NULL
    <3>1. pc[s] = "exchange"
      BY Zenon, <1>3, <1>4, <2>4
    <3> QED BY Zenon, <1>3, <3>1 DEF QInv, InsertInv
  <2> QED BY Zenon, <2>1, <2>3, <2>4 DEF InsertInv
<1>11. EmptyMark'
  BY Zenon, <1>3 DEF EmptyMark
<1> QED BY Zenon, <1>9, <1>10, <1>11 DEF QInv

\* prev->next = &first closes the inserting thread's gap.
LEMMA QueueLink ==
  ASSUME TypeOK, QInv, ExactlyOnePlace, NEW t \in Thread, InsertLink(t)
  PROVE  QInv'
<1>1. /\ Len(list) \in Nat /\ Len(list) >= 1
      /\ \A i \in 1 .. Len(list) : list[i] \in Node
  BY Zenon, ListType DEF QInv
<1>2. /\ pc[t] = "link" /\ pc'[t] \notin {"link", "exchange"}
      /\ next' = [next EXCEPT ![prev[t]] = chain[t][1]]
      /\ UNCHANGED <<head, tail, list, chain, prev>>
  BY Zenon DEF InsertLink, Goto, Returned, TypeOK, insertVars
<1>3. \A s \in Thread \ {t} : pc'[s] = pc[s]
  BY Zenon DEF InsertLink, Goto, TypeOK
<1>4. PICK k \in 1 .. Len(list) - 1 :
        prev[t] = list[k] /\ chain[t][1] = list[k + 1] /\ next[list[k]] = NULL
  BY Zenon, <1>2 DEF QInv, InsertInv
<1>5. k \in 1 .. Len(list) /\ prev[t] \in Node /\ list[k] \in InQueue
  BY SMTT(30), <1>1, <1>4 DEF InQueue
<1>6. \A i \in 1 .. Len(list) :
        next'[list[i]] = IF i = k THEN list[k + 1] ELSE next[list[i]]
  BY SMTT(30), <1>1, <1>2, <1>4, <1>5 DEF TypeOK, QInv, WellLinked
<1>7. ASSUME NEW i \in 1 .. Len(list) - 1
      PROVE  Linked(i)'
  <2>1. i \in 1 .. Len(list) /\ Linked(i)
    BY <1>1 DEF QInv, WellLinked
  <2>2. CASE i = k
    BY Zenon, <1>2, <1>6, <2>1, <2>2 DEF Linked
  <2>3. CASE i # k
    <3>1. next'[list[i]] = next[list[i]] /\ list[i] # list[k]
      BY Zenon, <1>5, <1>6, <2>1, <2>3 DEF QInv, WellLinked
    <3>2. CASE next[list[i]] = list[i + 1]
      BY Zenon, <1>2, <3>1, <3>2 DEF Linked
    <3>3. ASSUME next[list[i]] = NULL, NEW s \in Thread, pc[s] = "link",
                 prev[s] = list[i], chain[s][1] = list[i + 1]
          PROVE  Linked(i)'
      <4>1. s # t
        BY Zenon, <1>4, <3>1, <3>3
      <4> QED BY Zenon, <1>2, <1>3, <3>1, <3>3, <4>1 DEF Linked
    <3> QED BY Zenon, <2>1, <3>2, <3>3 DEF Linked
  <2> QED BY Zenon, <2>2, <2>3
<1>8. WellLinked'
  <2>1. next'[list[Len(list)]] = NULL
    <3>1. Len(list) \in 1 .. Len(list) /\ Len(list) # k
      BY SMTT(30), <1>1, <1>4
    <3> QED BY Zenon, <1>6, <3>1 DEF QInv, WellLinked
  <2> QED BY Zenon, <1>2, <1>7, <2>1 DEF QInv, WellLinked
<1>9. InsertInv'
  <2>1. ASSUME NEW s \in Thread, pc'[s] = "link"
        PROVE  \E i \in 1 .. Len(list') - 1 :
                 /\ prev'[s] = list'[i] /\ chain'[s][1] = list'[i + 1]
                 /\ next'[list'[i]] = NULL
    <3>1. s # t /\ pc[s] = "link"
      BY Zenon, <1>2, <1>3, <2>1
    <3>2. PICK i \in 1 .. Len(list) - 1 :
            prev[s] = list[i] /\ chain[s][1] = list[i + 1] /\ next[list[i]] = NULL
      BY Zenon, <3>1 DEF QInv, InsertInv
    <3>3. i # k
      BY SMTT(30), <1>2, <1>4, <3>1, <3>2 DEF QInv, InsertInv
    <3>4. next'[list[i]] = NULL
      BY SMTT(30), <1>1, <1>6, <3>2, <3>3
    <3> QED BY Zenon, <1>2, <3>2, <3>4
  <2>2. ASSUME NEW r \in Thread, NEW s \in Thread,
               pc'[r] = "link", pc'[s] = "link", prev'[r] = prev'[s]
        PROVE  r = s
    BY SMTT(30), <1>2, <1>3, <2>2 DEF QInv, InsertInv
  <2>3. ASSUME NEW s \in Thread, pc'[s] = "exchange"
        PROVE  /\ \A i, j \in 1 .. Len(chain'[s]) : chain'[s][i] = chain'[s][j] => i = j
               /\ \A i \in 1 .. Len(chain'[s]) - 1 : next'[chain'[s][i]] = chain'[s][i + 1]
               /\ next'[chain'[s][Len(chain'[s])]] = NULL
    <3>1. pc[s] = "exchange"
      BY Zenon, <1>2, <1>3, <2>3
    <3>2. /\ Len(chain[s]) \in Nat /\ Len(chain[s]) >= 1
          /\ \A i \in 1 .. Len(chain[s]) : chain[s][i] \in Node
      BY DEF TypeOK
    <3>3. ASSUME NEW i \in 1 .. Len(chain[s])
          PROVE  next'[chain[s][i]] = next[chain[s][i]]
      <4>1. chain[s][i] \in Inserting(s)
        BY Zenon, <3>1 DEF Inserting
      <4>2. chain[s][i] # prev[t]
        BY Zenon, <1>4, <1>5, <3>2, <4>1 DEF ExactlyOnePlace
      <4> QED BY Zenon, <1>2, <1>5, <3>2, <4>2 DEF TypeOK
    <3>4. /\ \A i, j \in 1 .. Len(chain[s]) : chain[s][i] = chain[s][j] => i = j
          /\ \A i \in 1 .. Len(chain[s]) - 1 : next[chain[s][i]] = chain[s][i + 1]
          /\ next[chain[s][Len(chain[s])]] = NULL
      BY Zenon, <3>1 DEF QInv, InsertInv
    <3>5. chain'[s] = chain[s]
      BY Zenon, <1>2
    <3>6. next'[chain[s][Len(chain[s])]] = NULL
      BY <3>2, <3>3, <3>4
    <3>7. ASSUME NEW i \in 1 .. Len(chain[s]) - 1
          PROVE  next'[chain[s][i]] = chain[s][i + 1]
      <4>1. i \in 1 .. Len(chain[s])
        BY <3>2
      <4> QED BY Zenon, <3>3, <3>4, <4>1
    <3> QED BY Zenon, <3>4, <3>5, <3>6, <3>7
  <2> QED BY Zenon, <2>1, <2>2, <2>3 DEF InsertInv
<1>10. EmptyMark'
  BY Zenon, <1>2 DEF QInv, EmptyMark
<1> QED BY Zenon, <1>8, <1>9, <1>10 DEF QInv

\* The first node leaves the queue and its next field is cleared: pop()
\* removing the stub, or taking a uThread.  t re-inserts it (the stub) or
\* nobody does.
LEMMA QueueDrop ==
  ASSUME TypeOK, QInv, ExactlyOnePlace, next[head] # NULL,
         head' = next[head], list' = Tail(list),
         next' = [next EXCEPT ![head] = NULL],
         UNCHANGED <<tail, prev>>,
         \A t \in Thread : pc'[t] = "link" <=> pc[t] = "link",
         \A t \in Thread :
           \/ /\ chain'[t] = chain[t]
              /\ pc'[t] = "exchange" <=> pc[t] = "exchange"
           \/ /\ chain'[t] = <<head>>
              /\ pc[t] # "link"
  PROVE  QInv'
<1>1. /\ Len(list) \in Nat /\ Len(list) >= 2 /\ list[1] = head
      /\ next[head] = list[2] /\ \A i \in 1 .. Len(list) : list[i] \in Node
  BY Zenon, HeadFollowed, ListType DEF QInv
<1>2. /\ Len(list') = Len(list) - 1
      /\ \A i \in 1 .. Len(list) - 1 : list'[i] = list[i + 1]
  BY SMTT(30), <1>1 DEF TypeOK
<1>3. /\ \A n \in Node : n # head => next'[n] = next[n]
      /\ next'[head] = NULL
  BY Zenon DEF TypeOK
<1>4. \A i \in 2 .. Len(list) : next'[list[i]] = next[list[i]]
  BY SMTT(30), <1>1, <1>3 DEF QInv, WellLinked
<1>5. ASSUME NEW i \in 1 .. Len(list) - 2
      PROVE  Linked(i)'
  <2>1. /\ i + 1 \in 1 .. Len(list) - 1 /\ i + 1 \in 2 .. Len(list)
        /\ i \in 1 .. Len(list) - 1
    BY SMTT(30), <1>1
  <2>2. /\ Linked(i + 1) /\ list'[i] = list[i + 1]
        /\ list'[i + 1] = list[(i + 1) + 1]
        /\ next'[list[i + 1]] = next[list[i + 1]]
    BY Zenon, <1>2, <1>4, <2>1 DEF QInv, WellLinked
  <2>3. CASE next[list[i + 1]] = list[(i + 1) + 1]
    BY Zenon, <2>2, <2>3 DEF Linked
  <2>4. ASSUME next[list[i + 1]] = NULL, NEW s \in Thread, pc[s] = "link",
               prev[s] = list[i + 1], chain[s][1] = list[(i + 1) + 1]
        PROVE  Linked(i)'
    <3>1. pc'[s] = "link" /\ chain'[s] = chain[s] /\ prev'[s] = prev[s]
      BY Zenon, <2>4
    <3> QED BY Zenon, <2>2, <2>4, <3>1 DEF Linked
  <2> QED BY Zenon, <2>2, <2>3, <2>4 DEF Linked
<1>6. WellLinked'
  <2>1. list' # <<>> /\ head' = list'[1]
    <3>1. Len(list') # Len(<<>>)
      BY <1>1, <1>2
    <3>2. head' = list'[1]
      BY <1>1, <1>2
    <3> QED BY Zenon, <3>1, <3>2
  <2>2. tail'.node = list'[Len(list')] /\ next'[list'[Len(list')]] = NULL
    <3>1. list'[Len(list')] = list[Len(list)]
      BY <1>1, <1>2
    <3> QED BY <1>1, <1>4, <3>1 DEF QInv, WellLinked
  <2>3. \A i \in 1 .. Len(list') - 1 : Linked(i)'
    BY SMTT(30), <1>1, <1>2, <1>5
  <2>4. \A i, j \in 1 .. Len(list') : list'[i] = list'[j] => i = j
    BY SMTT(30), <1>1, <1>2 DEF QInv, WellLinked
  <2> QED BY Zenon, <2>1, <2>2, <2>3, <2>4, Zenon DEF WellLinked
<1>7. InsertInv'
  <2>1. ASSUME NEW s \in Thread, pc'[s] = "link"
        PROVE  \E i \in 1 .. Len(list') - 1 :
                 /\ prev'[s] = list'[i] /\ chain'[s][1] = list'[i + 1]
                 /\ next'[list'[i]] = NULL
    <3>1. pc[s] = "link" /\ chain'[s] = chain[s] /\ prev'[s] = prev[s]
      BY Zenon, <2>1
    <3>2. PICK i \in 1 .. Len(list) - 1 :
            prev[s] = list[i] /\ chain[s][1] = list[i + 1] /\ next[list[i]] = NULL
      BY Zenon, <3>1 DEF QInv, InsertInv
    <3>3. i # 1
      BY Zenon, <1>1, <3>2
    <3>4. /\ i - 1 \in 1 .. Len(list') - 1 /\ list'[i - 1] = list[i]
          /\ list'[(i - 1) + 1] = list[i + 1] /\ next'[list[i]] = next[list[i]]
      BY SMTT(30), <1>1, <1>2, <1>4, <3>2, <3>3
    <3> QED BY Zenon, <3>1, <3>2, <3>4
  <2>2. ASSUME NEW r \in Thread, NEW s \in Thread,
               pc'[r] = "link", pc'[s] = "link", prev'[r] = prev'[s]
        PROVE  r = s
    BY Zenon, <2>2 DEF QInv, InsertInv
  <2>3. ASSUME NEW s \in Thread, pc'[s] = "exchange"
        PROVE  /\ \A i, j \in 1 .. Len(chain'[s]) : chain'[s][i] = chain'[s][j] => i = j
               /\ \A i \in 1 .. Len(chain'[s]) - 1 : next'[chain'[s][i]] = chain'[s][i + 1]
               /\ next'[chain'[s][Len(chain'[s])]] = NULL
    <3>1. CASE chain'[s] = <<head>>
      <4>1. Len(<<head>>) = 1 /\ <<head>>[1] = head
        BY Zenon
      <4> QED BY <1>3, <3>1, <4>1
    <3>2. CASE chain'[s] = chain[s] /\ pc[s] = "exchange"
      <4>1. /\ Len(chain[s]) \in Nat /\ Len(chain[s]) >= 1
            /\ \A i \in 1 .. Len(chain[s]) : chain[s][i] \in Node
        BY SMTT(30) DEF TypeOK
      <4>2. head \in InQueue
        BY <1>1 DEF InQueue
      <4>3. ASSUME NEW i \in 1 .. Len(chain[s])
            PROVE  next'[chain[s][i]] = next[chain[s][i]]
        <5>1. chain[s][i] \in Inserting(s)
          BY Zenon, <3>2 DEF Inserting
        <5>2. chain[s][i] # head
          BY <4>1, <4>2, <5>1 DEF ExactlyOnePlace
        <5> QED BY Zenon, <1>3, <4>1, <5>2
      <4> QED BY SMTT(30), <3>2, <4>1, <4>3 DEF QInv, InsertInv
    <3> QED BY Zenon, <2>3, <3>1, <3>2
  <2> QED BY ZenonT(30), <2>1, <2>2, <2>3 DEF InsertInv
<1>8. EmptyMark'
  <2>1. Len(<<stub>>) = 1
    BY Zenon
  <2>2. ~tail.empty
    BY SMTT(30), <1>1, <2>1 DEF QInv, EmptyMark
  <2> QED BY Zenon, <2>2 DEF EmptyMark
<1> QED BY Zenon, <1>6, <1>7, <1>8 DEF QInv

\* Popping takes exactly the first node out.
LEMMA InQueueTail ==
  ASSUME TypeOK, WellLinked, list' = Tail(list)
  PROVE  InQueue' = InQueue \ {head}
<1>1. /\ Len(list) \in Nat /\ Len(list) >= 1 /\ list \in Seq(Node)
      /\ head = list[1]
      /\ \A i, j \in 1 .. Len(list) : list[i] = list[j] => i = j
  BY Zenon, ListType DEF TypeOK, WellLinked
<1>2. /\ Len(list') = Len(list) - 1
      /\ \A i \in 1 .. Len(list) - 1 : list'[i] = list[i + 1]
  BY <1>1
<1>3. ASSUME NEW n \in InQueue'
      PROVE  n \in InQueue /\ n # head
  <2>1. PICK i \in 1 .. Len(list) - 1 : n = list[i + 1]
    BY Zenon, <1>2 DEF InQueue
  <2>2. i + 1 \in 1 .. Len(list) /\ 1 \in 1 .. Len(list) /\ i + 1 # 1
    BY <1>1, <2>1
  <2> QED BY Zenon, <1>1, <2>1, <2>2 DEF InQueue
<1>4. ASSUME NEW n \in InQueue, n # head
      PROVE  n \in InQueue'
  <2>1. PICK i \in 1 .. Len(list) : n = list[i]
    BY Zenon DEF InQueue
  <2>2. i # 1
    BY Zenon, <1>1, <1>4, <2>1
  <2>3. i - 1 \in 1 .. Len(list) - 1 /\ (i - 1) + 1 = i
    BY <1>1, <2>1, <2>2
  <2>4. n = list'[i - 1] /\ i - 1 \in 1 .. Len(list')
    BY Zenon, <1>2, <2>1, <2>3
  <2> QED BY ZenonT(30), <2>4 DEF InQueue
<1> QED BY Zenon, <1>3, <1>4

\* tail.exchange puts exactly the chain in.
LEMMA InQueueAppend ==
  ASSUME TypeOK, NEW c \in Seq(Node), list' = list \o c
  PROVE  InQueue' = InQueue \cup {c[i] : i \in 1 .. Len(c)}
<1>1. /\ list \in Seq(Node) /\ Len(list) \in Nat /\ Len(c) \in Nat
      /\ Len(list') = Len(list) + Len(c)
      /\ \A i \in 1 .. Len(list) : list'[i] = list[i]
      /\ \A i \in 1 .. Len(c) : list'[Len(list) + i] = c[i]
  BY DEF TypeOK
<1>2. ASSUME NEW n \in InQueue'
      PROVE  n \in InQueue \cup {c[i] : i \in 1 .. Len(c)}
  <2>1. PICK i \in 1 .. Len(list) + Len(c) : n = list'[i]
    BY Zenon, <1>1 DEF InQueue
  <2>2. CASE i <= Len(list)
    BY SMTT(30), <1>1, <2>1, <2>2 DEF InQueue
  <2>3. CASE i > Len(list)
    <3>1. i - Len(list) \in 1 .. Len(c) /\ Len(list) + (i - Len(list)) = i
      BY SMTT(30), <1>1, <2>1, <2>3
    <3>2. n = c[i - Len(list)]
      BY Zenon, <1>1, <2>1, <3>1
    <3> QED BY Zenon, <3>1, <3>2
  <2>4. i <= Len(list) \/ i > Len(list)
    BY <1>1, <2>1
  <2> QED BY Zenon, <2>2, <2>3, <2>4
<1>3. ASSUME NEW n \in InQueue
      PROVE  n \in InQueue'
  <2>1. PICK i \in 1 .. Len(list) : n = list[i]
    BY Zenon DEF InQueue
  <2>2. i \in 1 .. Len(list') /\ list'[i] = n
    BY <1>1, <2>1
  <2> QED BY Zenon, <2>2 DEF InQueue
<1>4. ASSUME NEW i \in 1 .. Len(c)
      PROVE  c[i] \in InQueue'
  <2>1. Len(list) + i \in 1 .. Len(list') /\ list'[Len(list) + i] = c[i]
    BY SMTT(30), <1>1
  <2> QED BY Zenon, <2>1 DEF InQueue
<1> QED BY Zenon, <1>2, <1>3, <1>4

-----------------------------------------------------------------------------
(* Type correctness.                                                       *)

\* The program starts in a state of the right type.
LEMMA InitTypeOK == Init => TypeOK
BY DistinctConstants, SemValueMaxPositive
DEF Init, TypeOK, Thread, Node, KtLoc, PeerLoc, PollerLoc, State

\* insert() begins with a chain of nodes.
LEMMA InsertBeginType ==
  ASSUME TypeOK, NEW t \in Thread, NEW c \in Seq(Node), c # <<>>,
         \A i, j \in 1 .. Len(c) : c[i] = c[j] => i = j,
         InsertBegin(t, c)
  PROVE  /\ next' \in [Node -> Node \cup {NULL}]
         /\ chain' \in [Thread -> Seq(Node)]
         /\ \A s \in Thread : chain'[s] # <<>>
         /\ pc' = [pc EXCEPT ![t] = "exchange"]
BY Zenon, ChainLinksProperties DEF TypeOK, InsertBegin, Goto

\* insert() begins with a single node.
LEMMA InsertBeginSingle ==
  ASSUME TypeOK, NEW t \in Thread, NEW n \in Node, InsertBegin(t, <<n>>)
  PROVE  /\ next' = [next EXCEPT ![n] = NULL]
         /\ chain' = [chain EXCEPT ![t] = <<n>>]
         /\ chain' \in [Thread -> Seq(Node)]
         /\ \A s \in Thread : chain'[s] # <<>>
         /\ pc' = [pc EXCEPT ![t] = "exchange"]
<1>1. next' = [next EXCEPT ![n] = NULL]
  BY Zenon, SingletonChain DEF TypeOK, InsertBegin
<1>2. <<n>> \in Seq(Node) /\ <<n>> # <<>>
  OBVIOUS
<1> QED BY Zenon, <1>1, <1>2 DEF TypeOK, InsertBegin, Goto

\* A thread goes to a location of its own code.
LEMMA GotoType ==
  ASSUME TypeOK, NEW t \in Thread, NEW loc, pc' = [pc EXCEPT ![t] = loc],
         t = kt => loc \in KtLoc, t = poller => loc \in PollerLoc,
         t \in Peers => loc \in PeerLoc
  PROVE  /\ pc' \in [Thread -> KtLoc \cup PeerLoc \cup PollerLoc]
         /\ pc'[kt] \in KtLoc /\ pc'[poller] \in PollerLoc
         /\ \A p \in Peers : pc'[p] \in PeerLoc
BY Zenon, DistinctConstants DEF TypeOK, Thread

\* Every step keeps the types.
LEMMA NextTypeOK == TypeOK /\ KtInv /\ WellLinked /\ [Next]_vars => TypeOK'
<1> SUFFICES ASSUME TypeOK, KtInv, WellLinked, [Next]_vars
             PROVE  TypeOK'
  BY Zenon
<1> USE DistinctConstants, SemValueMaxPositive
<1>0. kt \in Thread /\ poller \in Thread /\ Peers \subseteq Thread
  BY Zenon DEF Thread
<1>1. ASSUME NEW t \in Thread, InsertExchange(t)
      PROVE  TypeOK'
  <2>1. chain[t] \in Seq(Node) /\ chain[t] # <<>>
    BY Zenon DEF TypeOK
  <2>2. chain[t][Len(chain[t])] \in Node
    BY <2>1
  <2>3. list \o chain[t] \in Seq(Node)
    BY SMTT(30), <2>1 DEF TypeOK
  <2> QED
    BY Zenon, <1>1, <2>2, <2>3
    DEF TypeOK, InsertExchange, Goto, utVars, Thread, KtLoc, PeerLoc, PollerLoc
<1>2. ASSUME NEW t \in Thread, InsertLink(t)
      PROVE  TypeOK'
  <2>1. chain[t][1] \in Node
    BY SMTT(30) DEF TypeOK
  <2> QED
    BY SMTT(30), <1>2, <2>1
    DEF TypeOK, InsertLink, Goto, Returned, insertVars, utVars, Thread, KtLoc,
        PeerLoc, PollerLoc
<1>3. ASSUME NEW t \in Thread, SchedulePost(t)
      PROVE  TypeOK'
  BY SMTT(30), <1>3
  DEF TypeOK, SchedulePost, Goto, Returned, queueVars, insertVars, utVars,
      Thread, KtLoc, PeerLoc, PollerLoc
<1>4. ASSUME NEW t \in Peers \cup {kt}, NEW u \in UT, Resume(t, u)
      PROVE  TypeOK'
  <2>1. t \in Thread /\ u \in Node
    BY Zenon DEF Thread, Node
  <2>2. /\ next' \in [Node -> Node \cup {NULL}]
        /\ chain' \in [Thread -> Seq(Node)]
        /\ \A s \in Thread : chain'[s] # <<>>
        /\ pc' = [pc EXCEPT ![t] = "exchange"]
    BY ZenonT(60), <1>4, <2>1, InsertBeginSingle DEF Resume, TypeOK
  <2> QED
    BY <1>4, <2>1, <2>2
    DEF TypeOK, Resume, KtLoc, PeerLoc, PollerLoc, State
<1>5. CASE PollerTimedwait
  <2>1. CASE iosem > 0 /\ iosem' = iosem - 1 /\ Goto(poller, "repost")
    BY <1>0, <1>5, <2>1
    DEF TypeOK, PollerTimedwait, Goto, queueVars, insertVars, utVars, PollerLoc
  <2>2. CASE iosem' = iosem /\ Goto(poller, "poll")
    BY SMTT(30), <1>0, <1>5, <2>2
    DEF TypeOK, PollerTimedwait, Goto, queueVars, insertVars, utVars, PollerLoc
  <2> QED BY Zenon, <1>5, <2>1, <2>2 DEF PollerTimedwait
<1>6. CASE PollerRepost
  BY SMTT(30), <1>0, <1>6
  DEF TypeOK, PollerRepost, Goto, queueVars, insertVars, utVars, PollerLoc
<1>7. CASE PollerNothing
  BY SMTT(30), <1>0, <1>7
  DEF TypeOK, PollerNothing, Goto, queueVars, insertVars, utVars, PollerLoc
<1>8. ASSUME NEW c \in BulkQueues, PollerBulkPush(c)
      PROVE  TypeOK'
  <2>1. /\ next' \in [Node -> Node \cup {NULL}]
        /\ chain' \in [Thread -> Seq(Node)]
        /\ \A s \in Thread : chain'[s] # <<>>
        /\ pc' = [pc EXCEPT ![poller] = "exchange"]
    BY Zenon, <1>0, <1>8, BulkQueueProperties, InsertBeginType DEF PollerBulkPush
  <2> QED
    BY <1>0, <1>8, <2>1 DEF TypeOK, PollerBulkPush, PollerLoc
<1>9. CASE PopStart
  BY ZenonT(30), <1>0, <1>9
  DEF TypeOK, PopStart, PopNull, Goto, queueVars, insertVars, KtLoc
<1>10. CASE PopMarkEmpty
  <2>1. PICK loc \in KtLoc : pc' = [pc EXCEPT ![kt] = loc]
    BY Zenon, <1>10 DEF PopMarkEmpty, PopNull, Goto, KtLoc
  <2>2. tail' \in [node : Node, empty : BOOLEAN] /\ ut' \in UT \cup {NULL}
    <3>1. stub \in Node
      BY Zenon DEF Node
    <3>2. CASE tail = [node |-> stub, empty |-> FALSE]
      <4>1. tail' = [node |-> stub, empty |-> TRUE] /\ ut' = NULL
        BY Zenon, <1>10, <3>2 DEF PopMarkEmpty, PopNull
      <4>2. [node |-> stub, empty |-> TRUE] \in [node : Node, empty : BOOLEAN]
        BY Zenon, <3>1
      <4> QED BY Zenon, <4>1, <4>2
    <3>3. CASE tail # [node |-> stub, empty |-> FALSE]
      BY Zenon, <1>10, <3>3 DEF PopMarkEmpty, TypeOK
    <3> QED BY Zenon, <3>2, <3>3
  <2> QED
    BY Zenon, <1>0, <1>10, <2>1, <2>2, GotoType DEF TypeOK, PopMarkEmpty, insertVars
<1>11. CASE PopRemoveStub
  <2>1. stub \in Node
    BY Zenon DEF Node
  <2>2. /\ next' \in [Node -> Node \cup {NULL}]
        /\ chain' \in [Thread -> Seq(Node)]
        /\ \A s \in Thread : chain'[s] # <<>>
        /\ pc' = [pc EXCEPT ![kt] = "exchange"]
    BY ZenonT(30), <1>0, <1>11, <2>1, InsertBeginSingle DEF PopRemoveStub, TypeOK
  <2>3. next[stub] \in Node
    BY Zenon, <1>11 DEF PopRemoveStub, TypeOK, Node
  <2>4. list' \in Seq(Node)
    BY <1>11 DEF PopRemoveStub, TypeOK, WellLinked
  <2> QED
    BY Zenon, <1>0, <1>11, <2>2, <2>3, <2>4, GotoType
    DEF TypeOK, PopRemoveStub, utVars, KtLoc
<1>12. CASE PopTake
  <2>1. next[head] \in Node /\ head \in UT
    BY Zenon, <1>12 DEF PopTake, TypeOK, Node, KtInv
  <2>2. list' \in Seq(Node)
    BY <1>12 DEF PopTake, TypeOK, WellLinked
  <2>3. PICK loc \in KtLoc : pc' = [pc EXCEPT ![kt] = loc]
    BY Zenon, <1>12 DEF PopTake, Goto, KtLoc
  <2> QED
    BY Zenon, <1>0, <1>12, <2>1, <2>2, <2>3, GotoType DEF TypeOK, PopTake, insertVars
<1>13. CASE BlockingSwitch
  BY SMTT(30), <1>0, <1>13
  DEF TypeOK, BlockingSwitch, Goto, queueVars, insertVars, utVars, KtLoc
<1>14. CASE SemWait
  BY SMTT(30), <1>0, <1>14
  DEF TypeOK, SemWait, Goto, queueVars, insertVars, utVars, KtLoc
<1>15. CASE BlockingSwitchReturn
  BY SMTT(30), <1>0, <1>15
  DEF TypeOK, BlockingSwitchReturn, Goto, queueVars, insertVars, KtLoc, State,
      KtInv
<1>16. ASSUME NEW s \in {"YIELD", "WAITING", "TERMINATED"}, NonBlockingSwitch(s)
       PROVE  TypeOK'
  BY <1>0, <1>16
  DEF TypeOK, NonBlockingSwitch, Goto, queueVars, insertVars, KtLoc, State
<1>17. CASE PostSwitch
  <2> DEFINE nextuThread == IF ut = NULL THEN mainUT ELSE ut
  <2>1. nextuThread \in UT \cup {mainUT} /\ currentUT \in UT
    BY Zenon, <1>17 DEF TypeOK, PostSwitch, KtInv
  <2>2. CASE state[currentUT] = "YIELD"
    <3>1. currentUT \in Node
      BY Zenon, <2>1 DEF Node
    <3>2. /\ next' \in [Node -> Node \cup {NULL}]
          /\ chain' \in [Thread -> Seq(Node)]
          /\ \A s \in Thread : chain'[s] # <<>>
          /\ pc' = [pc EXCEPT ![kt] = "exchange"]
      <4>1. InsertBegin(kt, <<currentUT>>)
        BY Zenon, <1>17, <2>2 DEF PostSwitch
      <4> QED BY ZenonT(30), <1>0, <3>1, <4>1, InsertBeginSingle DEF TypeOK
    <3>3. state' \in [UT \cup {mainUT} -> State]
      <4>1. state' = [state EXCEPT ![currentUT] = "READY",
                                   ![nextuThread] = "RUNNING"]
        BY Zenon, <1>17, <2>2 DEF PostSwitch
      <4> HIDE DEF nextuThread
      <4> QED BY Zenon, <2>1, <4>1 DEF TypeOK, State
    <3>4. /\ currentUT' = nextuThread
          /\ UNCHANGED <<parked, head, tail, list, prev, wasEmpty, sem,
                         iosem, ut>>
      BY Zenon, <1>17, <2>2 DEF PostSwitch
    <3> HIDE DEF nextuThread
    <3> QED
      BY Zenon, <1>0, <2>1, <3>2, <3>3, <3>4, GotoType DEF TypeOK, KtLoc
  <2>3. CASE state[currentUT] # "YIELD"
    <3>1. state' \in [UT \cup {mainUT} -> State]
      <4> DEFINE x == IF state[currentUT] = "TERMINATED" THEN "INITIALIZED"
                      ELSE state[currentUT]
      <4>1. state' = [state EXCEPT ![currentUT] = x, ![nextuThread] = "RUNNING"]
        BY Zenon, <1>17, <2>3 DEF PostSwitch
      <4>2. x \in State /\ "RUNNING" \in State
        BY Zenon, <2>1 DEF TypeOK, State
      <4> HIDE DEF x, nextuThread
      <4> QED BY Zenon, <2>1, <4>1, <4>2 DEF TypeOK
    <3>2. pc' = [pc EXCEPT ![kt] = IF nextuThread = mainUT THEN "main" ELSE "run"]
      BY Zenon, <1>17, <2>3 DEF PostSwitch, Goto
    <3>3. /\ parked' = parked \cup {currentUT} /\ currentUT' = nextuThread
          /\ UNCHANGED <<next, chain, head, tail, list, prev, wasEmpty, sem,
                         iosem, ut>>
      BY Zenon, <1>17, <2>3 DEF PostSwitch
    <3> HIDE DEF nextuThread
    <3> QED
      BY Zenon, <1>0, <2>1, <3>1, <3>2, <3>3 DEF TypeOK, KtLoc
  <2> QED BY Zenon, <2>2, <2>3
<1>18. CASE UNCHANGED vars
  BY Zenon, <1>18 DEF vars, TypeOK
<1> QED
  BY Zenon, <1>1, <1>2, <1>3, <1>4, <1>5, <1>6, <1>7, <1>8, <1>9, <1>10, <1>11,
     <1>12, <1>13, <1>14, <1>15, <1>16, <1>17, <1>18
  DEF Next, Insert, KtStep, KtPop, Yield, Suspend, Terminate

-----------------------------------------------------------------------------
(* Control: chains, kt's locations, the semaphores.                        *)

\* Only kt inserts the stub.
LEMMA NextChainInv == TypeOK /\ KtInv /\ ChainInv /\ [Next]_vars => ChainInv'
<1> SUFFICES ASSUME TypeOK, KtInv, ChainInv, [Next]_vars
             PROVE  ChainInv'
  BY Zenon
<1>0. kt \in Thread /\ poller \in Thread /\ Peers \subseteq Thread
  BY Zenon DEF Thread
<1>1. ASSUME NEW t \in Thread, InsertExchange(t)
      PROVE  ChainInv'
  BY Zenon, <1>1 DEF TypeOK, ChainInv, InsertExchange, Goto
<1>2. ASSUME NEW t \in Thread, InsertLink(t)
      PROVE  ChainInv'
  BY Zenon, <1>2 DEF TypeOK, ChainInv, InsertLink, Goto, insertVars
<1>3. ASSUME NEW t \in Thread, SchedulePost(t)
      PROVE  ChainInv'
  BY Zenon, <1>3 DEF TypeOK, ChainInv, SchedulePost, Goto, Returned, insertVars
<1>4. ASSUME NEW t \in Peers \cup {kt}, NEW u \in UT, Resume(t, u)
      PROVE  ChainInv'
  <2>1. chain' = [chain EXCEPT ![t] = <<u>>] /\ pc' = [pc EXCEPT ![t] = "exchange"]
    BY Zenon, <1>4 DEF Resume, InsertBegin, Goto
  <2>2. Len(<<u>>) = 1 /\ <<u>>[1] = u
    BY Zenon
  <2> QED BY <1>0, <2>1, <2>2 DEF TypeOK, ChainInv
<1>5. CASE PollerTimedwait
  BY ZenonT(30), <1>5 DEF TypeOK, ChainInv, PollerTimedwait, Goto, insertVars
<1>6. CASE PollerRepost
  BY Zenon, <1>6 DEF TypeOK, ChainInv, PollerRepost, Goto, insertVars
<1>7. CASE PollerNothing
  BY Zenon, <1>7 DEF TypeOK, ChainInv, PollerNothing, Goto, insertVars
<1>8. ASSUME NEW c \in BulkQueues, PollerBulkPush(c)
      PROVE  ChainInv'
  <2>1. chain' = [chain EXCEPT ![poller] = c] /\ pc' = [pc EXCEPT ![poller] = "exchange"]
    BY Zenon, <1>8 DEF PollerBulkPush, InsertBegin, Goto
  <2> QED BY SMTT(30), <1>0, <2>1, BulkQueueProperties DEF TypeOK, ChainInv
<1>9. CASE PopStart
  BY SMTT(30), <1>9 DEF TypeOK, ChainInv, PopStart, PopNull, Goto, insertVars
<1>10. CASE PopMarkEmpty
  BY <1>10 DEF TypeOK, ChainInv, PopMarkEmpty, PopNull, Goto, insertVars
<1>11. CASE PopRemoveStub
  <2>1. chain' = [chain EXCEPT ![kt] = <<stub>>] /\ pc' = [pc EXCEPT ![kt] = "exchange"]
    BY Zenon, <1>11 DEF PopRemoveStub, InsertBegin, Goto
  <2> QED BY <1>0, <2>1 DEF TypeOK, ChainInv
<1>12. CASE PopTake
  BY Zenon, <1>12 DEF TypeOK, ChainInv, PopTake, Goto, insertVars
<1>13. CASE BlockingSwitch
  BY Zenon, <1>13 DEF TypeOK, ChainInv, BlockingSwitch, Goto, insertVars
<1>14. CASE SemWait
  BY Zenon, <1>14 DEF TypeOK, ChainInv, SemWait, Goto, insertVars
<1>15. CASE BlockingSwitchReturn
  BY Zenon, <1>15 DEF TypeOK, ChainInv, BlockingSwitchReturn, Goto, insertVars
<1>16. ASSUME NEW s \in {"YIELD", "WAITING", "TERMINATED"}, NonBlockingSwitch(s)
       PROVE  ChainInv'
  BY Zenon, <1>16 DEF TypeOK, ChainInv, NonBlockingSwitch, Goto, insertVars
<1>17. CASE PostSwitch
  <2>1. CASE state[currentUT] = "YIELD"
    <3>1. chain' = [chain EXCEPT ![kt] = <<currentUT>>] /\ pc' = [pc EXCEPT ![kt] = "exchange"]
      BY Zenon, <1>17, <2>1 DEF PostSwitch, InsertBegin, Goto
    <3>2. currentUT \in UT
      BY Zenon, <1>17 DEF PostSwitch, KtInv
    <3>3. Len(<<currentUT>>) = 1 /\ <<currentUT>>[1] = currentUT
      BY Zenon
    <3> QED BY <1>0, <3>1, <3>2, <3>3 DEF TypeOK, ChainInv
  <2>2. CASE state[currentUT] # "YIELD"
    <3>1. chain' = chain /\ \E loc \in {"main", "run"} : pc' = [pc EXCEPT ![kt] = loc]
      BY Zenon, <1>17, <2>2 DEF PostSwitch, Goto
    <3> QED BY <1>0, <3>1 DEF TypeOK, ChainInv
  <2> QED BY Zenon, <2>1, <2>2
<1>18. CASE UNCHANGED vars
  BY Zenon, <1>18 DEF vars, ChainInv
<1> QED
  BY Zenon, <1>1, <1>2, <1>3, <1>4, <1>5, <1>6, <1>7, <1>8, <1>9, <1>10, <1>11,
     <1>12, <1>13, <1>14, <1>15, <1>16, <1>17, <1>18
  DEF Next, Insert, KtStep, KtPop, Yield, Suspend, Terminate

\* kt's locations agree with the uThread it runs and with what it read.
LEMMA NextKtInv ==
  TypeOK /\ ChainInv /\ KtInv /\ WellLinked /\ [Next]_vars => KtInv'
<1> SUFFICES ASSUME TypeOK, ChainInv, KtInv, WellLinked, [Next]_vars
             PROVE  KtInv'
  BY Zenon
<1> USE DistinctConstants
<1>0. kt \in Thread /\ poller \in Thread /\ Peers \subseteq Thread
  BY Zenon DEF Thread
<1>1. ASSUME NEW t \in Thread, InsertExchange(t)
      PROVE  KtInv'
  <2>1. CASE t = kt
    BY Zenon, <1>0, <1>1, <2>1 DEF TypeOK, KtInv, InsertExchange, Goto, utVars
  <2>2. CASE t # kt
    <3>1. tail'.node \in UT /\ tail'.empty = FALSE
      BY SMTT(30), <1>1, <2>2 DEF ChainInv, TypeOK, InsertExchange
    <3> QED
      BY ZenonT(30), <1>0, <1>1, <2>2, <3>1 DEF TypeOK, KtInv, InsertExchange, Goto, utVars
  <2> QED BY Zenon, <2>1, <2>2
<1>2. ASSUME NEW t \in Thread, InsertLink(t)
      PROVE  KtInv'
  BY Zenon, <1>0, <1>2 DEF TypeOK, KtInv, InsertLink, Goto, Returned, insertVars, utVars
<1>3. ASSUME NEW t \in Thread, SchedulePost(t)
      PROVE  KtInv'
  BY ZenonT(30), <1>0, <1>3
  DEF TypeOK, KtInv, SchedulePost, Goto, Returned, queueVars, insertVars, utVars
<1>4. ASSUME NEW t \in Peers \cup {kt}, NEW u \in UT, Resume(t, u)
      PROVE  KtInv'
  <2>1. chain' = [chain EXCEPT ![t] = <<u>>] /\ pc' = [pc EXCEPT ![t] = "exchange"]
    BY Zenon, <1>4 DEF Resume, InsertBegin, Goto
  <2>2. <<u>> # <<stub>>
    BY Zenon
  <2>3. pc[t] = IF t = kt THEN "run" ELSE "idle"
    BY Zenon, <1>4 DEF Resume
  <2>4. state' = [state EXCEPT ![u] = "READY"] /\ UNCHANGED <<head, tail, currentUT, ut>>
    BY Zenon, <1>4 DEF Resume
  <2> QED
    BY <1>0, <2>1, <2>2, <2>3, <2>4 DEF TypeOK, KtInv
<1>5. CASE PollerTimedwait
  BY Zenon, <1>0, <1>5
  DEF TypeOK, KtInv, PollerTimedwait, Goto, queueVars, insertVars, utVars
<1>6. CASE PollerRepost
  BY Zenon, <1>0, <1>6
  DEF TypeOK, KtInv, PollerRepost, Goto, queueVars, insertVars, utVars
<1>7. CASE PollerNothing
  BY Zenon, <1>0, <1>7
  DEF TypeOK, KtInv, PollerNothing, Goto, queueVars, insertVars, utVars
<1>8. ASSUME NEW c \in BulkQueues, PollerBulkPush(c)
      PROVE  KtInv'
  BY ZenonT(30), <1>0, <1>8 DEF TypeOK, KtInv, PollerBulkPush, InsertBegin, Goto
<1>9. CASE PopStart
  BY <1>0, <1>9
  DEF TypeOK, KtInv, PopStart, PopNull, Goto, queueVars, insertVars
<1>10. CASE PopMarkEmpty
  <2>1. CASE tail = [node |-> stub, empty |-> FALSE]
    BY SMTT(30), <1>0, <1>10, <2>1 DEF TypeOK, KtInv, PopMarkEmpty, PopNull, Goto, insertVars
  <2>2. CASE tail # [node |-> stub, empty |-> FALSE]
    <3>1. tail.node # stub
      BY Zenon, <1>10, <2>2 DEF PopMarkEmpty, KtInv, TypeOK
    <3> QED
      BY ZenonT(30), <1>0, <1>10, <2>2, <3>1 DEF TypeOK, KtInv, PopMarkEmpty, Goto, insertVars
  <2> QED BY Zenon, <2>1, <2>2
<1>11. CASE PopRemoveStub
  <2>1. next[stub] # stub
    BY Zenon, <1>11, StubFollowed DEF PopRemoveStub
  <2> QED
    BY Zenon, <1>0, <1>11, <2>1 DEF TypeOK, KtInv, PopRemoveStub, InsertBegin, Goto, utVars
<1>12. CASE PopTake
  <2>1. head \in UT
    BY Zenon, <1>12 DEF PopTake, KtInv, TypeOK, Node
  <2> QED
    BY Zenon, <1>0, <1>12, <2>1 DEF TypeOK, KtInv, PopTake, Goto, insertVars
<1>13. CASE BlockingSwitch
  BY Zenon, <1>0, <1>13
  DEF TypeOK, KtInv, BlockingSwitch, Goto, queueVars, insertVars, utVars
<1>14. CASE SemWait
  BY Zenon, <1>0, <1>14 DEF TypeOK, KtInv, SemWait, Goto, queueVars, insertVars, utVars
<1>15. CASE BlockingSwitchReturn
  BY Zenon, <1>0, <1>15
  DEF TypeOK, KtInv, BlockingSwitchReturn, Goto, queueVars, insertVars
<1>16. ASSUME NEW s \in {"YIELD", "WAITING", "TERMINATED"}, NonBlockingSwitch(s)
       PROVE  KtInv'
  BY Zenon, <1>0, <1>16 DEF TypeOK, KtInv, NonBlockingSwitch, Goto, queueVars, insertVars
<1>17. CASE PostSwitch
  <2>0. pc[kt] = "postSwitch" /\ UNCHANGED <<head, tail, ut>>
    BY Zenon, <1>17 DEF PostSwitch
  <2>1. CASE state[currentUT] = "YIELD"
    <3>1. chain' = [chain EXCEPT ![kt] = <<currentUT>>] /\ pc' = [pc EXCEPT ![kt] = "exchange"]
      BY Zenon, <1>17, <2>1 DEF PostSwitch, InsertBegin, Goto
    <3>2. currentUT \in UT /\ currentUT' \in UT
      BY Zenon, <1>17, <2>1 DEF PostSwitch, KtInv
    <3>3. <<currentUT>> # <<stub>>
      BY Zenon, <3>2
    <3> QED BY Zenon, <1>0, <2>0, <3>1, <3>2, <3>3 DEF TypeOK, KtInv
  <2>2. CASE state[currentUT] # "YIELD"
    <3>1. pc' = [pc EXCEPT ![kt] = IF currentUT' = mainUT THEN "main" ELSE "run"]
      BY Zenon, <1>17, <2>2 DEF PostSwitch, Goto
    <3>2. currentUT' \in UT \cup {mainUT}
      BY Zenon, <1>17 DEF PostSwitch, TypeOK
    <3> QED BY Zenon, <1>0, <2>0, <3>1, <3>2 DEF TypeOK, KtInv
  <2> QED BY Zenon, <2>1, <2>2
<1>18. CASE UNCHANGED vars
  BY Zenon, <1>18 DEF vars, KtInv
<1> QED
  BY Zenon, <1>1, <1>2, <1>3, <1>4, <1>5, <1>6, <1>7, <1>8, <1>9, <1>10, <1>11,
     <1>12, <1>13, <1>14, <1>15, <1>16, <1>17, <1>18
  DEF Next, Insert, KtStep, KtPop, Yield, Suspend, Terminate

\* A step of another thread cannot take away what wakes kt up.
LEMMA NextWakeInv == TypeOK /\ KtInv /\ WakeInv /\ [Next]_vars => WakeInv'
<1> SUFFICES ASSUME TypeOK, KtInv, WakeInv, [Next]_vars
             PROVE  WakeInv'
  BY Zenon
<1> USE DistinctConstants
<1>0. kt \in Thread /\ poller \in Thread /\ Peers \subseteq Thread
  BY Zenon DEF Thread
<1>1. ASSUME NEW t \in Thread, InsertExchange(t)
      PROVE  WakeInv'
  <2>1. CASE t = kt
    BY Zenon, <1>0, <1>1, <2>1 DEF TypeOK, WakeInv, InsertExchange, Goto
  <2>2. CASE t # kt
    <3> SUFFICES ASSUME pc[kt] \in {"main", "wait"} \/ (pc[kt] = "postSwitch" /\ ut = NULL)
                 PROVE  sem' > 0 \/ \E s \in Thread \ {kt} : OwesPost(s)'
      BY Zenon, <1>0, <1>1, <2>2 DEF TypeOK, WakeInv, InsertExchange, Goto, utVars
    <3>1. CASE tail.empty
      <4>1. OwesPost(t)'
        BY Zenon, <1>1, <3>1 DEF TypeOK, OwesPost, InsertExchange, Goto
      <4> QED BY Zenon, <2>2, <4>1
    <3>2. CASE sem > 0
      BY ZenonT(30), <1>1, <3>2 DEF InsertExchange
    <3>3. ASSUME NEW s \in Thread \ {kt}, OwesPost(s)
          PROVE  OwesPost(s)'
      BY Zenon, <1>1, <3>3 DEF TypeOK, OwesPost, InsertExchange, Goto
    <3> QED BY Zenon, <3>1, <3>2, <3>3 DEF WakeInv
  <2> QED BY Zenon, <2>1, <2>2
<1>2. ASSUME NEW t \in Thread, InsertLink(t)
      PROVE  WakeInv'
  <2>1. CASE t = kt
    BY Zenon, <1>0, <1>2, <2>1 DEF TypeOK, WakeInv, InsertLink, Goto, Returned
  <2>2. CASE t # kt
    <3>1. ASSUME NEW s \in Thread \ {kt}, OwesPost(s)
          PROVE  OwesPost(s)'
      BY Zenon, <1>2, <2>2, <3>1 DEF TypeOK, OwesPost, InsertLink, Goto, insertVars
    <3> QED
      BY Zenon, <1>0, <1>2, <2>2, <3>1 DEF TypeOK, WakeInv, InsertLink, Goto, utVars
  <2> QED BY Zenon, <2>1, <2>2
<1>3. ASSUME NEW t \in Thread, SchedulePost(t)
      PROVE  WakeInv'
  <2>1. sem' > 0
    BY SMTT(30), <1>3 DEF SchedulePost, TypeOK
  <2> QED BY Zenon, <2>1 DEF WakeInv
<1>4. ASSUME NEW t \in Peers \cup {kt}, NEW u \in UT, Resume(t, u)
      PROVE  WakeInv'
  <2>1. pc' = [pc EXCEPT ![t] = "exchange"] /\ t \in Thread
    BY Zenon, <1>4 DEF Resume, InsertBegin, Goto, Thread
  <2>2. ASSUME NEW s \in Thread \ {kt}, OwesPost(s)
        PROVE  OwesPost(s)'
    BY Zenon, <1>4, <2>1, <2>2 DEF TypeOK, OwesPost, Resume
  <2> QED
    BY Zenon, <1>0, <1>4, <2>1, <2>2 DEF TypeOK, WakeInv, Resume
<1>5. CASE PollerTimedwait
  BY ZenonT(30), <1>0, <1>5
  DEF TypeOK, WakeInv, OwesPost, PollerTimedwait, Goto, queueVars, insertVars, utVars
<1>6. CASE PollerRepost
  BY Zenon, <1>0, <1>6
  DEF TypeOK, WakeInv, OwesPost, PollerRepost, Goto, queueVars, insertVars, utVars
<1>7. CASE PollerNothing
  BY Zenon, <1>0, <1>7
  DEF TypeOK, WakeInv, OwesPost, PollerNothing, Goto, queueVars, insertVars, utVars
<1>8. ASSUME NEW c \in BulkQueues, PollerBulkPush(c)
      PROVE  WakeInv'
  BY ZenonT(30), <1>0, <1>8 DEF TypeOK, WakeInv, OwesPost, PollerBulkPush, InsertBegin, Goto
<1>9. CASE PopStart
  BY <1>0, <1>9 DEF TypeOK, WakeInv, PopStart, PopNull, Goto, queueVars
<1>10. CASE PopMarkEmpty
  <2>1. CASE tail = [node |-> stub, empty |-> FALSE]
    <3>1. tail'.empty
      BY SMTT(30), <1>10, <2>1 DEF PopMarkEmpty
    <3> QED BY Zenon, <3>1 DEF WakeInv
  <2>2. CASE tail # [node |-> stub, empty |-> FALSE]
    BY Zenon, <1>0, <1>10, <2>2 DEF TypeOK, WakeInv, PopMarkEmpty, Goto
  <2> QED BY Zenon, <2>1, <2>2
<1>11. CASE PopRemoveStub
  BY Zenon, <1>0, <1>11 DEF TypeOK, WakeInv, PopRemoveStub, InsertBegin, Goto
<1>12. CASE PopTake
  <2>1. head # NULL
    BY Zenon DEF TypeOK, Node
  <2> QED BY Zenon, <1>0, <1>12, <2>1 DEF TypeOK, WakeInv, PopTake, Goto
<1>13. CASE BlockingSwitch
  BY Zenon, <1>0, <1>13
  DEF TypeOK, WakeInv, OwesPost, BlockingSwitch, Goto, queueVars, insertVars, utVars
<1>14. CASE SemWait
  BY Zenon, <1>0, <1>14 DEF TypeOK, WakeInv, SemWait, Goto
<1>15. CASE BlockingSwitchReturn
  BY Zenon, <1>0, <1>15 DEF TypeOK, WakeInv, BlockingSwitchReturn, Goto
<1>16. ASSUME NEW s \in {"YIELD", "WAITING", "TERMINATED"}, NonBlockingSwitch(s)
       PROVE  WakeInv'
  BY Zenon, <1>0, <1>16 DEF TypeOK, WakeInv, NonBlockingSwitch, Goto
<1>17. CASE PostSwitch
  <2>0. pc[kt] = "postSwitch" /\ UNCHANGED <<wasEmpty, tail, ut, sem>>
    BY Zenon, <1>17 DEF PostSwitch
  <2>1. CASE state[currentUT] = "YIELD"
    <3>1. pc' = [pc EXCEPT ![kt] = "exchange"]
      BY Zenon, <1>17, <2>1 DEF PostSwitch, InsertBegin, Goto
    <3> QED BY Zenon, <1>0, <3>1 DEF TypeOK, WakeInv
  <2>2. CASE state[currentUT] # "YIELD"
    <3>1. pc' = [pc EXCEPT ![kt] = IF ut = NULL THEN "main" ELSE "run"]
      BY Zenon, <1>17, <2>2 DEF PostSwitch, Goto, TypeOK
    <3>2. ASSUME NEW s \in Thread \ {kt}, OwesPost(s)
          PROVE  OwesPost(s)'
      BY Zenon, <2>0, <3>1, <3>2 DEF TypeOK, OwesPost
    <3> QED BY Zenon, <1>0, <2>0, <3>1, <3>2 DEF TypeOK, WakeInv
  <2> QED BY Zenon, <2>1, <2>2
<1>18. CASE UNCHANGED vars
  BY Zenon, <1>18 DEF vars, WakeInv, OwesPost
<1> QED
  BY Zenon, <1>1, <1>2, <1>3, <1>4, <1>5, <1>6, <1>7, <1>8, <1>9, <1>10, <1>11,
     <1>12, <1>13, <1>14, <1>15, <1>16, <1>17, <1>18
  DEF Next, Insert, KtStep, KtPop, Yield, Suspend, Terminate

\* The IOHandler's semaphore counts kt exactly while kt is blocked.
LEMMA NextPollerGate == TypeOK /\ KtInv /\ PollerGate /\ [Next]_vars => PollerGate'
<1> SUFFICES ASSUME TypeOK, KtInv, PollerGate, [Next]_vars
             PROVE  PollerGate'
  BY Zenon
<1> USE DistinctConstants
<1>0. kt \in Thread /\ poller \in Thread /\ Peers \subseteq Thread
  BY Zenon DEF Thread
<1>1. ASSUME NEW t \in Thread, InsertExchange(t)
      PROVE  PollerGate'
  BY Zenon, <1>0, <1>1 DEF TypeOK, PollerGate, InsertExchange, Goto, utVars
<1>2. ASSUME NEW t \in Thread, InsertLink(t)
      PROVE  PollerGate'
  BY Zenon, <1>0, <1>2 DEF TypeOK, PollerGate, InsertLink, Goto, Returned, utVars
<1>3. ASSUME NEW t \in Thread, SchedulePost(t)
      PROVE  PollerGate'
  BY Zenon, <1>0, <1>3 DEF TypeOK, PollerGate, SchedulePost, Goto, Returned, utVars
<1>4. ASSUME NEW t \in Peers \cup {kt}, NEW u \in UT, Resume(t, u)
      PROVE  PollerGate'
  BY ZenonT(30), <1>0, <1>4 DEF TypeOK, PollerGate, Resume, InsertBegin, Goto
<1>5. CASE PollerTimedwait
  BY SMTT(30), <1>0, <1>5 DEF TypeOK, PollerGate, PollerTimedwait, Goto, utVars
<1>6. CASE PollerRepost
  BY SMTT(30), <1>0, <1>6 DEF TypeOK, PollerGate, PollerRepost, Goto, utVars
<1>7. CASE PollerNothing
  BY ZenonT(30), <1>0, <1>7 DEF TypeOK, PollerGate, PollerNothing, Goto, utVars
<1>8. ASSUME NEW c \in BulkQueues, PollerBulkPush(c)
      PROVE  PollerGate'
  BY SMTT(30), <1>0, <1>8 DEF TypeOK, PollerGate, PollerBulkPush, InsertBegin, Goto
<1>9. CASE PopStart
  BY ZenonT(30), <1>0, <1>9 DEF TypeOK, PollerGate, PopStart, PopNull, Goto
<1>10. CASE PopMarkEmpty
  BY ZenonT(30), <1>0, <1>10 DEF TypeOK, PollerGate, PopMarkEmpty, PopNull, Goto
<1>11. CASE PopRemoveStub
  BY Zenon, <1>0, <1>11 DEF TypeOK, PollerGate, PopRemoveStub, InsertBegin, Goto, utVars
<1>12. CASE PopTake
  BY ZenonT(30), <1>0, <1>12 DEF TypeOK, PollerGate, PopTake, Goto
<1>13. CASE BlockingSwitch
  BY SMTT(30), <1>0, <1>13 DEF TypeOK, KtInv, PollerGate, BlockingSwitch, Goto, utVars
<1>14. CASE SemWait
  BY Zenon, <1>0, <1>14 DEF TypeOK, PollerGate, SemWait, Goto, utVars
<1>15. CASE BlockingSwitchReturn
  BY SMTT(30), <1>0, <1>15 DEF TypeOK, KtInv, PollerGate, BlockingSwitchReturn, Goto
<1>16. ASSUME NEW s \in {"YIELD", "WAITING", "TERMINATED"}, NonBlockingSwitch(s)
       PROVE  PollerGate'
  BY Zenon, <1>0, <1>16 DEF TypeOK, KtInv, PollerGate, NonBlockingSwitch, Goto
<1>17. CASE PostSwitch
  <2>0. pc[kt] = "postSwitch" /\ currentUT \in UT /\ iosem' = iosem
    BY Zenon, <1>17 DEF PostSwitch, KtInv
  <2>1. \/ pc' = [pc EXCEPT ![kt] = "exchange"] /\ currentUT' \in UT
        \/ pc' = [pc EXCEPT ![kt] = "run"] /\ currentUT' \in UT
        \/ pc' = [pc EXCEPT ![kt] = "main"] /\ currentUT' = mainUT
    BY Zenon, <1>17, <2>0 DEF PostSwitch, InsertBegin, Goto, KtInv, TypeOK
  <2> QED BY Zenon, <1>0, <2>0, <2>1 DEF TypeOK, PollerGate
<1>18. CASE UNCHANGED vars
  BY Zenon, <1>18 DEF vars, PollerGate
<1> QED
  BY Zenon, <1>1, <1>2, <1>3, <1>4, <1>5, <1>6, <1>7, <1>8, <1>9, <1>10, <1>11,
     <1>12, <1>13, <1>14, <1>15, <1>16, <1>17, <1>18
  DEF Next, Insert, KtStep, KtPop, Yield, Suspend, Terminate

\* Every step keeps the queue well linked.
LEMMA NextQInv ==
  TypeOK /\ KtInv /\ QInv /\ ExactlyOnePlace /\ [Next]_vars => QInv'
<1> SUFFICES ASSUME TypeOK, KtInv, QInv, ExactlyOnePlace, [Next]_vars
             PROVE  QInv'
  BY Zenon
<1> USE DistinctConstants
<1>0. kt \in Thread /\ poller \in Thread /\ Peers \subseteq Thread
  BY Zenon DEF Thread
<1>1. ASSUME NEW t \in Thread, InsertExchange(t)
      PROVE  QInv'
  BY Zenon, <1>1, QueueExchange
<1>2. ASSUME NEW t \in Thread, InsertLink(t)
      PROVE  QInv'
  BY Zenon, <1>2, QueueLink
<1>3. ASSUME NEW t \in Thread, SchedulePost(t)
      PROVE  QInv'
  BY Zenon, <1>3, QueueFrame
  DEF TypeOK, SchedulePost, Goto, Returned, queueVars, insertVars
<1>4. ASSUME NEW t \in Peers \cup {kt}, NEW u \in UT, Resume(t, u)
      PROVE  QInv'
  <2>1. t \in Thread /\ u \in Node /\ pc[t] \notin {"link", "exchange"}
    BY Zenon, <1>4 DEF Resume, Thread, Node
  <2>2. /\ <<u>> \in Seq(Node) /\ <<u>> # <<>>
        /\ \A i, j \in 1 .. Len(<<u>>) : <<u>>[i] = <<u>>[j] => i = j
    BY <2>1
  <2>3. \A i \in 1 .. Len(<<u>>) : <<u>>[i] = u
    OBVIOUS
  <2>4. u \notin InQueue /\ \A s \in Thread : u \notin Inserting(s)
    BY Zenon, <1>4, <2>1 DEF Resume, ExactlyOnePlace
  <2>5. InsertBegin(t, <<u>>) /\ UNCHANGED <<head, tail, list, prev>>
    BY Zenon, <1>4 DEF Resume
  <2> QED BY ZenonT(60), <2>1, <2>2, <2>3, <2>4, <2>5, QueueBegin
<1>5. CASE PollerTimedwait
  BY Zenon, <1>0, <1>5, QueueFrame
  DEF TypeOK, PollerTimedwait, Goto, queueVars, insertVars
<1>6. CASE PollerRepost
  BY Zenon, <1>0, <1>6, QueueFrame DEF TypeOK, PollerRepost, Goto, queueVars, insertVars
<1>7. CASE PollerNothing
  BY Zenon, <1>0, <1>7, QueueFrame DEF TypeOK, PollerNothing, Goto, queueVars, insertVars
<1>8. ASSUME NEW c \in BulkQueues, PollerBulkPush(c)
      PROVE  QInv'
  <2>1. /\ c \in Seq(Node) /\ c # <<>>
        /\ \A i, j \in 1 .. Len(c) : c[i] = c[j] => i = j
    BY Zenon, BulkQueueProperties
  <2>2. pc[poller] \notin {"link", "exchange"}
    BY Zenon, <1>8 DEF PollerBulkPush
  <2>3. \A i \in 1 .. Len(c) : c[i] \in parked /\ c[i] \in Node
    BY <1>8, <2>1 DEF PollerBulkPush
  <2>4. /\ \A i \in 1 .. Len(c) : c[i] \notin InQueue
        /\ \A s \in Thread : \A i \in 1 .. Len(c) : c[i] \notin Inserting(s)
    BY Zenon, <2>3 DEF ExactlyOnePlace
  <2>5. InsertBegin(poller, c) /\ UNCHANGED <<head, tail, list, prev>>
    BY Zenon, <1>8 DEF PollerBulkPush
  <2> QED BY Zenon, <1>0, <2>1, <2>2, <2>4, <2>5, QueueBegin
<1>9. CASE PopStart
  BY <1>0, <1>9, QueueFrame
  DEF TypeOK, PopStart, PopNull, Goto, queueVars, insertVars
<1>10. CASE PopMarkEmpty
  <2>1. CASE tail = [node |-> stub, empty |-> FALSE]
    <3>1. tail'.node = stub /\ UNCHANGED <<next, head, list, chain, prev>>
      BY SMTT(30), <1>10, <2>1 DEF PopMarkEmpty, insertVars
    <3>2. Len(list) \in Nat /\ Len(list) >= 1 /\ list \in Seq(Node)
      BY Zenon, ListType DEF QInv, TypeOK
    <3>3. list[1] = stub /\ list[Len(list)] = stub
      BY Zenon, <1>10, <2>1 DEF PopMarkEmpty, KtInv, QInv, WellLinked
    <3>4. Len(list) = 1
      <4>1. 1 \in 1 .. Len(list) /\ Len(list) \in 1 .. Len(list)
        BY <3>2
      <4>2. \A i, j \in 1 .. Len(list) : list[i] = list[j] => i = j
        BY Zenon DEF QInv, WellLinked
      <4> QED BY Zenon, <3>3, <4>1, <4>2
    <3>5. list = <<stub>>
      BY SMTT(30), <3>2, <3>3, <3>4
    <3>6. \A t \in Thread : /\ pc'[t] = "link" <=> pc[t] = "link"
                            /\ pc'[t] = "exchange" <=> pc[t] = "exchange"
      BY ZenonT(30), <1>0, <1>10, <2>1 DEF TypeOK, PopMarkEmpty, PopNull, Goto
    <3>7. WellLinked'
      BY ZenonT(30), <3>1, <3>3, <3>4, <3>6 DEF QInv, WellLinked, Linked
    <3>8. InsertInv'
      BY <3>1, <3>6 DEF QInv, InsertInv
    <3> QED BY Zenon, <3>1, <3>5, <3>7, <3>8 DEF QInv, EmptyMark
  <2>2. CASE tail # [node |-> stub, empty |-> FALSE]
    BY Zenon, <1>0, <1>10, <2>2, QueueFrame DEF TypeOK, PopMarkEmpty, Goto, insertVars
  <2> QED BY Zenon, <2>1, <2>2
<1>11. CASE PopRemoveStub
  <2>1. pc[kt] = "spinStub" /\ head = stub /\ stub \in Node
    BY Zenon, <1>11 DEF PopRemoveStub, KtInv, Node
  <2>2. /\ next' = [next EXCEPT ![stub] = NULL]
        /\ chain' = [chain EXCEPT ![kt] = <<stub>>]
        /\ pc' = [pc EXCEPT ![kt] = "exchange"]
    BY Zenon, <1>0, <1>11, <2>1, InsertBeginSingle DEF PopRemoveStub
  <2>3. /\ next[head] # NULL /\ head' = next[head] /\ list' = Tail(list)
        /\ UNCHANGED <<tail, prev>>
    BY Zenon, <1>11, <2>1 DEF PopRemoveStub
  <2>4. \A t \in Thread : pc'[t] = "link" <=> pc[t] = "link"
    BY Zenon, <1>0, <2>1, <2>2 DEF TypeOK
  <2>5. \A t \in Thread :
           \/ /\ chain'[t] = chain[t]
              /\ pc'[t] = "exchange" <=> pc[t] = "exchange"
           \/ /\ chain'[t] = <<head>>
              /\ pc[t] # "link"
    BY Zenon, <1>0, <2>1, <2>2 DEF TypeOK
  <2>6. next' = [next EXCEPT ![head] = NULL]
    BY Zenon, <2>1, <2>2
  <2> QED BY Zenon, <2>3, <2>4, <2>5, <2>6, QueueDrop
<1>12. CASE PopTake
  <2>1. /\ next[head] # NULL /\ head' = next[head] /\ list' = Tail(list)
        /\ next' = [next EXCEPT ![head] = NULL]
        /\ UNCHANGED <<tail, chain, prev>>
    BY Zenon, <1>12 DEF PopTake, insertVars
  <2>2. \A t \in Thread : /\ pc'[t] = "link" <=> pc[t] = "link"
                          /\ pc'[t] = "exchange" <=> pc[t] = "exchange"
    BY Zenon, <1>0, <1>12 DEF TypeOK, PopTake, Goto
  <2> QED BY Zenon, <2>1, <2>2, QueueDrop
<1>13. CASE BlockingSwitch
  BY Zenon, <1>0, <1>13, QueueFrame DEF TypeOK, BlockingSwitch, Goto, queueVars, insertVars
<1>14. CASE SemWait
  BY Zenon, <1>0, <1>14, QueueFrame DEF TypeOK, SemWait, Goto, queueVars, insertVars
<1>15. CASE BlockingSwitchReturn
  BY Zenon, <1>0, <1>15, QueueFrame
  DEF TypeOK, BlockingSwitchReturn, Goto, queueVars, insertVars
<1>16. ASSUME NEW s \in {"YIELD", "WAITING", "TERMINATED"}, NonBlockingSwitch(s)
       PROVE  QInv'
  BY Zenon, <1>0, <1>16, QueueFrame
  DEF TypeOK, NonBlockingSwitch, Goto, queueVars, insertVars
<1>17. CASE PostSwitch
  <2>1. pc[kt] = "postSwitch" /\ currentUT \in UT /\ UNCHANGED <<head, tail, list, prev>>
    BY Zenon, <1>17 DEF PostSwitch, KtInv
  <2>2. CASE state[currentUT] = "YIELD"
    <3>1. currentUT \in Node /\ pc[kt] \notin {"link", "exchange"}
      BY Zenon, <2>1 DEF Node
    <3>2. /\ <<currentUT>> \in Seq(Node) /\ <<currentUT>> # <<>>
          /\ \A i, j \in 1 .. Len(<<currentUT>>) :
               <<currentUT>>[i] = <<currentUT>>[j] => i = j
      BY <3>1
    <3>3. \A i \in 1 .. Len(<<currentUT>>) : <<currentUT>>[i] = currentUT
      OBVIOUS
    <3>4. currentUT \notin InQueue /\ \A s \in Thread : currentUT \notin Inserting(s)
      BY Zenon, <3>1 DEF ExactlyOnePlace
    <3>5. InsertBegin(kt, <<currentUT>>)
      BY Zenon, <1>17, <2>2 DEF PostSwitch
    <3>6. /\ \A i \in 1 .. Len(<<currentUT>>) : <<currentUT>>[i] \notin InQueue
          /\ \A s \in Thread : \A i \in 1 .. Len(<<currentUT>>) :
               <<currentUT>>[i] \notin Inserting(s)
      BY Zenon, <3>3, <3>4
    <3>7. kt \in Thread /\ UNCHANGED <<head, tail, list, prev>>
      BY Zenon, <1>0, <2>1
    <3> QED BY Zenon, <3>1, <3>2, <3>5, <3>6, <3>7, QueueBegin
  <2>3. CASE state[currentUT] # "YIELD"
    <3>1. chain' = chain /\ next' = next /\ \E loc \in {"main", "run"} : pc' = [pc EXCEPT ![kt] = loc]
      BY Zenon, <1>17, <2>3 DEF PostSwitch, Goto
    <3>2. \A t \in Thread : /\ pc'[t] = "link" <=> pc[t] = "link"
                            /\ pc'[t] = "exchange" <=> pc[t] = "exchange"
      BY Zenon, <1>0, <2>1, <3>1 DEF TypeOK
    <3> QED BY Zenon, <2>1, <3>1, <3>2, QueueFrame
  <2> QED BY Zenon, <2>2, <2>3
<1>18. CASE UNCHANGED vars
  BY Zenon, <1>18, QueueFrame DEF vars
<1> QED
  BY Zenon, <1>1, <1>2, <1>3, <1>4, <1>5, <1>6, <1>7, <1>8, <1>9, <1>10, <1>11,
     <1>12, <1>13, <1>14, <1>15, <1>16, <1>17, <1>18
  DEF Next, Insert, KtStep, KtPop, Yield, Suspend, Terminate

-----------------------------------------------------------------------------
(* The place of every uThread.                                             *)

\* Nothing moves.
LEMMA PlacesFrame ==
  ASSUME ExactlyOnePlace, InQueue' = InQueue, Taken' = Taken,
         UNCHANGED <<parked, currentUT>>,
         \A t \in Thread : Inserting(t)' = Inserting(t)
  PROVE  ExactlyOnePlace'
BY DEF ExactlyOnePlace

\* A step of t that neither begins nor ends at tail.exchange.
LEMMA InsertingFrame ==
  ASSUME TypeOK, NEW t \in Thread, NEW loc, pc' = [pc EXCEPT ![t] = loc],
         pc[t] # "exchange", loc # "exchange", chain' = chain
  PROVE  \A s \in Thread : Inserting(s)' = Inserting(s)
BY Zenon DEF TypeOK, Inserting

\* A step of t that begins an insert.
LEMMA InsertingBegin ==
  ASSUME TypeOK, NEW t \in Thread, NEW c, InsertBegin(t, c), pc[t] # "exchange"
  PROVE  /\ Inserting(t) = {}
         /\ Inserting(t)' = {c[i] : i \in 1 .. Len(c)}
         /\ \A s \in Thread \ {t} : Inserting(s)' = Inserting(s)
BY SMTT(30) DEF TypeOK, Inserting, InsertBegin, Goto
\* Every step keeps every uThread in exactly one place.
LEMMA NextExactlyOnePlace ==
  TypeOK /\ KtInv /\ QInv /\ ExactlyOnePlace /\ [Next]_vars => ExactlyOnePlace'
<1> SUFFICES ASSUME TypeOK, KtInv, QInv, ExactlyOnePlace, [Next]_vars
             PROVE  ExactlyOnePlace'
  BY Zenon
<1> USE DistinctConstants
<1>0. kt \in Thread /\ poller \in Thread /\ Peers \subseteq Thread
  BY Zenon DEF Thread
<1>1. ASSUME NEW t \in Thread, InsertExchange(t)
      PROVE  ExactlyOnePlace'
  <2>1. /\ pc[t] = "exchange" /\ pc' = [pc EXCEPT ![t] = "link"] /\ chain' = chain
        /\ list' = list \o chain[t] /\ chain[t] \in Seq(Node)
        /\ UNCHANGED <<parked, currentUT, ut>>
    BY Zenon, <1>1 DEF TypeOK, InsertExchange, Goto, utVars
  <2>2. /\ Inserting(t) = {chain[t][i] : i \in 1 .. Len(chain[t])}
        /\ Inserting(t)' = {}
        /\ \A s \in Thread \ {t} : Inserting(s)' = Inserting(s)
    BY SMTT(30), <2>1 DEF TypeOK, Inserting
  <2>3. InQueue' = InQueue \cup Inserting(t)
    BY ZenonT(30), <2>1, <2>2, InQueueAppend
  <2>4. Taken' = Taken
    BY Zenon, <1>0, <2>1 DEF TypeOK, Taken
  <2> SUFFICES ASSUME NEW n \in Node
               PROVE  /\ \/ n \in (parked \cup InQueue \cup Taken \cup {currentUT})'
                         \/ \E s \in Thread : n \in Inserting(s)'
                      /\ n \in parked' => n \notin (InQueue \cup Taken \cup {currentUT})'
                      /\ n \in InQueue' => n \notin (Taken \cup {currentUT})'
                      /\ n \in Taken' => n # currentUT'
                      /\ \A s \in Thread : n \in Inserting(s)' =>
                           /\ n \notin (parked \cup InQueue \cup Taken \cup {currentUT})'
                           /\ \A r \in Thread \ {s} : n \notin Inserting(r)'
    BY Zenon DEF ExactlyOnePlace
  <2>5. CASE n \in Inserting(t)
    <3>1. \A s \in Thread : n \notin Inserting(s)'
      BY SMTT(30), <2>2, <2>5 DEF ExactlyOnePlace
    <3> QED BY Zenon, <2>1, <2>3, <2>4, <2>5, <3>1 DEF ExactlyOnePlace
  <2>6. CASE n \notin Inserting(t)
    <3>1. \A s \in Thread : n \in Inserting(s)' <=> n \in Inserting(s)
      BY Zenon, <2>2, <2>6
    <3>2. n \in InQueue' <=> n \in InQueue
      BY Zenon, <2>3, <2>6
    <3> QED BY Zenon, <2>1, <2>4, <3>1, <3>2 DEF ExactlyOnePlace
  <2> QED BY Zenon, <2>5, <2>6
<1>2. ASSUME NEW t \in Thread, InsertLink(t)
      PROVE  ExactlyOnePlace'
  <2>1. PICK loc \in {"spinHead", "post", "run", "gate", "idle"} :
          pc' = [pc EXCEPT ![t] = loc]
    BY Zenon, <1>2 DEF InsertLink, Goto, Returned
  <2>2. pc[t] = "link" /\ chain' = chain /\ UNCHANGED <<list, parked, currentUT, ut>>
    BY Zenon, <1>2 DEF InsertLink, insertVars, utVars
  <2>3. \A s \in Thread : Inserting(s)' = Inserting(s)
    BY Zenon, <2>1, <2>2, InsertingFrame
  <2>4. Taken' = Taken
    BY Zenon, <1>0, <2>1, <2>2 DEF TypeOK, Taken
  <2> QED BY Zenon, <2>2, <2>3, <2>4, PlacesFrame DEF InQueue
<1>3. ASSUME NEW t \in Thread, SchedulePost(t)
      PROVE  ExactlyOnePlace'
  <2>1. PICK loc \in {"run", "gate", "idle"} : pc' = [pc EXCEPT ![t] = loc]
    BY Zenon, <1>3 DEF SchedulePost, Goto, Returned
  <2>2. pc[t] = "post" /\ chain' = chain /\ UNCHANGED <<list, parked, currentUT, ut>>
    BY Zenon, <1>3 DEF SchedulePost, queueVars, insertVars, utVars
  <2>3. \A s \in Thread : Inserting(s)' = Inserting(s)
    BY Zenon, <2>1, <2>2, InsertingFrame
  <2>4. Taken' = Taken
    BY Zenon, <1>0, <2>1, <2>2 DEF TypeOK, Taken
  <2> QED BY Zenon, <2>2, <2>3, <2>4, PlacesFrame DEF InQueue
<1>4. ASSUME NEW t \in Peers \cup {kt}, NEW u \in UT, Resume(t, u)
      PROVE  ExactlyOnePlace'
  <2>1. /\ t \in Thread /\ pc[t] \in {"run", "idle"} /\ u \in parked
        /\ parked' = parked \ {u} /\ InsertBegin(t, <<u>>)
        /\ UNCHANGED <<list, currentUT, ut>>
    BY Zenon, <1>0, <1>4 DEF Resume
  <2>2. {<<u>>[i] : i \in 1 .. Len(<<u>>)} = {u}
    OBVIOUS
  <2>3. /\ Inserting(t) = {} /\ Inserting(t)' = {u}
        /\ \A s \in Thread \ {t} : Inserting(s)' = Inserting(s)
    BY SMTT(30), <2>1, <2>2, InsertingBegin
  <2>4. InQueue' = InQueue /\ Taken' = Taken
    <3>1. pc \in [Thread -> KtLoc \cup PeerLoc \cup PollerLoc] /\ pc' = [pc EXCEPT ![t] = "exchange"]
      BY Zenon, <1>0, <2>1 DEF TypeOK, InsertBegin, Goto
    <3>2. pc'[kt] = pc[kt] \/ (pc[kt] \in {"run", "idle"} /\ pc'[kt] = "exchange")
      BY Zenon, <2>1, <3>1 DEF Thread
    <3> QED
      BY Zenon, <2>1, <3>2 DEF InQueue, Taken
  <2>5. u \in Node
    BY Zenon DEF Node
  <2> QED BY SMTT(30), <2>1, <2>3, <2>4, <2>5 DEF ExactlyOnePlace
<1>5. CASE PollerTimedwait
  <2>1. /\ \A s \in Thread : Inserting(s)' = Inserting(s)
        /\ Taken' = Taken
    BY ZenonT(30), <1>0, <1>5, InsertingFrame DEF TypeOK, PollerTimedwait, Goto, Taken, insertVars, utVars
  <2>2. UNCHANGED <<list, parked, currentUT>>
    BY Zenon, <1>5 DEF PollerTimedwait, queueVars, utVars
  <2> QED BY Zenon, <2>1, <2>2, PlacesFrame DEF InQueue
<1>6. CASE PollerRepost
  <2>1. /\ \A s \in Thread : Inserting(s)' = Inserting(s)
        /\ Taken' = Taken
    BY Zenon, <1>0, <1>6, InsertingFrame DEF TypeOK, PollerRepost, Goto, Taken, insertVars, utVars
  <2>2. UNCHANGED <<list, parked, currentUT>>
    BY Zenon, <1>6 DEF PollerRepost, queueVars, utVars
  <2> QED BY Zenon, <2>1, <2>2, PlacesFrame DEF InQueue
<1>7. CASE PollerNothing
  <2>1. /\ \A s \in Thread : Inserting(s)' = Inserting(s)
        /\ Taken' = Taken
    BY ZenonT(30), <1>0, <1>7, InsertingFrame DEF TypeOK, PollerNothing, Goto, Taken, insertVars, utVars
  <2>2. UNCHANGED <<list, parked, currentUT>>
    BY Zenon, <1>7 DEF PollerNothing, queueVars, utVars
  <2> QED BY Zenon, <2>1, <2>2, PlacesFrame DEF InQueue
<1>8. ASSUME NEW c \in BulkQueues, PollerBulkPush(c)
      PROVE  ExactlyOnePlace'
  <2> DEFINE S == {c[i] : i \in 1 .. Len(c)}
  <2>1. /\ pc[poller] = "poll" /\ S \subseteq parked
        /\ parked' = parked \ S /\ InsertBegin(poller, c)
        /\ UNCHANGED <<list, currentUT, ut>>
    BY Zenon, <1>8 DEF PollerBulkPush
  <2>2. /\ Inserting(poller) = {} /\ Inserting(poller)' = S
        /\ \A s \in Thread \ {poller} : Inserting(s)' = Inserting(s)
    BY Zenon, <1>0, <2>1, InsertingBegin
  <2>3. InQueue' = InQueue /\ Taken' = Taken
    BY SMTT(30), <1>0, <2>1 DEF TypeOK, InQueue, Taken, InsertBegin, Goto
  <2> HIDE DEF S
  <2> QED BY <1>0, <2>1, <2>2, <2>3 DEF ExactlyOnePlace
<1>9. CASE PopStart
  <2>1. PICK loc \in {"spinHead", "cas", "wait", "run", "postSwitch"} :
          /\ pc' = [pc EXCEPT ![kt] = loc]
          /\ loc = "postSwitch" => ut' = NULL
    BY Zenon, <1>9 DEF PopStart, PopNull, Goto
  <2>2. pc[kt] = "pop" /\ chain' = chain /\ UNCHANGED <<list, parked, currentUT>>
    BY Zenon, <1>9 DEF PopStart, queueVars, insertVars
  <2>3. \A s \in Thread : Inserting(s)' = Inserting(s)
    BY ZenonT(30), <1>0, <2>1, <2>2, InsertingFrame
  <2>4. Taken' = Taken
    BY Zenon, <1>0, <2>1, <2>2 DEF TypeOK, Taken
  <2> QED BY Zenon, <2>2, <2>3, <2>4, PlacesFrame DEF InQueue
<1>10. CASE PopMarkEmpty
  <2>1. PICK loc \in {"spinStub", "wait", "run", "postSwitch"} :
          /\ pc' = [pc EXCEPT ![kt] = loc]
          /\ loc = "postSwitch" => ut' = NULL
    BY Zenon, <1>10 DEF PopMarkEmpty, PopNull, Goto
  <2>2. pc[kt] = "cas" /\ chain' = chain /\ UNCHANGED <<list, parked, currentUT>>
    BY Zenon, <1>10 DEF PopMarkEmpty, insertVars
  <2>3. \A s \in Thread : Inserting(s)' = Inserting(s)
    BY ZenonT(30), <1>0, <2>1, <2>2, InsertingFrame
  <2>4. Taken' = Taken
    BY Zenon, <1>0, <2>1, <2>2 DEF TypeOK, Taken
  <2> QED BY Zenon, <2>2, <2>3, <2>4, PlacesFrame DEF InQueue
<1>11. CASE PopRemoveStub
  <2>1. /\ pc[kt] = "spinStub" /\ head = stub /\ list' = Tail(list)
        /\ InsertBegin(kt, <<stub>>) /\ UNCHANGED <<parked, currentUT, ut>>
    BY Zenon, <1>11 DEF PopRemoveStub, KtInv, utVars
  <2>2. {<<stub>>[i] : i \in 1 .. Len(<<stub>>)} = {stub}
    OBVIOUS
  <2>3. /\ Inserting(kt) = {} /\ Inserting(kt)' = {stub}
        /\ \A s \in Thread \ {kt} : Inserting(s)' = Inserting(s)
    BY ZenonT(30), <1>0, <2>1, <2>2, InsertingBegin
  <2>4. InQueue' = InQueue \ {stub}
    BY Zenon, <2>1, InQueueTail DEF QInv
  <2>5. Taken' = Taken
    BY Zenon, <1>0, <2>1 DEF TypeOK, Taken, InsertBegin, Goto
  <2>6. stub \in InQueue /\ stub \in Node
    <3>1. head \in InQueue
      BY SMTT(30), ListType DEF QInv, WellLinked, InQueue
    <3> QED BY Zenon, <2>1, <3>1 DEF Node
  <2> QED BY SMTT(60), <1>0, <2>1, <2>3, <2>4, <2>5, <2>6 DEF ExactlyOnePlace
<1>12. CASE PopTake
  <2>1. /\ pc[kt] = "spinHead" /\ ut' = head /\ list' = Tail(list)
        /\ UNCHANGED <<parked, currentUT, chain>>
    BY Zenon, <1>12 DEF PopTake, insertVars
  <2>2. PICK loc \in {"trywait", "postSwitch"} : pc' = [pc EXCEPT ![kt] = loc]
    BY Zenon, <1>12 DEF PopTake, Goto
  <2>3. \A s \in Thread : Inserting(s)' = Inserting(s)
    BY Zenon, <1>0, <2>1, <2>2, InsertingFrame
  <2>4. InQueue' = InQueue \ {head}
    BY Zenon, <2>1, InQueueTail DEF QInv
  <2>5. head \in InQueue /\ head \in Node /\ head # NULL
    <3>1. head \in InQueue
      BY SMTT(30), ListType DEF QInv, WellLinked, InQueue
    <3>2. head \in Node /\ head # NULL
      BY Zenon DEF TypeOK, Node
    <3> QED BY Zenon, <3>1, <3>2
  <2>6. Taken = {} /\ Taken' = {head}
    BY Zenon, <1>0, <2>1, <2>2, <2>5 DEF TypeOK, Taken
  <2> QED BY SMTT(30), <2>1, <2>3, <2>4, <2>5, <2>6 DEF ExactlyOnePlace
<1>13. CASE BlockingSwitch
  <2>1. /\ \A s \in Thread : Inserting(s)' = Inserting(s)
        /\ Taken' = Taken
    BY Zenon, <1>0, <1>13, InsertingFrame DEF TypeOK, BlockingSwitch, Goto, Taken, insertVars, utVars
  <2>2. UNCHANGED <<list, parked, currentUT>>
    BY Zenon, <1>13 DEF BlockingSwitch, queueVars, utVars
  <2> QED BY Zenon, <2>1, <2>2, PlacesFrame DEF InQueue
<1>14. CASE SemWait
  <2>1. /\ \A s \in Thread : Inserting(s)' = Inserting(s)
        /\ Taken' = Taken
    BY ZenonT(30), <1>0, <1>14, InsertingFrame DEF TypeOK, SemWait, Goto, Taken, insertVars, utVars
  <2>2. UNCHANGED <<list, parked, currentUT>>
    BY Zenon, <1>14 DEF SemWait, queueVars, utVars
  <2> QED BY Zenon, <2>1, <2>2, PlacesFrame DEF InQueue
<1>15. CASE BlockingSwitchReturn
  <2>1. /\ pc[kt] = "trywait" /\ currentUT' = ut /\ pc' = [pc EXCEPT ![kt] = "run"]
        /\ UNCHANGED <<parked, list, chain, ut>> /\ currentUT = mainUT /\ ut \in UT
    BY Zenon, <1>15 DEF BlockingSwitchReturn, KtInv, Goto, queueVars, insertVars
  <2>2. \A s \in Thread : Inserting(s)' = Inserting(s)
    BY ZenonT(30), <1>0, <2>1, InsertingFrame
  <2>3. Taken = {ut} /\ Taken' = {} /\ InQueue' = InQueue
    BY <1>0, <2>1 DEF TypeOK, Taken, InQueue
  <2>4. mainUT \notin Node /\ ut \in Node
    BY Zenon, <2>1 DEF Node
  <2> QED BY <2>1, <2>2, <2>3, <2>4 DEF ExactlyOnePlace
<1>16. ASSUME NEW s \in {"YIELD", "WAITING", "TERMINATED"}, NonBlockingSwitch(s)
       PROVE  ExactlyOnePlace'
  <2>1. /\ pc[kt] = "run" /\ pc' = [pc EXCEPT ![kt] = "pop"]
        /\ UNCHANGED <<list, parked, currentUT, chain, ut>>
    BY Zenon, <1>16 DEF NonBlockingSwitch, Goto, queueVars, insertVars
  <2>2. \A t \in Thread : Inserting(t)' = Inserting(t)
    BY Zenon, <1>0, <2>1, InsertingFrame
  <2>3. Taken' = Taken
    BY Zenon, <1>0, <2>1 DEF TypeOK, Taken
  <2> QED BY ZenonT(30), <2>1, <2>2, <2>3, PlacesFrame DEF InQueue
<1>17. CASE PostSwitch
  <2> DEFINE nextuThread == IF ut = NULL THEN mainUT ELSE ut
  <2>1. /\ pc[kt] = "postSwitch" /\ currentUT' = nextuThread /\ currentUT \in UT
        /\ UNCHANGED <<list, ut>>
    BY Zenon, <1>17 DEF PostSwitch, KtInv
  <2>2. currentUT \in Node /\ mainUT \notin Node /\ InQueue' = InQueue
    BY Zenon, <2>1 DEF Node, InQueue
  <2>3. Taken = IF ut = NULL THEN {} ELSE {ut}
    BY Zenon, <2>1 DEF Taken
  <2>4. Taken \cap Node = {nextuThread} \cap Node
    <3>1. CASE ut = NULL
      BY Zenon, <2>2, <2>3, <3>1
    <3>2. CASE ut # NULL
      BY Zenon, <2>3, <3>2
    <3> QED BY Zenon, <3>1, <3>2
  <2> HIDE DEF nextuThread
  <2>5. CASE state[currentUT] = "YIELD"
    <3>1. InsertBegin(kt, <<currentUT>>) /\ parked' = parked
      BY Zenon, <1>17, <2>5 DEF PostSwitch
    <3>2. {<<currentUT>>[i] : i \in 1 .. Len(<<currentUT>>)} = {currentUT}
      OBVIOUS
    <3>3. /\ Inserting(kt) = {} /\ Inserting(kt)' = {currentUT}
          /\ \A s \in Thread \ {kt} : Inserting(s)' = Inserting(s)
      BY ZenonT(30), <1>0, <2>1, <3>1, <3>2, InsertingBegin
    <3>4. Taken' = {}
      BY Zenon, <1>0, <3>1 DEF TypeOK, InsertBegin, Goto, Taken
    <3> QED BY SMTT(30), <1>0, <2>1, <2>2, <2>4, <3>1, <3>3, <3>4 DEF ExactlyOnePlace
  <2>6. CASE state[currentUT] # "YIELD"
    <3>1. parked' = parked \cup {currentUT} /\ chain' = chain
      BY Zenon, <1>17, <2>6 DEF PostSwitch
    <3>2. PICK loc \in {"main", "run"} : pc' = [pc EXCEPT ![kt] = loc]
      BY Zenon, <1>17, <2>6 DEF PostSwitch, Goto
    <3>3. \A s \in Thread : Inserting(s)' = Inserting(s)
      BY Zenon, <1>0, <2>1, <3>1, <3>2, InsertingFrame
    <3>4. Taken' = {}
      BY Zenon, <1>0, <3>2 DEF TypeOK, Taken
    <3> QED BY SMTT(30), <2>1, <2>2, <2>4, <3>1, <3>3, <3>4 DEF ExactlyOnePlace
  <2> QED BY Zenon, <2>5, <2>6
<1>18. CASE UNCHANGED vars
  <2>1. /\ \A s \in Thread : Inserting(s)' = Inserting(s)
        /\ Taken' = Taken /\ InQueue' = InQueue
        /\ UNCHANGED <<parked, currentUT>>
    BY Zenon, <1>18 DEF vars, Inserting, Taken, InQueue
  <2> QED BY Zenon, <2>1, PlacesFrame
<1> QED
  BY Zenon, <1>1, <1>2, <1>3, <1>4, <1>5, <1>6, <1>7, <1>8, <1>9, <1>10, <1>11,
     <1>12, <1>13, <1>14, <1>15, <1>16, <1>17, <1>18
  DEF Next, Insert, KtStep, KtPop, Yield, Suspend, Terminate

-----------------------------------------------------------------------------
(* The theorems.                                                           *)

\* The inductive invariant holds initially: the stub alone in a queue that
\* is marked empty, every uThread parked, kt in defaultRun.
LEMMA InitIInv == Init => IInv
<1> SUFFICES ASSUME Init
             PROVE  IInv
  BY Zenon
<1> USE DistinctConstants
<1>1. kt \in Thread /\ poller \in Thread /\ stub \in Node
  BY Zenon DEF Thread, Node
<1>2. TypeOK
  BY Zenon, InitTypeOK
<1>3. /\ list = <<stub>> /\ Len(list) = 1 /\ list[1] = stub /\ head = stub
      /\ tail.node = stub /\ tail.empty /\ next[stub] = NULL
  BY Zenon, <1>1 DEF Init
<1>4. \A t \in Thread : pc[t] \in {"main", "gate", "idle"}
  BY Zenon DEF Init
<1>5. pc[kt] = "main" /\ pc[poller] = "gate"
  BY Zenon, <1>1 DEF Init
<1>6. ChainInv
  BY Zenon, <1>4 DEF ChainInv
<1>7. KtInv
  BY Zenon, <1>5 DEF KtInv, Init
<1>8. WakeInv
  BY Zenon, <1>3 DEF WakeInv
<1>9. WellLinked
  BY SMTT(30), <1>3 DEF WellLinked
<1>10. InsertInv
  BY Zenon, <1>4 DEF InsertInv
<1>11. EmptyMark
  BY Zenon, <1>3 DEF EmptyMark
<1>12. ExactlyOnePlace
  <2>1. InQueue = {stub}
    BY <1>3 DEF InQueue
  <2>2. Taken = {} /\ \A t \in Thread : Inserting(t) = {}
    BY Zenon, <1>1, <1>4 DEF Taken, Inserting
  <2>3. parked = UT /\ currentUT = mainUT
    BY Zenon DEF Init
  <2> QED BY Zenon, <2>1, <2>2, <2>3 DEF ExactlyOnePlace, Node
<1>13. PollerGate
  BY <1>5 DEF PollerGate, Init
<1> QED
  BY Zenon, <1>2, <1>6, <1>7, <1>8, <1>9, <1>10, <1>11, <1>12, <1>13 DEF IInv

\* Every step preserves the inductive invariant.
LEMMA NextIInv == IInv /\ [Next]_vars => IInv'
BY Zenon, NextTypeOK, NextChainInv, NextKtInv, NextWakeInv, NextPollerGate,
   NextQInv, NextExactlyOnePlace DEF IInv, QInv

\* The inductive invariant of the scheduler: the memory of the queue, the
\* threads inside insert() and pop(), and the semaphores fit together.
THEOREM Invariance == Spec => []IInv
BY InitIInv, NextIInv, PTL DEF Spec

\* Type correctness of the scheduler, for any number of uThreads and peers.
THEOREM TypeCorrect == Spec => []TypeOK
<1>1. IInv => TypeOK
  BY Zenon DEF IInv
<1> QED BY <1>1, Invariance, PTL

\* The links of BlockingMPSCQueue are never broken by concurrent inserts,
\* by pop() or by the re-insertion of the stub.
THEOREM QueueWellLinked == Spec => []WellLinked
<1>1. IInv => WellLinked
  BY Zenon DEF IInv
<1> QED BY <1>1, Invariance, PTL

\* No uThread is lost, duplicated, or queued while it runs, whatever the
\* interleaving of resume, bulkPush and the switches of the kThread.
THEOREM OnePlace == Spec => []ExactlyOnePlace
<1>1. IInv => ExactlyOnePlace
  BY Zenon DEF IInv
<1> QED BY <1>1, Invariance, PTL

\* A kThread that sleeps in blockingSwitch while its queue holds a uThread
\* has been posted or is about to be: the mark that pop() leaves in tail and
\* the post of whoever finds it cannot miss each other.
THEOREM WakeupNotLost == Spec => []NoLostWakeup
<1>1. IInv => NoLostWakeup
  <2> SUFFICES ASSUME IInv, pc[kt] = "wait", Queued # <<>>
               PROVE  sem > 0 \/ \E t \in Thread \ {kt} : OwesPost(t)
    BY Zenon DEF NoLostWakeup
  <2>1. ASSUME tail.empty
        PROVE  FALSE
    <3>1. list = <<stub>> /\ Len(list) = 1 /\ list[1] = stub
      BY <2>1 DEF IInv, EmptyMark
    <3>2. stub \in InQueue
      BY <3>1 DEF InQueue
    <3>3. Queued = [i \in 1 .. 0 |->
                      IF i < (CHOOSE k \in 1 .. Len(list) : list[k] = stub)
                      THEN list[i] ELSE list[i + 1]]
      BY <3>1, <3>2 DEF Queued
    <3>4. Queued = <<>>
      BY <3>3
    <3> QED BY Zenon, <3>4
  <2> QED BY Zenon, <2>1 DEF IInv, WakeInv
<1> QED BY <1>1, Invariance, PTL

\* The poller's semaphore counts exactly the kThreads inside blockingSwitch.
THEOREM PollerGateExact == Spec => []PollerGate
<1>1. IInv => PollerGate
  BY Zenon DEF IInv
<1> QED BY <1>1, Invariance, PTL
=============================================================================
