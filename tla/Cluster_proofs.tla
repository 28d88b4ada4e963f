---------------------------- MODULE Cluster_proofs ----------------------------
(***************************************************************************)
(* Proofs about module Cluster, for any number of kThreads, uThreads and    *)
(* clusters: until a read of ktVector without mtx meets the emplace_back    *)
(* that moves it, assignkThread indexes inside ktVector although the vector *)
(* grows between its steps, and uThreads run in their clusters.             *)
(***************************************************************************)
EXTENDS Cluster, TLAPS

\* (last + 1) % size is an index of the vector.
LEMMA NextInRange ==
  ASSUME NEW last \in Nat, NEW size \in Nat, size > 0
  PROVE  NextIndex(last, size) \in Nat /\ NextIndex(last, size) < size
  BY DEF NextIndex

\* Append keeps the elements of a sequence and puts the new one last.
LEMMA AppendElements ==
  ASSUME NEW S, NEW s \in Seq(S), NEW e \in S
  PROVE  /\ Append(s, e) \in Seq(S) /\ Len(Append(s, e)) = Len(s) + 1 /\ Append(s, e) # <<>>
         /\ \A i \in 1..Len(s) + 1 : Append(s, e)[i] = IF i <= Len(s) THEN s[i] ELSE e
  OBVIOUS

\* Tail drops the first element of a sequence that is not empty.
LEMMA TailElements ==
  ASSUME NEW S, NEW s \in Seq(S), s # <<>>
  PROVE  /\ Head(s) = s[1] /\ Head(s) \in S /\ Len(s) \in Nat /\ Len(s) >= 1
         /\ Tail(s) \in Seq(S) /\ Len(Tail(s)) = Len(s) - 1
         /\ \A i \in 1..Len(s) - 1 : Tail(s)[i] = s[i + 1]
  OBVIOUS

\* The static objects satisfy the invariant: defaultKT alone, running main().
LEMMA InitInv == Init => IInv
<1> SUFFICES ASSUME Init PROVE IInv
  OBVIOUS
<1> USE ClusterAssumption
<1>1. Types
  <2>1. /\ ktVector \in [C -> Seq(KT)] /\ number = [c \in C |-> Len(ktVector[c])]
        /\ localCluster \in [KT -> C \cup {NULL}] /\ run \in [KT -> {"none", "init", "loop", "func"}]
    BY DEF Init
  <2>2. /\ ktLast \in [C -> Nat] /\ next \in [UT -> Nat] /\ kt \in [UT -> Nat] /\ raced \in BOOLEAN
        /\ cluster \in [UT -> C \cup {NULL}] /\ home \in [UT -> KT \cup {NULL}]
    BY DEF Init
  <2> QED
    BY <2>1, <2>2 DEF Init, Types, TypeOK, Placed, Assigning
<1>2. Members
  BY DEF Init, Members
<1>3. Indices
  BY DEF Init, Indices, Assigning
<1>4. Homes
  BY DEF Init, Homes, Placed
<1>5. Places
  BY DEF Init, Places
<1> QED
  BY <1>1, <1>2, <1>3, <1>4, <1>5 DEF IInv

\* A step that leaves the vectors and the kThreads alone keeps the members of a cluster.
LEMMA MembersKept ==
  ASSUME Members, UNCHANGED <<ktVector, emplacing, localCluster, ctor>>
  PROVE  Members'
  BY DEF Members

\* So do the indices, when no uThread enters assignkThread.
LEMMA IndicesKept ==
  ASSUME Indices, UNCHANGED <<ktVector, ktLast, next, kt, raced, cluster>>,
         \A v \in UT : pc'[v] \in Assigning => pc'[v] = pc[v]
  PROVE  Indices'
<1>1. \A u \in UT : pc'[u] \in Assigning => cluster'[u] \in C /\ ktVector'[cluster'[u]] # <<>>
  BY DEF Indices
<1>2. ~raced' => \A c \in C : IF ktVector'[c] = <<>> THEN ktLast'[c] = 0 ELSE ktLast'[c] < Len(ktVector'[c])
  BY DEF Indices
<1>3. ~raced' => \A u \in UT : pc'[u] = "exchange" => next'[u] < Len(ktVector'[cluster'[u]])
  BY DEF Indices, Assigning
<1>4. ~raced' => \A u \in UT : pc'[u] = "index" => kt'[u] < Len(ktVector'[cluster'[u]])
  BY DEF Indices, Assigning
<1> QED
  BY <1>1, <1>2, <1>3, <1>4 DEF Indices

\* A uThread that was assigned before the step keeps its home, and the home its cluster.
LEMMA HomesKept ==
  ASSUME Homes, UNCHANGED <<home, cluster>>, raced => raced',
         \A k \in KT : ctor[k] # "none" => ctor'[k] # "none" /\ localCluster'[k] = localCluster[k],
         \A v \in UT : (pc'[v] = "new" => pc[v] = "new") /\ (pc'[v] \in Placed => pc[v] \in Placed)
  PROVE  Homes'
<1>1. \A u \in UT : pc'[u] = "new" => home'[u] = NULL
  BY DEF Homes
<1>2. ~raced' => \A u \in UT : pc'[u] \in Placed =>
        /\ cluster'[u] \in C /\ home'[u] \in KT
        /\ localCluster'[home'[u]] = cluster'[u] /\ ctor'[home'[u]] # "none"
  BY DEF Homes
<1> QED
  BY <1>1, <1>2 DEF Homes

\* A uThread that stays in its queue keeps its place.
LEMMA QueuesKept ==
  ASSUME Types, Places, UNCHANGED queue,
         \A v \in UT : pc[v] = "ready" => pc'[v] = "ready" /\ home'[v] = home[v]
  PROVE  /\ \A k \in KT : \A i \in 1..Len(queue'[k]) : pc'[queue'[k][i]] = "ready" /\ home'[queue'[k][i]] = k
         /\ \A k \in KT : \A i, j \in 1..Len(queue'[k]) : queue'[k][i] = queue'[k][j] => i = j
<1>1. \A k \in KT : \A i \in 1..Len(queue[k]) : queue[k][i] \in UT
  BY DEF Types
<1>2. \A k \in KT : \A i \in 1..Len(queue'[k]) : pc'[queue'[k][i]] = "ready" /\ home'[queue'[k][i]] = k
  BY <1>1 DEF Places
<1>3. \A k \in KT : \A i, j \in 1..Len(queue'[k]) : queue'[k][i] = queue'[k][j] => i = j
  BY DEF Places
<1> QED
  BY Zenon, <1>2, <1>3

\* So does one that stays on its kThread.
LEMMA PlacesKept ==
  ASSUME Types, Places, UNCHANGED <<queue, currentUT>>,
         \A v \in UT : pc[v] = "ready" => pc'[v] = "ready" /\ home'[v] = home[v],
         \A v \in UT : pc[v] \notin {"new", "ready"} => pc'[v] \notin {"new", "ready"},
         \A v \in UT : pc'[v] = "running" => pc[v] = "running" /\ home'[v] = home[v]
  PROVE  Places'
<1>1. \A k \in KT : currentUT'[k] # NULL =>
        /\ pc'[currentUT'[k]] \notin {"new", "ready"}
        /\ pc'[currentUT'[k]] = "running" => home'[currentUT'[k]] = k
  <2>1. \A k \in KT : currentUT[k] # NULL => currentUT[k] \in UT
    BY DEF Types
  <2> QED
    BY <2>1 DEF Places
<1> QED
  BY <1>1, QueuesKept DEF Places

\* Every step preserves it.
LEMMA StepInv ==
  ASSUME IInv, [Next]_vars
  PROVE  IInv'
<1> USE ClusterAssumption
<1>t. Types /\ Members /\ Indices /\ Homes /\ Places
  BY DEF IInv
<1>1. ASSUME NEW k \in KT, NEW c \in C, NEW func \in BOOLEAN, Spawn(k, c, func) PROVE IInv'
  <2>1. Types'
    BY SMTT(30), <1>t, <1>1 DEF Types, TypeOK, Placed, Assigning, Spawn, AfterSpawn, ctVars, assignVars
  <2>2. Members'
    BY SMTT(60), <1>t, <1>1 DEF Members, Types, TypeOK, Placed, Assigning, Spawn, AfterSpawn, ctVars, assignVars
  <2>3. Indices'
    BY <1>t, <1>1, IndicesKept DEF Spawn, assignVars
  <2>4. Homes'
    BY <1>t, <1>1, HomesKept DEF Types, Placed, Assigning, Spawn, AfterSpawn, assignVars
  <2>5. Places'
    BY <1>t, <1>1, PlacesKept DEF Spawn
  <2> QED
    BY <2>1, <2>2, <2>3, <2>4, <2>5 DEF IInv
<1>2. ASSUME NEW k \in KT, AddBegin(k) PROVE IInv'
  <2>1. Types'
    BY <1>t, <1>2 DEF Types, TypeOK, Placed, Assigning, AddBegin, ctVars, assignVars
  <2>2. Members'
    BY SMTT(60), <1>t, <1>2 DEF Members, Types, TypeOK, Placed, Assigning, AddBegin, ctVars, assignVars
  <2>3. Indices'
    BY <1>t, <1>2, IndicesKept DEF AddBegin, assignVars
  <2>4. Homes'
    BY <1>t, <1>2, HomesKept DEF Types, Placed, Assigning, AddBegin, assignVars
  <2>5. Places'
    BY <1>t, <1>2, PlacesKept DEF AddBegin
  <2> QED
    BY <2>1, <2>2, <2>3, <2>4, <2>5 DEF IInv
<1>3. ASSUME NEW k \in KT, AddEnd(k) PROVE IInv'
  <2> DEFINE d == localCluster[k]
  <2>a. /\ d \in C /\ emplacing[d] = k /\ k # NULL
        /\ ktVector' = [ktVector EXCEPT ![d] = Append(ktVector[d], k)]
        /\ ktVector[d] \in Seq(KT) /\ Len(ktVector[d]) \in Nat
    BY <1>t, <1>3 DEF Types, TypeOK, Members, AddEnd
  <2>b. /\ ktVector'[d] \in Seq(KT) /\ ktVector'[d] # <<>> /\ Len(ktVector'[d]) = Len(ktVector[d]) + 1
        /\ \A i \in 1..Len(ktVector'[d]) : ktVector'[d][i] = IF i <= Len(ktVector[d]) THEN ktVector[d][i] ELSE k
        /\ \A c \in C \ {d} : ktVector'[c] = ktVector[c]
    <3>1. ktVector'[d] = Append(ktVector[d], k) /\ \A c \in C \ {d} : ktVector'[c] = ktVector[c]
      BY <1>t, <2>a DEF Types, TypeOK
    <3> HIDE DEF d
    <3> QED
      BY <3>1, <2>a, AppendElements
  <2>1. Types'
    <3>1. ktVector' \in [C -> Seq(KT)]
      BY <1>t, <2>a, <2>b DEF Types, TypeOK
    <3>2. number' = [c \in C |-> Len(ktVector'[c])]
      BY <1>t, <1>3, <2>a, <2>b DEF Types, TypeOK, AddEnd, Count
    <3> QED
      BY SMTT(60), <1>t, <1>3, <2>a, <3>1, <3>2 DEF Types, TypeOK, AddEnd, assignVars
  <2>2. Members'
    <3>1. \A c \in C : \A i \in 1..Len(ktVector'[c]) :
            localCluster[ktVector'[c][i]] = c /\ ctor'[ktVector'[c][i]] # "none"
      <4> SUFFICES ASSUME NEW c \in C, NEW i \in 1..Len(ktVector'[c])
                   PROVE  localCluster[ktVector'[c][i]] = c /\ ctor'[ktVector'[c][i]] # "none"
        OBVIOUS
      <4>1. CASE c # d
        BY SMTT(60), <4>1, <1>t, <1>3, <2>b DEF Types, TypeOK, Members, AddEnd
      <4>2. CASE c = d
        <5>1. CASE i <= Len(ktVector[d])
          BY SMTT(60), <5>1, <4>2, <1>t, <1>3, <2>a, <2>b DEF Types, TypeOK, Members, AddEnd
        <5>2. CASE ~(i <= Len(ktVector[d]))
          <6>1. ktVector'[c][i] = k
            BY SMTT(30), <5>2, <4>2, <2>a, <2>b
          <6> QED
            BY <6>1, <4>2, <1>t, <1>3 DEF Types, TypeOK, AddEnd
        <5> QED
          BY <5>1, <5>2
      <4> QED
        BY <4>1, <4>2
    <3>2. \A j \in KT : ctor'[j] \in {"add", "adding"} => localCluster[j] \in C
      BY SMTT(30), <1>t, <1>3 DEF Types, Members, AddEnd
    <3>3. \A j \in KT : ctor'[j] = "adding" => emplacing'[localCluster[j]] = j
      BY <1>t, <1>3, <2>a DEF Types, Members, AddEnd
    <3>4. localCluster' = localCluster
      BY SMTT(30), <1>3 DEF AddEnd
    <3> QED
      BY <3>1, <3>2, <3>3, <3>4 DEF Members
  <2>3. Indices'
    <3>1. UNCHANGED <<ktLast, pc, cluster, next, kt, raced>>
      BY <1>3 DEF AddEnd, assignVars
    <3>2. \A c \in C : /\ Len(ktVector[c]) \in Nat /\ Len(ktVector'[c]) \in Nat
                       /\ Len(ktVector[c]) <= Len(ktVector'[c])
                       /\ ktVector'[c] = <<>> => ktVector[c] = <<>>
      <4> SUFFICES ASSUME NEW c \in C
                   PROVE  /\ Len(ktVector[c]) \in Nat /\ Len(ktVector'[c]) \in Nat
                          /\ Len(ktVector[c]) <= Len(ktVector'[c])
                          /\ ktVector'[c] = <<>> => ktVector[c] = <<>>
        OBVIOUS
      <4>1. Len(ktVector[c]) \in Nat
        BY <1>t DEF Types, TypeOK
      <4>2. CASE c # d
        BY <4>1, <4>2, <2>b
      <4>3. CASE c = d
        BY SMTT(30), <4>3, <2>a, <2>b
      <4> QED
        BY <4>2, <4>3
    <3>3. \A c \in C : (IF ktVector[c] = <<>> THEN ktLast[c] = 0 ELSE ktLast[c] < Len(ktVector[c]))
          => IF ktVector'[c] = <<>> THEN ktLast[c] = 0 ELSE ktLast[c] < Len(ktVector'[c])
      <4> SUFFICES ASSUME NEW c \in C,
                          IF ktVector[c] = <<>> THEN ktLast[c] = 0 ELSE ktLast[c] < Len(ktVector[c])
                   PROVE  IF ktVector'[c] = <<>> THEN ktLast[c] = 0 ELSE ktLast[c] < Len(ktVector'[c])
        OBVIOUS
      <4>1. CASE c # d
        BY <4>1, <2>b
      <4>2. CASE c = d
        BY SMTT(30), <4>2, <1>t, <2>a, <2>b DEF Types, TypeOK
      <4> QED
        BY <4>1, <4>2
    <3>4. \A v \in UT : pc[v] \in Assigning => cluster[v] \in C /\ ktVector'[cluster[v]] # <<>>
      <4> SUFFICES ASSUME NEW v \in UT, pc[v] \in Assigning
                   PROVE  cluster[v] \in C /\ ktVector'[cluster[v]] # <<>>
        OBVIOUS
      <4>1. cluster[v] \in C /\ ktVector[cluster[v]] # <<>>
        BY Zenon, <1>t DEF Indices
      <4> QED
        BY <4>1, <3>2
    <3>5. ~raced => \A c \in C : IF ktVector'[c] = <<>> THEN ktLast[c] = 0 ELSE ktLast[c] < Len(ktVector'[c])
      BY <1>t, <3>3 DEF Indices
    <3>6. ~raced => \A v \in UT : pc[v] = "exchange" => next[v] < Len(ktVector'[cluster[v]])
      <4> SUFFICES ASSUME ~raced, NEW v \in UT, pc[v] = "exchange"
                   PROVE  next[v] < Len(ktVector'[cluster[v]])
        OBVIOUS
      <4>1. cluster[v] \in C /\ next[v] < Len(ktVector[cluster[v]]) /\ next[v] \in Nat
        BY <1>t DEF Indices, Assigning, Types, TypeOK
      <4> QED
        BY SMTT(30), <4>1, <3>2
    <3>7. ~raced => \A v \in UT : pc[v] = "index" => kt[v] < Len(ktVector'[cluster[v]])
      <4> SUFFICES ASSUME ~raced, NEW v \in UT, pc[v] = "index"
                   PROVE  kt[v] < Len(ktVector'[cluster[v]])
        OBVIOUS
      <4>1. cluster[v] \in C /\ kt[v] < Len(ktVector[cluster[v]]) /\ kt[v] \in Nat
        BY <1>t DEF Indices, Assigning, Types, TypeOK
      <4> QED
        BY SMTT(30), <4>1, <3>2
    <3> QED
      BY <3>1, <3>4, <3>5, <3>6, <3>7 DEF Indices
  <2>4. Homes'
    BY <1>t, <1>3, HomesKept DEF Types, Placed, Assigning, AddEnd, assignVars
  <2>5. Places'
    BY <1>t, <1>3, PlacesKept DEF AddEnd
  <2> QED
    BY <2>1, <2>2, <2>3, <2>4, <2>5 DEF IInv
<1>4. ASSUME NEW k \in KT, Synchronize(k) PROVE IInv'
  <2>1. Types'
    BY <1>t, <1>4 DEF Types, TypeOK, Placed, Assigning, Synchronize, ctVars, assignVars
  <2>2. Members'
    BY SMTT(30), <1>t, <1>4 DEF Members, Types, TypeOK, Placed, Assigning, Synchronize, ctVars, assignVars
  <2>3. Indices'
    BY <1>t, <1>4, IndicesKept DEF Synchronize, assignVars
  <2>4. Homes'
    BY <1>t, <1>4, HomesKept DEF Types, Placed, Assigning, Synchronize, assignVars
  <2>5. Places'
    BY <1>t, <1>4, PlacesKept DEF Synchronize
  <2> QED
    BY <2>1, <2>2, <2>3, <2>4, <2>5 DEF IInv
<1>5. ASSUME NEW k \in KT, RunInit(k) PROVE IInv'
  <2>1. Types'
    BY SMTT(30), <1>t, <1>5 DEF Types, TypeOK, Placed, Assigning, RunInit, ctVars, assignVars
  <2>2. Members'
    BY <1>t, <1>5, MembersKept DEF RunInit, ctVars
  <2>3. Indices'
    BY <1>t, <1>5, IndicesKept DEF RunInit, ctVars, assignVars
  <2>4. Homes'
    BY <1>t, <1>5, HomesKept DEF Types, Placed, Assigning, RunInit, ctVars, assignVars
  <2>5. Places'
    BY <1>t, <1>5, PlacesKept DEF RunInit
  <2> QED
    BY <2>1, <2>2, <2>3, <2>4, <2>5 DEF IInv
<1>6. ASSUME NEW u \in UT, Load(u) PROVE IInv'
  <2> DEFINE d == cluster[u]
  <2>a. d \in C /\ ktLast[d] \in Nat /\ Len(ktVector[d]) \in Nat /\ Len(ktVector[d]) > 0
    BY SMTT(30), <1>t, <1>6 DEF Types, TypeOK, Indices, Assigning, Load
  <2>b. PICK size \in Sizes(d) : next' = [next EXCEPT ![u] = NextIndex(ktLast[d], size)]
    BY <1>6 DEF Load
  <2>c. size \in Nat /\ size > 0
    <3> DEFINE len == Len(ktVector[d])
    <3>1. size = len \/ size = len + 1 \/ size \in Garbage
      BY <2>b DEF Sizes
    <3>2. \A x \in Garbage : x \in Nat /\ x > 0
      BY ClusterAssumption
    <3>3. len \in Nat /\ len > 0
      BY <2>a
    <3> HIDE DEF len
    <3>4. CASE size \in Garbage
      BY Zenon, <3>2, <3>4
    <3>5. CASE size = len \/ size = len + 1
      BY <3>3, <3>5
    <3> QED
      BY Zenon, <3>1, <3>4, <3>5
  <2>d. raced => raced'
    BY <1>6 DEF Load, Race
  <2>e. ~raced' => size = Len(ktVector[d]) /\ ~raced
    BY <1>6, <2>b DEF Load, Race, Sizes
  <2> DEFINE n == NextIndex(ktLast[d], size)
  <2>f. n \in Nat /\ n < size
    <3> HIDE DEF d
    <3> QED
      BY <2>a, <2>c, NextInRange
  <2> HIDE DEF n
  <2>g. /\ UNCHANGED <<ktVector, emplacing, localCluster, ctor, number, ktLast, kt, run, queue, currentUT, cluster, home>>
        /\ pc' = [pc EXCEPT ![u] = "exchange"] /\ pc[u] = "load" /\ next' = [next EXCEPT ![u] = n]
    BY <1>6, <2>b DEF Load, ctVars, n
  <2>h. \A v \in UT : /\ pc'[v] = IF v = u THEN "exchange" ELSE pc[v]
                      /\ next'[v] = IF v = u THEN n ELSE next[v]
    BY <1>t, <2>g DEF Types, TypeOK
  <2>1. Types'
    <3>1. raced' \in BOOLEAN
      BY <1>6 DEF Load, Race
    <3> QED
      BY SMTT(30), <1>t, <2>f, <2>g, <3>1 DEF Types, TypeOK, Assigning
  <2>2. Members'
    BY <1>t, <2>g, MembersKept
  <2>3. Indices'
    <3>1. \A v \in UT : pc'[v] \in Assigning => cluster'[v] \in C /\ ktVector'[cluster'[v]] # <<>>
      BY SMTT(30), <1>t, <2>g, <2>h DEF Indices, Assigning
    <3>2. ~raced' => \A c \in C : IF ktVector'[c] = <<>> THEN ktLast'[c] = 0 ELSE ktLast'[c] < Len(ktVector'[c])
      BY <1>t, <2>e, <2>g DEF Indices
    <3>3. ~raced' => \A v \in UT : pc'[v] = "exchange" => next'[v] < Len(ktVector'[cluster'[v]])
      BY SMTT(30), <1>t, <2>e, <2>f, <2>g, <2>h DEF Indices
    <3>4. ~raced' => \A v \in UT : pc'[v] = "index" => kt'[v] < Len(ktVector'[cluster'[v]])
      BY SMTT(30), <1>t, <2>e, <2>g, <2>h DEF Indices
    <3> QED
      BY SMTT(30), <3>1, <3>2, <3>3, <3>4 DEF Indices
  <2>4. Homes'
    BY <1>t, <2>d, <2>g, <2>h, HomesKept DEF Placed
  <2>5. Places'
    BY <1>t, <2>g, <2>h, PlacesKept
  <2> QED
    BY <2>1, <2>2, <2>3, <2>4, <2>5 DEF IInv
<1>7. ASSUME NEW u \in UT, Exchange(u) PROVE IInv'
  <2> DEFINE d == cluster[u]
  <2>a. d \in C /\ ktVector[d] # <<>> /\ ktLast[d] \in Nat /\ next[u] \in Nat
    BY SMTT(30), <1>t, <1>7 DEF Types, TypeOK, Indices, Assigning, Exchange
  <2>g. /\ UNCHANGED <<ktVector, emplacing, localCluster, ctor, number, raced, run, queue, currentUT, cluster, home>>
        /\ pc' = [pc EXCEPT ![u] = "index"] /\ pc[u] = "exchange" /\ next' = [next EXCEPT ![u] = 0]
        /\ ktLast' = [ktLast EXCEPT ![d] = next[u]] /\ kt' = [kt EXCEPT ![u] = ktLast[d]]
    BY <1>7 DEF Exchange, ctVars
  <2>h. /\ \A v \in UT : /\ pc'[v] = IF v = u THEN "index" ELSE pc[v]
                         /\ next'[v] = IF v = u THEN 0 ELSE next[v]
                         /\ kt'[v] = IF v = u THEN ktLast[d] ELSE kt[v]
        /\ \A c \in C : ktLast'[c] = IF c = d THEN next[u] ELSE ktLast[c]
    BY <1>t, <2>a, <2>g DEF Types, TypeOK
  <2>i. ~raced => next[u] < Len(ktVector[d]) /\ ktLast[d] < Len(ktVector[d])
    BY <1>t, <2>a, <2>g DEF Indices
  <2>1. Types'
    BY SMTT(30), <1>t, <2>a, <2>g DEF Types, TypeOK, Assigning
  <2>2. Members'
    BY <1>t, <2>g, MembersKept
  <2>3. Indices'
    <3>1. \A v \in UT : pc'[v] \in Assigning => cluster'[v] \in C /\ ktVector'[cluster'[v]] # <<>>
      BY <1>t, <2>g, <2>h DEF Indices, Assigning
    <3>2. ~raced' => \A c \in C : IF ktVector'[c] = <<>> THEN ktLast'[c] = 0 ELSE ktLast'[c] < Len(ktVector'[c])
      BY <1>t, <2>a, <2>g, <2>h, <2>i DEF Indices
    <3>3. ~raced' => \A v \in UT : pc'[v] = "exchange" => next'[v] < Len(ktVector'[cluster'[v]])
      BY SMTT(30), <1>t, <2>g, <2>h DEF Indices
    <3>4. ~raced' => \A v \in UT : pc'[v] = "index" => kt'[v] < Len(ktVector'[cluster'[v]])
      BY SMTT(30), <1>t, <2>g, <2>h, <2>i DEF Indices
    <3> QED
      BY <3>1, <3>2, <3>3, <3>4 DEF Indices
  <2>4. Homes'
    BY <1>t, <2>g, <2>h, HomesKept DEF Placed
  <2>5. Places'
    BY <1>t, <2>g, <2>h, PlacesKept
  <2> QED
    BY <2>1, <2>2, <2>3, <2>4, <2>5 DEF IInv
<1>15. ASSUME NEW u \in UT, Index(u) PROVE IInv'
  <2> DEFINE d == cluster[u]
  <2>a. d \in C /\ ktVector[d] \in Seq(KT) /\ kt[u] \in Nat
    BY SMTT(30), <1>t, <1>15 DEF Types, TypeOK, Indices, Assigning, Index
  <2>b. PICK e \in Elements(d, kt[u]) : home' = [home EXCEPT ![u] = e]
    BY <1>15 DEF Index
  <2>c. raced => raced'
    BY <1>15 DEF Index, Race
  <2>d. ~raced' => ~raced /\ emplacing[d] = NULL
    BY <1>15 DEF Index, Race
  <2>g. /\ UNCHANGED <<ktVector, emplacing, localCluster, ctor, number, ktLast, next, run, queue, currentUT, cluster>>
        /\ pc' = [pc EXCEPT ![u] = "assigned"] /\ pc[u] = "index" /\ kt' = [kt EXCEPT ![u] = 0]
    BY <1>15 DEF Index, ctVars
  <2>e. ~raced' => e \in KT /\ localCluster[e] = d /\ ctor[e] # "none"
    <3> SUFFICES ASSUME ~raced' PROVE e \in KT /\ localCluster[e] = d /\ ctor[e] # "none"
      OBVIOUS
    <3>1. kt[u] < Len(ktVector[d])
      BY <1>t, <2>d, <2>g DEF Indices
    <3>2. e = ktVector[d][kt[u] + 1]
      BY <2>b, <2>d, <3>1 DEF Elements
    <3>3. kt[u] + 1 \in 1..Len(ktVector[d])
      BY SMTT(30), <2>a, <3>1
    <3> QED
      BY <1>t, <2>a, <3>2, <3>3 DEF Members
  <2>f. e \in KT \cup {NULL}
    BY SMTT(30), <2>a, <2>b DEF Elements
  <2>h. \A v \in UT : /\ pc'[v] = IF v = u THEN "assigned" ELSE pc[v]
                      /\ kt'[v] = IF v = u THEN 0 ELSE kt[v]
                      /\ home'[v] = IF v = u THEN e ELSE home[v]
    BY SMTT(30), <1>t, <2>b, <2>g DEF Types, TypeOK
  <2>1. Types'
    <3>1. raced' \in BOOLEAN
      BY <1>15 DEF Index, Race
    <3> QED
      BY SMTT(30), <1>t, <2>b, <2>f, <2>g, <3>1 DEF Types, TypeOK, Placed
  <2>2. Members'
    BY SMTT(30), <1>t, <2>g, MembersKept
  <2>3. Indices'
    <3>1. \A v \in UT : pc'[v] \in Assigning => cluster'[v] \in C /\ ktVector'[cluster'[v]] # <<>>
      BY <1>t, <2>g, <2>h DEF Indices, Assigning
    <3>2. ~raced' => \A c \in C : IF ktVector'[c] = <<>> THEN ktLast'[c] = 0 ELSE ktLast'[c] < Len(ktVector'[c])
      BY SMTT(30), <1>t, <2>d, <2>g DEF Indices
    <3>3. ~raced' => \A v \in UT : pc'[v] = "exchange" => next'[v] < Len(ktVector'[cluster'[v]])
      BY SMTT(30), <1>t, <2>d, <2>g, <2>h DEF Indices
    <3>4. ~raced' => \A v \in UT : pc'[v] = "index" => kt'[v] < Len(ktVector'[cluster'[v]])
      BY SMTT(30), <1>t, <2>d, <2>g, <2>h DEF Indices
    <3> QED
      BY SMTT(30), <3>1, <3>2, <3>3, <3>4 DEF Indices
  <2>4. Homes'
    <3>1. \A v \in UT : pc'[v] = "new" => home'[v] = NULL
      BY SMTT(30), <1>t, <2>h DEF Homes
    <3>2. ASSUME NEW v \in UT, v # u, ~raced', pc'[v] \in Placed
          PROVE  /\ cluster'[v] \in C /\ home'[v] \in KT
                 /\ localCluster'[home'[v]] = cluster'[v] /\ ctor'[home'[v]] # "none"
      <4>1. pc[v] \in Placed /\ home'[v] = home[v] /\ ~raced
        BY Zenon, <2>d, <2>h, <3>2
      <4>2. /\ cluster[v] \in C /\ home[v] \in KT
            /\ localCluster[home[v]] = cluster[v] /\ ctor[home[v]] # "none"
        BY SMTT(30), <1>t, <4>1 DEF Homes
      <4> QED
        BY SMTT(30), <2>g, <4>1, <4>2
    <3>3. ~raced' => /\ cluster'[u] \in C /\ home'[u] \in KT
                     /\ localCluster'[home'[u]] = cluster'[u] /\ ctor'[home'[u]] # "none"
      <4>1. home'[u] = e /\ cluster'[u] = d /\ localCluster' = localCluster /\ ctor' = ctor
        BY <2>g, <2>h
      <4>2. d \in C
        BY SMTT(30), <2>a
      <4> HIDE DEF d
      <4> QED
        BY Zenon, <2>e, <4>1, <4>2
    <3> QED
      BY SMTT(30), <3>1, <3>2, <3>3 DEF Homes
  <2>5. Places'
    BY <1>t, <2>g, <2>h, PlacesKept
  <2> QED
    BY SMTT(30), <2>1, <2>2, <2>3, <2>4, <2>5 DEF IInv
<1>8. ASSUME NEW u \in UT, NEW c \in C, Start(u, c) PROVE IInv'
  <2>1. Types'
    BY SMTT(60), <1>t, <1>8 DEF Types, TypeOK, Placed, Assigning, Start, MayAssign, ctVars, assignVars
  <2>2. Members'
    BY <1>t, <1>8, MembersKept DEF Start, ctVars
  <2>3. Indices'
    BY SMTT(30), <1>t, <1>8 DEF Indices, Types, TypeOK, Placed, Assigning, Start, MayAssign, ctVars, assignVars
  <2>4. Homes'
    BY SMTT(30), <1>t, <1>8 DEF Homes, Types, TypeOK, Placed, Assigning, Start, MayAssign, ctVars, assignVars
  <2>5. Places'
    BY <1>t, <1>8, PlacesKept DEF Types, Placed, Assigning, Start
  <2> QED
    BY SMTT(30), <2>1, <2>2, <2>3, <2>4, <2>5 DEF IInv
<1>9. ASSUME NEW u \in UT, Schedule(u) PROVE IInv'
  <2> DEFINE h == home[u]
  <2>a. /\ h \in KT /\ pc[u] = "assigned" /\ pc' = [pc EXCEPT ![u] = "ready"] /\ UNCHANGED home
        /\ queue[h] \in Seq(UT) /\ Len(queue[h]) \in Nat
    <3>1. pc[u] = "assigned" /\ pc' = [pc EXCEPT ![u] = "ready"] /\ UNCHANGED home
      BY Zenon, <1>9 DEF Schedule
    <3>2. h \in KT
      BY <1>t, <1>9 DEF Types, TypeOK, Schedule
    <3>3. queue[h] \in Seq(UT)
      BY Zenon, <1>t, <3>2 DEF Types
    <3> HIDE DEF h
    <3>4. Len(queue[h]) \in Nat
      BY SMTT(30), <3>3
    <3> QED
      BY Zenon, <3>1, <3>2, <3>3, <3>4
  <2>b. /\ Len(queue'[h]) = Len(queue[h]) + 1
        /\ \A i \in 1..Len(queue'[h]) : queue'[h][i] = IF i <= Len(queue[h]) THEN queue[h][i] ELSE u
        /\ \A k \in KT \ {h} : queue'[k] = queue[k]
    <3>1. queue'[h] = Append(queue[h], u) /\ \A k \in KT \ {h} : queue'[k] = queue[k]
      BY SMTT(30), <1>t, <1>9, <2>a DEF Types, Schedule, Enqueue
    <3> HIDE DEF h
    <3> QED
      BY SMTT(30), <3>1, <2>a, AppendElements
  <2>c. \A k \in KT : \A i \in 1..Len(queue[k]) : queue[k][i] \in UT \ {u}
    <3> HIDE DEF h
    <3>1. \A k \in KT : \A i \in 1..Len(queue[k]) : queue[k][i] \in UT
      BY <1>t DEF Types
    <3>2. \A k \in KT : \A i \in 1..Len(queue[k]) : pc[queue[k][i]] = "ready"
      BY SMTT(30), <1>t DEF Places
    <3> QED
      BY <2>a, <3>1, <3>2
  <2>1. Types'
    BY SMTT(30), <1>t, <1>9 DEF Types, TypeOK, Placed, Assigning, Schedule, Enqueue, ctVars, assignVars
  <2>2. Members'
    <3>1. UNCHANGED <<ktVector, emplacing, localCluster, ctor>>
      BY <1>9 DEF Schedule, ctVars
    <3> QED
      BY <1>t, <3>1, MembersKept
  <2>3. Indices'
    BY SMTT(30), <1>t, <1>9, IndicesKept DEF Types, Placed, Assigning, Schedule, ctVars, assignVars
  <2>4. Homes'
    BY SMTT(30), <1>t, <1>9, HomesKept DEF Types, Placed, Assigning, Schedule, ctVars, assignVars
  <2>5. Places'
    <3> HIDE DEF h
    <3>1. \A k \in KT : \A i \in 1..Len(queue'[k]) : pc'[queue'[k][i]] = "ready" /\ home[queue'[k][i]] = k
      <4> SUFFICES ASSUME NEW k \in KT, NEW i \in 1..Len(queue'[k])
                   PROVE  pc'[queue'[k][i]] = "ready" /\ home[queue'[k][i]] = k
        BY SMTT(30)
      <4>1. CASE k # h \/ i <= Len(queue[h])
        <5>1. i \in 1..Len(queue[k]) /\ queue'[k][i] = queue[k][i]
          BY SMTT(30), <4>1, <2>a, <2>b
        <5> QED
          BY <5>1, <1>t, <2>a, <2>c DEF Types, Places
      <4>2. CASE k = h /\ ~(i <= Len(queue[h]))
        <5>1. queue'[k][i] = u
          BY <4>2, <2>a, <2>b
        <5> QED
          BY <5>1, <4>2, <1>t, <2>a DEF Types, h
      <4> QED
        BY <4>1, <4>2
    <3>2. \A k \in KT : \A i, j \in 1..Len(queue'[k]) : queue'[k][i] = queue'[k][j] => i = j
      <4> SUFFICES ASSUME NEW k \in KT, NEW i \in 1..Len(queue'[k]), NEW j \in 1..Len(queue'[k]),
                          queue'[k][i] = queue'[k][j]
                   PROVE  i = j
        BY SMTT(30)
      <4>1. CASE k # h
        BY <4>1, <1>t, <2>b DEF Places
      <4>2. CASE k = h
        <5>1. i \in 1..Len(queue[h]) + 1 /\ j \in 1..Len(queue[h]) + 1
          BY SMTT(30), <4>2, <2>b
        <5>2. CASE i <= Len(queue[h]) /\ j <= Len(queue[h])
          BY <5>1, <5>2, <4>2, <1>t, <2>a, <2>b DEF Places
        <5>3. CASE ~(i <= Len(queue[h])) /\ ~(j <= Len(queue[h]))
          BY SMTT(30), <5>1, <5>3, <2>a
        <5>4. CASE i <= Len(queue[h]) /\ ~(j <= Len(queue[h]))
          <6>1. i \in 1..Len(queue[h]) /\ queue'[k][i] = queue[h][i] /\ queue'[k][j] = u
            BY <5>1, <5>4, <4>2, <2>a, <2>b
          <6> QED
            BY ZenonT(30), <6>1, <2>a, <2>c
        <5>5. CASE ~(i <= Len(queue[h])) /\ j <= Len(queue[h])
          <6>1. j \in 1..Len(queue[h]) /\ queue'[k][j] = queue[h][j] /\ queue'[k][i] = u
            BY SMTT(30), <5>1, <5>5, <4>2, <2>a, <2>b
          <6> QED
            BY <6>1, <2>a, <2>c
        <5> QED
          BY <5>2, <5>3, <5>4, <5>5
      <4> QED
        BY <4>1, <4>2
    <3>3. \A k \in KT : currentUT'[k] # NULL =>
            /\ pc'[currentUT'[k]] \notin {"new", "ready"}
            /\ pc'[currentUT'[k]] = "running" => home[currentUT'[k]] = k
      BY <1>t, <1>9, <2>a DEF Types, Places, Schedule, Enqueue
    <3> QED
      BY SMTT(30), <2>a, <3>1, <3>2, <3>3 DEF Places
  <2> QED
    BY <2>1, <2>2, <2>3, <2>4, <2>5 DEF IInv
<1>10. ASSUME NEW k \in KT, Dispatch(k) PROVE IInv'
  <2> DEFINE q == queue[k]
             u == Head(q)
  <2>a. q \in Seq(UT) /\ q # <<>> /\ Len(q) \in Nat
    BY <1>t, <1>10 DEF Types, Dispatch
  <2>b. /\ u = q[1] /\ u \in UT /\ Len(q) >= 1 /\ Len(Tail(q)) = Len(q) - 1
        /\ \A i \in 1..Len(q) - 1 : Tail(q)[i] = q[i + 1]
    <3> HIDE DEF q
    <3> QED
      BY SMTT(30), <2>a, TailElements DEF u
  <2> HIDE DEF u
  <2>c. pc[u] = "ready" /\ home[u] = k
    BY SMTT(30), <1>t, <2>a, <2>b DEF Places
  <2>d. /\ pc' = [pc EXCEPT ![u] = "running"] /\ UNCHANGED <<home, cluster, localCluster, ctor, raced>>
        /\ currentUT' = [currentUT EXCEPT ![k] = u]
        /\ queue'[k] = Tail(q) /\ \A j \in KT \ {k} : queue'[j] = queue[j]
    BY SMTT(30), <1>t, <1>10 DEF Types, Dispatch, ctVars, assignVars, u
  <2>1. Types'
    BY SMTT(30), <1>t, <1>10 DEF Types, TypeOK, Placed, Assigning, Dispatch, ctVars, assignVars
  <2>2. Members'
    BY <1>t, <1>10, MembersKept DEF Dispatch, ctVars
  <2>3. Indices'
    BY <1>t, <2>b, <2>c, <2>d, <1>10, IndicesKept DEF Types, Placed, Assigning, Dispatch, ctVars, assignVars
  <2>4. Homes'
    <3>1. \A v \in UT : pc'[v] = IF v = u THEN "running" ELSE pc[v]
      BY ZenonT(30), <1>t, <2>b, <2>d DEF Types
    <3> QED
      BY <1>t, <2>c, <2>d, <3>1, HomesKept DEF Placed
  <2>5. Places'
    <3> HIDE DEF q
    <3>1. \A i \in 1..Len(q) - 1 : q[i + 1] \in UT \ {u}
      BY SMTT(30), <1>t, <2>a, <2>b DEF Places, q
    <3>2. \A j \in KT : \A i \in 1..Len(queue'[j]) : pc'[queue'[j][i]] = "ready" /\ home[queue'[j][i]] = j
      <4> SUFFICES ASSUME NEW j \in KT, NEW i \in 1..Len(queue'[j])
                   PROVE  pc'[queue'[j][i]] = "ready" /\ home[queue'[j][i]] = j
        BY SMTT(30)
      <4>1. CASE j = k
        <5>1. i \in 1..Len(q) - 1 /\ queue'[j][i] = q[i + 1] /\ i + 1 \in 1..Len(q)
          BY SMTT(30), <4>1, <2>a, <2>b, <2>d
        <5>2. pc[q[i + 1]] = "ready" /\ home[q[i + 1]] = k
          BY SMTT(30), <5>1, <1>t DEF Places, q
        <5> QED
          BY SMTT(30), <5>1, <5>2, <4>1, <3>1, <2>d, <1>t DEF Types
      <4>2. CASE j # k
        <5>1. i \in 1..Len(queue[j]) /\ queue'[j][i] = queue[j][i] /\ queue[j][i] \in UT
          BY SMTT(30), <4>2, <2>d, <1>t DEF Types
        <5>2. pc[queue[j][i]] = "ready" /\ home[queue[j][i]] = j
          BY SMTT(30), <5>1, <1>t DEF Places
        <5> QED
          BY SMTT(30), <5>1, <5>2, <4>2, <2>c, <2>d, <1>t DEF Types
      <4> QED
        BY <4>1, <4>2
    <3>3. \A j \in KT : \A m, n \in 1..Len(queue'[j]) : queue'[j][m] = queue'[j][n] => m = n
      <4> SUFFICES ASSUME NEW j \in KT, NEW m \in 1..Len(queue'[j]), NEW n \in 1..Len(queue'[j]),
                          queue'[j][m] = queue'[j][n]
                   PROVE  m = n
        OBVIOUS
      <4>1. CASE j = k
        <5>1. /\ m \in 1..Len(q) - 1 /\ n \in 1..Len(q) - 1 /\ q[m + 1] = q[n + 1]
              /\ m + 1 \in 1..Len(q) /\ n + 1 \in 1..Len(q)
          BY SMTT(30), <4>1, <2>a, <2>b, <2>d
        <5>2. m + 1 = n + 1
          BY SMTT(30), <5>1, <1>t DEF Places, q
        <5> QED
          BY SMTT(30), <5>1, <5>2
      <4>2. CASE j # k
        <5>1. queue'[j] = queue[j]
          BY SMTT(30), <4>2, <2>d, <1>t DEF Types
        <5> QED
          BY SMTT(30), <5>1, <1>t DEF Places
      <4> QED
        BY <4>1, <4>2
    <3>4. \A j \in KT : currentUT'[j] # NULL =>
            /\ pc'[currentUT'[j]] \notin {"new", "ready"}
            /\ pc'[currentUT'[j]] = "running" => home[currentUT'[j]] = j
      BY SMTT(30), <1>t, <2>b, <2>c, <2>d DEF Types, Places
    <3> QED
      BY SMTT(30), <2>d, <3>2, <3>3, <3>4 DEF Places
  <2> QED
    BY <2>1, <2>2, <2>3, <2>4, <2>5 DEF IInv
<1>11. ASSUME NEW k \in KT, Suspend(k) PROVE IInv'
  <2>1. Types'
    BY SMTT(30), <1>t, <1>11 DEF Types, TypeOK, Placed, Assigning, Suspend, Runs, ctVars, assignVars
  <2>2. Members'
    BY <1>t, <1>11, MembersKept DEF Suspend, ctVars
  <2>3. Indices'
    BY SMTT(30), <1>t, <1>11, IndicesKept DEF Types, Placed, Assigning, Suspend, Runs, ctVars, assignVars
  <2>4. Homes'
    BY SMTT(30), <1>t, <1>11, HomesKept DEF Types, Placed, Assigning, Suspend, Runs, ctVars, assignVars
  <2>5. Places'
    <3> DEFINE u == currentUT[k]
    <3>1. /\ u \in UT /\ pc[u] = "running" /\ pc' = [pc EXCEPT ![u] = "assigned"]
          /\ currentUT' = [currentUT EXCEPT ![k] = NULL] /\ UNCHANGED <<queue, home>>
      BY Zenon, <1>t, <1>11 DEF Types, Suspend, Runs
    <3>2. \A v \in UT : pc'[v] = IF v = u THEN "assigned" ELSE pc[v]
      BY Zenon, <1>t, <3>1 DEF Types
    <3>3. \A j \in KT : currentUT'[j] # NULL => currentUT'[j] = currentUT[j] /\ currentUT[j] \in UT
      BY ZenonT(30), <1>t, <3>1 DEF Types
    <3> HIDE DEF u
    <3>4. \A j \in KT : currentUT'[j] # NULL =>
            /\ pc'[currentUT'[j]] \notin {"new", "ready"}
            /\ pc'[currentUT'[j]] = "running" => home'[currentUT'[j]] = j
      BY SMTT(30), <1>t, <3>1, <3>2, <3>3 DEF Places
    <3>5. \A v \in UT : pc[v] = "ready" => pc'[v] = "ready" /\ home'[v] = home[v]
      BY <3>1, <3>2
    <3> QED
      BY Zenon, <1>t, <3>1, <3>4, <3>5, QueuesKept DEF Places
  <2> QED
    BY <2>1, <2>2, <2>3, <2>4, <2>5 DEF IInv
<1>12. ASSUME NEW k \in KT, NEW c \in C, Migrate(k, c) PROVE IInv'
  <2> DEFINE u == currentUT[k]
  <2>a. /\ u \in UT /\ pc[u] = "running" /\ ktVector[c] # <<>>
        /\ UNCHANGED <<ctVars, assignVars, run, queue, currentUT, home>>
        /\ cluster' = [cluster EXCEPT ![u] = c] /\ pc' = [pc EXCEPT ![u] = "load"]
    BY Zenon, <1>t, <1>12 DEF Types, Migrate, Runs, MayAssign
  <2>b. PICK v \in UT : v = u
    BY Zenon, <2>a
  <2> HIDE DEF u
  <2>c. \A w \in UT : /\ pc'[w] = IF w = v THEN "load" ELSE pc[w]
                      /\ cluster'[w] = IF w = v THEN c ELSE cluster[w]
    BY Zenon, <1>t, <2>a, <2>b DEF Types, TypeOK
  <2>d. /\ ktVector' = ktVector /\ emplacing' = emplacing /\ localCluster' = localCluster
        /\ ctor' = ctor /\ ktLast' = ktLast /\ next' = next /\ kt' = kt /\ raced' = raced /\ queue' = queue
        /\ currentUT' = currentUT /\ home' = home
    BY SMTT(30), <2>a DEF ctVars, assignVars
  <2>1. Types'
    BY SMTT(30), <1>t, <2>a, <2>b DEF Types, TypeOK, Assigning, ctVars, assignVars
  <2>2. Members'
    BY Zenon, <1>t, <2>d, MembersKept
  <2>3. Indices'
    BY <1>t, <2>a, <2>c, <2>d DEF Indices, Assigning
  <2>4. Homes'
    BY Zenon, <1>t, <2>c, <2>d DEF Homes, Placed
  <2>5. Places'
    BY <1>t, <2>a, <2>b, <2>c, <2>d, PlacesKept
  <2> QED
    BY Zenon, <2>1, <2>2, <2>3, <2>4, <2>5 DEF IInv
<1>13. ASSUME NEW k \in KT, Terminate(k) PROVE IInv'
  <2> DEFINE u == currentUT[k]
  <2>a. /\ u \in UT /\ pc[u] = "running"
        /\ UNCHANGED <<ctVars, assignVars, run, queue>> /\ currentUT' = [currentUT EXCEPT ![k] = NULL]
        /\ home' = [home EXCEPT ![u] = NULL] /\ cluster' = [cluster EXCEPT ![u] = NULL]
        /\ pc' = [pc EXCEPT ![u] = "new"]
    BY Zenon, <1>t, <1>13 DEF Types, Terminate, Runs, Reset
  <2>b. PICK v \in UT : v = u
    BY Zenon, <2>a
  <2> HIDE DEF u
  <2>c. \A w \in UT : /\ pc'[w] = IF w = v THEN "new" ELSE pc[w]
                      /\ cluster'[w] = IF w = v THEN NULL ELSE cluster[w]
                      /\ home'[w] = IF w = v THEN NULL ELSE home[w]
    BY Zenon, <1>t, <2>a, <2>b DEF Types, TypeOK
  <2>d. /\ ktVector' = ktVector /\ emplacing' = emplacing /\ localCluster' = localCluster
        /\ ctor' = ctor /\ ktLast' = ktLast /\ next' = next /\ kt' = kt /\ raced' = raced /\ queue' = queue
    BY SMTT(30), <2>a DEF ctVars, assignVars
  <2>1. Types'
    BY SMTT(30), <1>t, <2>a, <2>b DEF Types, TypeOK, Assigning, ctVars, assignVars
  <2>2. Members'
    BY Zenon, <1>t, <2>d, MembersKept
  <2>3. Indices'
    BY <1>t, <2>c, <2>d DEF Indices, Assigning
  <2>4. Homes'
    BY ZenonT(30), <1>t, <2>c, <2>d DEF Homes, Placed
  <2>5. Places'
    <3>1. home[v] = k
      BY ZenonT(30), <1>t, <2>a, <2>b, ClusterAssumption DEF Places, u
    <3>2. \A j \in KT : currentUT'[j] # NULL =>
            j # k /\ currentUT'[j] = currentUT[j] /\ currentUT[j] \in UT
      BY ZenonT(30), <1>t, <2>a DEF Types
    <3>3. \A j \in KT : currentUT'[j] # NULL => currentUT[j] # v
      BY <1>t, <2>a, <2>b, <3>1, <3>2 DEF Places
    <3>4. UNCHANGED queue /\ \A w \in UT : pc[w] = "ready" => pc'[w] = "ready" /\ home'[w] = home[w]
      BY ZenonT(30), <2>a, <2>b, <2>c, <2>d
    <3>5. \A j \in KT : currentUT'[j] # NULL =>
            /\ pc'[currentUT'[j]] \notin {"new", "ready"}
            /\ pc'[currentUT'[j]] = "running" => home'[currentUT'[j]] = j
      BY SMTT(30), <1>t, <2>c, <3>2, <3>3 DEF Places
    <3> QED
      BY Zenon, <1>t, <3>4, <3>5, QueuesKept DEF Places
  <2> QED
    BY Zenon, <2>1, <2>2, <2>3, <2>4, <2>5 DEF IInv
<1>14. CASE UNCHANGED vars
  <2>1. Types'
    <3>1. TypeOK'
      BY SMTT(30), <1>t, <1>14 DEF Types, TypeOK, vars, ctVars, assignVars
    <3> QED
      BY SMTT(30), <1>t, <1>14, <3>1 DEF Types, vars, ctVars, assignVars
  <2>2. Members' /\ Indices' /\ Homes' /\ Places'
    BY <1>t, <1>14, MembersKept, IndicesKept, HomesKept, PlacesKept DEF vars, ctVars, assignVars
  <2> QED
    BY SMTT(30), <2>1, <2>2 DEF IInv
<1> QED
  BY SMTT(30), <1>1, <1>2, <1>3, <1>4, <1>5, <1>6, <1>7, <1>8, <1>9, <1>10, <1>11, <1>12, <1>13, <1>14,
     <1>15 DEF Next, Construct, Thread, Assign, Leave

\* The inductive invariant holds, for any sets of kThreads, uThreads and clusters, also
\* when kThreads are constructed while assignkThread runs for their cluster.
THEOREM Invariance == Spec => []IInv
<1>1. IInv /\ [Next]_vars => IInv'
  BY StepInv
<1> QED
  BY <1>1, InitInv, PTL DEF Spec

\* Until a read of ktVector meets the emplace_back that moves it, assignkThread never
\* indexes outside ktVector, however many threads call it at once and however many
\* kThreads are added between its steps.
THEOREM IndexSafe == Spec => []IndexInRange
<1>1. IInv => IndexInRange
  <2> SUFFICES ASSUME IInv, ~raced, NEW u \in UT
               PROVE  /\ pc[u] = "exchange" => next[u] < Len(ktVector[cluster[u]])
                      /\ pc[u] = "exchange" => ktLast[cluster[u]] < Len(ktVector[cluster[u]])
                      /\ pc[u] = "index" => kt[u] < Len(ktVector[cluster[u]])
    BY DEF IndexInRange
  <2> QED
    BY SMTT(30) DEF IInv, Indices, Assigning
<1> QED
  BY <1>1, Invariance, PTL

\* What assignkThread hands out, until then, is a kThread of the cluster it was called
\* for.
THEOREM AssignmentSafe == Spec => []AssignsKThread
<1>1. IInv => AssignsKThread
  BY DEF IInv, Homes, Placed, AssignsKThread
<1> QED
  BY <1>1, Invariance, PTL

\* Until then, a uThread, also one that has migrated or been recycled, runs in its own
\* cluster.
THEOREM ClusterSafe == Spec => []RunsInItsCluster
<1>1. IInv => RunsInItsCluster
  <2> SUFFICES ASSUME IInv, ~raced, NEW k \in KT, Runs(k)
               PROVE  localCluster[k] = cluster[currentUT[k]]
    BY SMTT(30) DEF RunsInItsCluster
  <2> DEFINE u == currentUT[k]
  <2>1. u \in UT /\ pc[u] = "running" /\ home[u] = k
    BY DEF IInv, Types, Places, Runs
  <2> QED
    BY <2>1 DEF IInv, Homes, Placed
<1> QED
  BY <1>1, Invariance, PTL
=============================================================================
