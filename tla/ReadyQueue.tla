----------------------------- MODULE ReadyQueue -----------------------------
(***************************************************************************)
(* What a kThread's ready queue promises the rest of uThreads: a FIFO      *)
(* queue of uThreads with one consumer.  schedule() appends one uThread or *)
(* a chain of them in one atomic step; the kThread's pop either returns    *)
(* the oldest uThread or answers NULL, and it answers NULL only when the   *)
(* queue is empty.  Scheduler02 is shown to implement this module.         *)
(***************************************************************************)
EXTENDS Naturals, Sequences

CONSTANTS
  UT,     \* the uThreads whose home is this kThread
  NULL    \* the null pointer

VARIABLES
  q,       \* the uThreads that are ready, oldest first
  answer   \* what the last pop returned

vars == <<q, answer>>

NoDuplicates(s) == \A i, j \in 1 .. Len(s) : s[i] = s[j] => i = j

Init ==
  /\ q = <<>>
  /\ answer = NULL

\* schedule(ut) and schedule(queue, count): the chain goes to the back, in
\* its own order, and no uThread is ready twice.
Enqueue ==
  /\ q' \in Seq(UT)
  /\ Len(q') > Len(q)
  /\ \A i \in 1 .. Len(q) : q'[i] = q[i]
  /\ NoDuplicates(q')
  /\ UNCHANGED answer

\* pop() returns the oldest ready uThread.
Dequeue ==
  /\ q # <<>>
  /\ answer' = Head(q)
  /\ q' = Tail(q)

\* pop() returns nullptr.
Miss ==
  /\ q = <<>>
  /\ answer' = NULL
  /\ UNCHANGED q

Next == Enqueue \/ Dequeue \/ Miss

Spec == Init /\ [][Next]_vars
=============================================================================
