--------------------------- MODULE MCBlockingSync ---------------------------
(* A small instance of BlockingSync for TLC.                               *)
EXTENDS BlockingSync, TLC

CONSTANTS u1, u2, k1, k2

\* u1 and u2 share a kThread, the others run beside them.
MCHome == [u \in UT |-> IF u \in {u1, u2} THEN k1 ELSE k2]

\* One program for each kind of object.
MCPrograms == {{"mutex", "cv"}, {"semaphore"}, {"ownerlock"}}
=============================================================================
