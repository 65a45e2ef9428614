----------------------------- MODULE MCFullFork -----------------------------
(* Instances of FullFork for TLC: which tasks exist at first.              *)
EXTENDS FullForkRefinement

Groups(b) == [t \in Pid |-> IF t \in DOMAIN b THEN b[t] ELSE Outside]

(* One process: a leader and two threads.                                  *)
TwoThreads == Groups(<<1, 1, 1>>)
=============================================================================
