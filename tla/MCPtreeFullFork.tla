--------------------------- MODULE MCPtreeFullFork ---------------------------
(* An instance of PtreeFullFork for TLC: a tree and the threads in it.     *)
EXTENDS PtreeFullFork

(* A process, its child, which has two sibling threads, and the child of   *)
(* that one, which has one sibling thread.                                 *)
Lineage == [p \in Pid |-> CASE p = 1 -> Outside [] p \in {2, 3} -> p - 1 [] OTHER -> None]
Crowd   == [p \in Pid |-> CASE p = 2 -> 2 [] p = 3 -> 1 [] OTHER -> 0]
=============================================================================
