---------------------------- MODULE MCPtreeFork ----------------------------
(* Instances of PtreeFork for TLC: the tree of processes at first.         *)
EXTENDS PtreeFork

Parents(b) == [p \in Pid |-> IF p \in DOMAIN b THEN b[p] ELSE None]

(* The tree of PROCESS_TREE_CLONE/user.c: two children with a child each.  *)
UserTree == Parents(<<Outside, 1, 1, 2, 3>>)

(* A root with two children.                                               *)
TwoChildren == Parents(<<Outside, 1, 1>>)
=============================================================================
