----------------------------- MODULE ProcessTree -----------------------------
(***************************************************************************)
(* The tree of processes as the process tree modules use it: who is whose  *)
(* child, kernel_clone() and reparent().  The kernel is not in the         *)
(* repository; this is what PROCESS_TREE_CLONE/*.c relies on.              *)
(***************************************************************************)
EXTENDS Integers, FiniteSets

CONSTANTS
  MaxPid,   (* bound on the processes that ever exist                      *)
  Tree      (* Tree[p] is the parent of a process that exists at first,    *)
            (* Outside if that is not modelled, None for a pid that is free*)

Pid     == 1 .. MaxPid
Outside == 0
None    == -1

ASSUME TreeAssumption ==
  /\ MaxPid \in Nat
  /\ Tree \in [Pid -> Pid \cup {Outside, None}]
  /\ \A p \in Pid : Tree[p] \in Pid => Tree[p] # p /\ Tree[Tree[p]] # None

VARIABLES
  parent,   (* task_struct.real_parent                                     *)
  life,     (* "free", "new" (created, not woken), "alive", "zombie"       *)
  origin    (* origin[c]: the process that c is a copy of; c if it is none *)

tree == <<parent, life, origin>>

ProcessTypeOK ==
  /\ parent \in [Pid -> Pid \cup {Outside, None}]
  /\ life \in [Pid -> {"free", "new", "alive", "zombie"}]
  /\ origin \in [Pid -> Pid \cup {None}]

TreeInit ==
  /\ parent = Tree
  /\ life = [p \in Pid |-> IF Tree[p] = None THEN "free" ELSE "alive"]
  /\ origin = [p \in Pid |-> IF Tree[p] = None THEN None ELSE p]

-----------------------------------------------------------------------------
Children(p) == {c \in Pid : parent[c] = p}

(* The next child of p after c; the list is in the order of creation.      *)
IsNextChild(p, c, n) ==
  /\ n \in Children(p) /\ n > c
  /\ \A d \in Children(p) : d > c => n =< d

(* A call made the process c, as a copy of another one.                    *)
IsCopy(c) == life[c] # "free" /\ origin[c] # c

(* pids are handed out in order                                            *)
FreshPid(c) == life[c] = "free" /\ \A d \in 1 .. c - 1 : life[d] # "free"

(* kernel_clone(): c becomes a child of p and a copy of o.                 *)
NewChild(c, p, state, o) ==
  /\ parent' = [parent EXCEPT ![c] = p]
  /\ life' = [life EXCEPT ![c] = state]
  /\ origin' = [origin EXCEPT ![c] = o]

(* reparent(c, q)                                                          *)
Reparent(c, q) == parent' = [parent EXCEPT ![c] = q] /\ UNCHANGED <<life, origin>>
=============================================================================
