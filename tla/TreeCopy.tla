------------------------------ MODULE TreeCopy ------------------------------
(***************************************************************************)
(* What the process tree modules promise: the copy of a tree is built from *)
(* the leaves up, beside the originals, and nothing of it runs before all  *)
(* of it stands, but for the copies lost with processes that have ended    *)
(* before their copy was moved.  How a process is made to fork itself, who *)
(* waits for whom and how a copy is recognised is left to PtreeFork and    *)
(* PtreeFullFork.                                                          *)
(***************************************************************************)
CONSTANTS
  Node,   (* the processes of the tree                                     *)
  Up,     (* Up[p] is the parent of p in the tree; no Node for the root    *)
  Mortal  (* the processes that may end while the tree is copied           *)

VARIABLES
  place,    (* place[p]: the copy of p is not yet made ("none"), a child of*)
            (* p ("beside"), below the copy of Up[p] ("moved"), or has     *)
            (* passed to init ("lost")                                     *)
  started   (* the copy runs                                               *)

vars == <<place, started>>

Below(p) == {c \in Node : Up[c] = p}

Init == place = [p \in Node |-> "none"] /\ started = FALSE

(* A process is copied when the trees below it have been.                  *)
Copy(p) ==
  /\ place[p] = "none" /\ \A c \in Below(p) : place[c] \in {"beside", "lost"}
  /\ place' = [place EXCEPT ![p] = "beside"]
  /\ UNCHANGED started

Move(c) ==
  /\ place[c] = "beside" /\ Up[c] \in Node /\ place[Up[c]] \in {"beside", "lost"}
  /\ place' = [place EXCEPT ![c] = "moved"]
  /\ UNCHANGED started

(* p ends before its copy has been moved.                                  *)
Lose(p) ==
  /\ p \in Mortal /\ place[p] = "beside" /\ Up[p] \in Node
  /\ place' = [place EXCEPT ![p] = "lost"]
  /\ UNCHANGED started

Start ==
  /\ \A p \in Node : place[p] \in IF Up[p] \in Node THEN {"moved", "lost"} ELSE {"beside"}
  /\ started' = TRUE
  /\ UNCHANGED place

Next == Start \/ \E p \in Node : Copy(p) \/ Move(p) \/ Lose(p)

Spec == Init /\ [][Next]_vars
=============================================================================
