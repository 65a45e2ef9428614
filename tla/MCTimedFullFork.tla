--------------------------- MODULE MCTimedFullFork ---------------------------
(* An instance of TimedFullFork for TLC: two programs that call in turn.   *)
EXTENDS TimedFullFork

(* Two processes with a thread each.                                       *)
TwoProcesses == [t \in Pid |-> CASE t \in {1, 2} -> 1 [] t \in {3, 4} -> 3
                                 [] OTHER -> Outside]
=============================================================================
