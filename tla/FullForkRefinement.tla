-------------------------- MODULE FullForkRefinement --------------------------
(* FullFork implements SnapshotCall.                                        *)
EXTENDS FullFork

(* How far the handler has got: the process is frozen from the end of the  *)
(* wait, or from the finding that there is nobody to stop, to SIGCONT.     *)
PhaseOf(t) ==
  CASE pc[t] \in {"track_tgid", "scan", "kill", "wait", "wait_sleep", "resume"} -> "begun"
    [] pc[t] \in {"unhook", "init_wq", "fork", "await", "asleep"} -> "frozen"
    [] pc[t] = "cont" -> "copied"
    [] pc[t] \in {"untrack_pid", "untrack_tgid"} -> "thawed"
    [] OTHER -> "out"

Contexts(p) == {regs[u] : u \in {v \in Group(p) : ~Exiting(v)}}

(* What leader_clone returned.                                             *)
ToldTo(t) ==
  IF pc[t] # "cont" THEN "none" ELSE IF loc[t].err < 0 THEN "failed" ELSE "ok"

(* The contexts that have been copied so far, those of threads of the copy *)
(* that have ended already included.                                       *)
CopyOf(t) ==
  IF pc[t] = "cont" /\ child(t) # Outside THEN {regs[u] : u \in Members(child(t))}
                                          ELSE {}

Snapshot == INSTANCE SnapshotCall
  WITH Task    <- Pid,
       Process <- Pid,
       members <- [p \in Pid |-> Contexts(p)],
       process <- tgid,
       phase   <- [t \in Pid |-> PhaseOf(t)],
       copy    <- [t \in Pid |-> CopyOf(t)],
       told    <- [t \in Pid |-> ToldTo(t)]

(* The whole protocol of stop, hooks, fork, wait queue and resume is, for  *)
(* the program, one copy of one state of the process.                      *)
ImplementsSnapshot == Snapshot!Spec
=============================================================================
