------------------------------ MODULE TaskGroup ------------------------------
(***************************************************************************)
(* The part of the Linux kernel that the full-fork modules run on: tasks   *)
(* and thread groups, task creation and exit, and group stop by SIGSTOP    *)
(* and SIGCONT.  None of this code is in the repository: it is modelled    *)
(* from how the modules call it and from the kernel changes listed in      *)
(* CS614__Full_Fork_Report.pdf ("Reproducing Fullfork").                   *)
(*                                                                         *)
(* Pids are handed out in increasing order and a thread group lists its    *)
(* threads in the order of their creation, so the list order is the order  *)
(* of the pids.                                                            *)
(***************************************************************************)
EXTENDS Integers, FiniteSets

CONSTANTS
  MaxPid,  (* bound on the number of tasks that ever exist                 *)
  Boot     (* Boot[t] is the thread group of a task that exists at first,  *)
           (* Outside for a pid that is still free                         *)

Pid == 1 .. MaxPid

(* A task that is not modelled (the shell that started the programs).      *)
Outside == 0

(* The tasks that exist at first took the first pids, and a leader comes   *)
(* before the threads of its group.                                        *)
ASSUME BootAssumption ==
  /\ MaxPid \in Nat \ {0}
  /\ Boot \in [Pid -> Pid \cup {Outside}]
  /\ \A t \in Pid : Boot[t] # Outside => /\ Boot[Boot[t]] = Boot[t] /\ Boot[t] =< t
                                         /\ \A u \in 1 .. t : Boot[u] # Outside

VARIABLES
  tgid,         (* task_struct.tgid: the pid of the group leader           *)
  real_parent,  (* task_struct.real_parent                                 *)
  life,         (* "free"; "new": created, not yet woken (TASK_NEW);       *)
                (* "alive"; "exiting": PF_EXITING, still in the thread     *)
                (* list; "dead": released                                  *)
  regs,         (* whose user context the task resumes in (its pt_regs)    *)
  jobctl,       (* "none"; "pending": asked to stop and counted in         *)
                (* group_stop_count; "owed": asked to stop, not counted;   *)
                (* "stopped"                                               *)
  sigstop,      (* groups with SIGSTOP in their shared pending signals     *)
  stopped       (* groups whose stop is complete (SIGNAL_STOP_STOPPED)     *)

taskVars == <<tgid, real_parent, life, regs>>
stopVars == <<jobctl, sigstop, stopped>>

TaskTypeOK ==
  /\ tgid \in [Pid -> Pid \cup {Outside}]
  /\ real_parent \in [Pid -> Pid \cup {Outside}]
  /\ life \in [Pid -> {"free", "new", "alive", "exiting", "dead"}]
  /\ regs \in [Pid -> Pid \cup {Outside}]
  /\ jobctl \in [Pid -> {"none", "pending", "owed", "stopped"}]
  /\ sigstop \subseteq Pid
  /\ stopped \subseteq Pid

TaskInit ==
  /\ tgid = Boot
  /\ real_parent = [t \in Pid |-> Outside]
  /\ life = [t \in Pid |-> IF Boot[t] = Outside THEN "free" ELSE "alive"]
  /\ regs = [t \in Pid |-> IF Boot[t] = Outside THEN Outside ELSE t]
  /\ jobctl = [t \in Pid |-> "none"]
  /\ sigstop = {}
  /\ stopped = {}

-----------------------------------------------------------------------------
(* Reading the task table.                                                 *)

(* The threads on the thread list of group p.                              *)
Group(p) == {t \in Pid : tgid[t] = p /\ life[t] \in {"new", "alive", "exiting"}}

Siblings(t) == Group(tgid[t]) \ {t}

(* PF_EXITING, which stays set on a task that has been released.           *)
Exiting(t) == life[t] \in {"exiting", "dead"}

(* next_thread(t) = u: the list is circular, in the order of the pids.     *)
IsNext(t, u) ==
  LET later == {v \in Group(tgid[t]) : v > t}
      ring  == IF later # {} THEN later ELSE Group(tgid[t])
  IN  u \in ring /\ \A v \in ring : u =< v

(* task_ppid_nr(t): the group of the real parent.                          *)
PPid(t) == IF real_parent[t] = Outside THEN Outside ELSE tgid[real_parent[t]]

(* signal_pending() once recalc_sigpending() has looked at t.              *)
SignalPending(t) == jobctl[t] # "none" \/ tgid[t] \in sigstop

-----------------------------------------------------------------------------
(* Creating and ending tasks.                                              *)

FreshPid(c) == life[c] = "free" /\ \A d \in 1 .. c - 1 : life[d] # "free"

(* copy_process(): t makes the task c, in group g and with real parent p.  *)
(* The new task starts from a copy of t's registers.                       *)
CopyProcess(c, t, g, p, state) ==
  /\ tgid' = [tgid EXCEPT ![c] = g]
  /\ real_parent' = [real_parent EXCEPT ![c] = p]
  /\ life' = [life EXCEPT ![c] = state]
  /\ regs' = [regs EXCEPT ![c] = regs[t]]

(* clone() from pthread_create(): a thread with a context of its own.      *)
NewThread(c, t) ==
  /\ tgid' = [tgid EXCEPT ![c] = tgid[t]]
  /\ real_parent' = [real_parent EXCEPT ![c] = real_parent[t]]
  /\ life' = [life EXCEPT ![c] = "alive"]
  /\ regs' = [regs EXCEPT ![c] = c]

(* *task_pt_regs(n) = *task_pt_regs(t); wake_up_new_task(n)                *)
WakeWithRegs(n, t) ==
  /\ regs' = [regs EXCEPT ![n] = regs[t]]
  /\ life' = [life EXCEPT ![n] = "alive"]
  /\ UNCHANGED <<tgid, real_parent>>

(* The group has nobody left to stop once t has stopped or left.           *)
LastToStop(t) == \A u \in Siblings(t) : jobctl[u] # "pending"

(* exit_signals(): t gets PF_EXITING and drops out of a group stop, which  *)
(* it may complete.                                                        *)
TaskExit(t) ==
  /\ life' = [life EXCEPT ![t] = "exiting"]
  /\ jobctl' = [jobctl EXCEPT ![t] = "none"]
  /\ stopped' = IF jobctl[t] = "pending" /\ LastToStop(t)
                  THEN stopped \cup {tgid[t]} ELSE stopped
  /\ UNCHANGED <<tgid, real_parent, regs, sigstop>>

(* release_task(): t leaves the thread list; its children pass to a thread *)
(* of the group that is not exiting.                                       *)
ReleaseTask(t) ==
  /\ life' = [life EXCEPT ![t] = "dead"]
  /\ \E u \in Siblings(t) :
       /\ ~Exiting(u)
       /\ real_parent' = [c \in Pid |-> IF real_parent[c] = t THEN u
                                                        ELSE real_parent[c]]
  /\ UNCHANGED <<tgid, regs>>

-----------------------------------------------------------------------------
(* Group stop.                                                             *)

(* kill_pid(p, SIGSTOP): the signal waits in the shared pending set.       *)
SendStop(p) ==
  /\ sigstop' = sigstop \cup {p}
  /\ UNCHANGED <<jobctl, stopped>>

(* kill_pid(p, SIGCONT): prepare_signal() discards the SIGSTOP and every   *)
(* trace of the group stop, and wakes the stopped threads.                 *)
SendCont(p) ==
  /\ sigstop' = sigstop \ {p}
  /\ stopped' = stopped \ {p}
  /\ jobctl' = [u \in Pid |-> IF tgid[u] = p THEN "none" ELSE jobctl[u]]

(* do_signal_stop(), reached by the thread t that dequeues the SIGSTOP:    *)
(* t stops and asks its siblings to; those for which the ff_group_leader   *)
(* hook answers TRUE (exempt) are marked but neither counted nor woken.    *)
DoSignalStop(t, exempt) ==
  LET asked == {u \in Siblings(t) : ~Exiting(u) /\ jobctl[u] \in {"none", "owed"}}
      mark  == [u \in Pid |-> IF u = t THEN "stopped"
                              ELSE IF u \notin asked THEN jobctl[u]
                              ELSE IF u \in exempt THEN "owed" ELSE "pending"]
  IN  /\ jobctl' = mark
      /\ sigstop' = sigstop \ {tgid[t]}
      /\ stopped' = IF \A u \in Siblings(t) : mark[u] # "pending"
                      THEN stopped \cup {tgid[t]} ELSE stopped

(* do_signal_stop(), reached by a thread that has been asked to stop.      *)
StopHere(t) ==
  /\ jobctl' = [jobctl EXCEPT ![t] = "stopped"]
  /\ stopped' = IF LastToStop(t) THEN stopped \cup {tgid[t]} ELSE stopped
  /\ UNCHANGED sigstop

(* task_clear_jobctl_pending(t, JOBCTL_STOP_PENDING)                       *)
ClearStopPending(t) ==
  /\ jobctl' = [jobctl EXCEPT ![t] = "none"]
  /\ UNCHANGED <<sigstop, stopped>>
=============================================================================
