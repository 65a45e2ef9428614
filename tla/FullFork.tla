------------------------------- MODULE FullFork -------------------------------
(***************************************************************************)
(* FULL_FORK/fullfork.c: system call 548 copies the calling process with   *)
(* all its threads.  The caller stops its sibling threads with SIGSTOP,    *)
(* waits for the group stop, forks (kernel_clone) and sleeps on wq1; the   *)
(* child is caught on its way through schedule_tail() by the pull_back     *)
(* hook, clones one thread for each thread of its parent's group and wakes *)
(* the caller, which resumes the siblings with SIGCONT.                    *)
(*                                                                         *)
(* No lock protects what the handler and the hook share: each access to    *)
(* such a global is a step, and pc[t] names the statement t executes next. *)
(***************************************************************************)
EXTENDS TaskGroup

CONSTANTS
  Callers,     (* tasks whose program makes system call 548                *)
  Forkers,     (* tasks whose program calls fork()                         *)
  Spawners,    (* tasks whose program calls pthread_create()               *)
  Exiters,     (* threads that may end, copied ones included; a group      *)
               (* leader does not                                          *)
  MaxCalls,    (* bound on the system calls 548 made                       *)
  Spaced       (* TRUE: the call is made only while every other task is in *)
               (* user mode                                                *)

ASSUME WorkloadAssumption ==
  /\ Callers \cup Forkers \cup Spawners \cup Exiters \subseteq Pid
  /\ \A t \in Exiters : Boot[t] # t
  /\ MaxCalls \in Nat
  /\ Spaced \in BOOLEAN

VARIABLES
  ff,     (* the globals of the module and the hooks it plants             *)
  pc,
  loc,    (* the local variables of the handler or hook that t executes;   *)
          (* child is child_pid in leader_clone, err what that returned    *)
  calls   (* how often the system call has been made                       *)

kernel == <<taskVars, stopVars>>
vars   == <<kernel, ff, pc, loc, calls>>

HandlerPC == {"track_tgid", "scan", "kill", "wait", "wait_sleep", "resume",
              "unhook", "init_wq", "fork", "await", "asleep", "cont",
              "untrack_pid", "untrack_tgid"}
BuildPC   == {"claim", "loop", "start"}
DonePC    == {"done_pid", "done_tgid", "wake", "unclaim"}
PC        == HandlerPC \cup BuildPC \cup DonePC \cup {"tail", "tail_flag", "user"}

Globals == [loaded       : BOOLEAN,   (* pull_back and syscall_hook are set*)
            tracked_pid  : Pid \cup {-1},
            tracked_tgid : Pid \cup {-1, 0},
            clone        : BOOLEAN,
            error_check  : {0, -1},
            wq1          : SUBSET Pid,
            hooks        : BOOLEAN]   (* the three ff_ hooks, set together *)

Locals == [temp : Pid \cup {Outside}, child : Pid \cup {Outside},
           parent_task : Pid \cup {Outside}, err : {0, -1}]

TypeOK ==
  /\ TaskTypeOK
  /\ ff \in Globals
  /\ pc \in [Pid -> PC]
  /\ loc \in [Pid -> Locals]
  /\ calls \in 0 .. MaxCalls

(* The static data of the module as insmod loads it.                       *)
FreshModule == [loaded |-> FALSE, tracked_pid |-> -1, tracked_tgid |-> 0,
                clone |-> FALSE, error_check |-> 0, wq1 |-> {}, hooks |-> FALSE]

Init ==
  /\ TaskInit
  /\ ff = FreshModule
  /\ pc = [t \in Pid |-> "user"]
  /\ loc = [t \in Pid |-> [temp |-> Outside, child |-> Outside,
                           parent_task |-> Outside, err |-> 0]]
  /\ calls = 0

-----------------------------------------------------------------------------
At(t, label)         == life[t] = "alive" /\ pc[t] = label
Goto(t, label)       == pc' = [pc EXCEPT ![t] = label]
Step(t, label, next) == At(t, label) /\ Goto(t, next)
UserMode(t)          == At(t, "user") /\ jobctl[t] = "none"

InHandler(t) == pc[t] \in HandlerPC
Building(t)  == pc[t] \in BuildPC
InModule(t)  == pc[t] \in HandlerPC \cup BuildPC \cup DonePC \cup {"tail_flag"}

temp(t)  == loc[t].temp
child(t) == loc[t].child

(* temp = next_thread(t)                                                   *)
Advance(t, from) ==
  \E u \in Pid : IsNext(from, u) /\ loc' = [loc EXCEPT ![t].temp = u]

-----------------------------------------------------------------------------
(* The hooks that the handler plants in the kernel for the stop.           *)

(* Mutant: without the test of exit_signal the whole group is exempt.      *)
group_leader_Any(u) == tgid[u] = ff.tracked_tgid

(* Mutant: nobody is exempt.                                               *)
group_leader_None(u) == FALSE

(* ff_group_leader: whom do_signal_stop() leaves running.                  *)
group_leader(u) == tgid[u] = ff.tracked_tgid /\ tgid[u] = u

(* ff_eligible_pid: whom fullfork_wait() may wait for.                     *)
is_eligible_pid(u) == tgid[u] = ff.tracked_tgid

(* Mutant: the parent is notified, as without the hook.                    *)
parent_changer_Real(t) == real_parent[tgid[t]]

(* ff_parent_changer: whom the thread t that completes a stop notifies.    *)
parent_changer(t) == IF tgid[t] = ff.tracked_tgid THEN tgid[t]
                                                  ELSE real_parent[tgid[t]]

Exempt == {u \in Pid : ff.hooks /\ group_leader(u)}

(* do_notify_parent_cldstop(): if t completed a stop, the waiters for which*)
(* the group is eligible in the notified process wake up.                  *)
NotifyStop(t) ==
  pc' = [w \in Pid |->
           IF /\ pc[w] = "wait_sleep" /\ stopped' # stopped
              /\ ff.hooks /\ is_eligible_pid(t) /\ tgid[w] = parent_changer(t)
           THEN "wait" ELSE pc[w]]

-----------------------------------------------------------------------------
(* init_module and cleanup_module.  A task inside module text that rmmod   *)
(* frees has no defined behaviour: the module goes only when nobody is in. *)

InitModule ==
  /\ ~ff.loaded
  /\ ff' = [FreshModule EXCEPT !.loaded = TRUE]
  /\ UNCHANGED <<kernel, pc, loc, calls>>

CleanupModule ==
  /\ ff.loaded /\ \A t \in Pid : ~InModule(t)
  /\ ff' = [ff EXCEPT !.loaded = FALSE, !.hooks = FALSE,
                      !.tracked_pid = -1, !.tracked_tgid = -1]
  /\ UNCHANGED <<kernel, pc, loc, calls>>

-----------------------------------------------------------------------------
(* my_syscall_handler.  Entry: tracked_pid = current->pid.                 *)
Call(t) ==
  /\ UserMode(t) /\ t \in Callers /\ ff.loaded /\ calls < MaxCalls
  /\ Spaced => \A u \in Pid : pc[u] = "user"
  /\ calls' = calls + 1
  /\ ff' = [ff EXCEPT !.tracked_pid = t]
  /\ loc' = [loc EXCEPT ![t].temp = Outside, ![t].child = Outside, ![t].err = 0]
  /\ Goto(t, "track_tgid")
  /\ UNCHANGED kernel

TrackTgid(t) ==
  /\ Step(t, "track_tgid", "scan")
  /\ ff' = [ff EXCEPT !.tracked_tgid = tgid[t]]
  /\ UNCHANGED <<kernel, loc, calls>>

(* The first thread after t, in list order, that is not exiting.           *)
FirstAlive(t, u) ==
  LET alive == {v \in Siblings(t) : ~Exiting(v)}
      later == {v \in alive : v > t}
      ring  == IF later # {} THEN later ELSE alive
  IN  u \in ring /\ \A v \in ring : u =< v

ScanThreads(t) ==
  /\ \/ /\ \A u \in Siblings(t) : Exiting(u)
        /\ Step(t, "scan", "init_wq")
        /\ UNCHANGED <<ff, loc>>
     \/ /\ Step(t, "scan", "kill")
        /\ \E u \in Pid : FirstAlive(t, u) /\ loc' = [loc EXCEPT ![t].temp = u]
        /\ ff' = [ff EXCEPT !.hooks = TRUE]
  /\ UNCHANGED <<kernel, calls>>

(* kill_pid(SIGSTOP) fails once temp has been released: a plain return.    *)
KillStop(t) ==
  /\ \/ Step(t, "kill", "user") /\ life[temp(t)] = "dead" /\ UNCHANGED stopVars
     \/ Step(t, "kill", "wait") /\ life[temp(t)] # "dead" /\ SendStop(tgid[t])
  /\ UNCHANGED <<taskVars, ff, loc, calls>>

(* TIF_SIGPENDING on the waiting task: it was counted into the stop, or    *)
(* the SIGSTOP was retargeted because temp began to exit.                  *)
Interrupted(t) ==
  \/ jobctl[t] = "pending"
  \/ tgid[t] \in sigstop /\ Exiting(temp(t))

(* One pass of do_wait() in fullfork_wait: stopped, an error, or sleep.    *)
FullforkWait(t) ==
  /\ At(t, "wait")
  /\ LET eligible == ff.hooks /\ is_eligible_pid(t) /\ life[temp(t)] # "dead"
     IN  Goto(t, IF eligible /\ tgid[t] \in stopped THEN "unhook"
                 ELSE IF ~eligible \/ Interrupted(t) THEN "resume"
                 ELSE "wait_sleep")
  /\ UNCHANGED <<kernel, ff, loc, calls>>

WaitInterrupted(t) ==
  /\ Step(t, "wait_sleep", "wait") /\ Interrupted(t)
  /\ UNCHANGED <<kernel, ff, loc, calls>>

(* Mutant: return without SIGCONT.                                         *)
WaitFailed_NoCont(t) ==
  Step(t, "resume", "user") /\ UNCHANGED <<kernel, ff, loc, calls>>

(* The wait failed: SIGCONT, then return; hooks and tracked ids stay.      *)
WaitFailed(t) ==
  /\ Step(t, "resume", "user") /\ SendCont(tgid[t])
  /\ UNCHANGED <<taskVars, ff, loc, calls>>

Unhook(t) ==
  /\ Step(t, "unhook", "init_wq") /\ ClearStopPending(t)
  /\ ff' = [ff EXCEPT !.hooks = FALSE]
  /\ UNCHANGED <<taskVars, loc, calls>>

(* leader_clone: init_waitqueue_head forgets whoever is queued.            *)
InitWaitQueue(t) ==
  /\ Step(t, "init_wq", "fork")
  /\ ff' = [ff EXCEPT !.wq1 = {}]
  /\ UNCHANGED <<kernel, loc, calls>>

(* leader_clone: kernel_clone fails, or makes and wakes the child.         *)
LeaderClone(t) ==
  /\ \/ /\ Step(t, "fork", "cont")
        /\ loc' = [loc EXCEPT ![t].err = -1]
        /\ UNCHANGED taskVars
     \/ /\ At(t, "fork") /\ ~SignalPending(t)
        /\ \E c \in Pid : /\ FreshPid(c)
                          /\ CopyProcess(c, t, c, t, "alive")
                          /\ loc' = [loc EXCEPT ![t].child = c]
                          /\ pc' = [pc EXCEPT ![t] = "await", ![c] = "tail"]
  /\ UNCHANGED <<stopVars, ff, calls>>

(* Mutant: the caller does not wait.                                       *)
WaitForClone_Not(t) ==
  Step(t, "await", "cont") /\ UNCHANGED <<kernel, ff, loc, calls>>

(* wait_event(wq1, tracked_pid == -1): queue, test, go on or sleep; then   *)
(* return error_check.                                                     *)
WaitForClone(t) ==
  /\ \/ /\ ff.tracked_pid = -1 /\ Step(t, "await", "cont")
        /\ ff' = [ff EXCEPT !.wq1 = @ \ {t}]
        /\ loc' = [loc EXCEPT ![t].err = ff.error_check]
     \/ /\ ff.tracked_pid # -1 /\ Step(t, "await", "asleep")
        /\ ff' = [ff EXCEPT !.wq1 = @ \cup {t}]
        /\ UNCHANGED loc
  /\ UNCHANGED <<kernel, calls>>

(* Mutant: the siblings are not resumed.                                   *)
Continue_Not(t) ==
  Step(t, "cont", "untrack_pid") /\ UNCHANGED <<kernel, ff, loc, calls>>

(* kill_pid(current->thread_pid, SIGCONT, 0)                               *)
Continue(t) ==
  /\ Step(t, "cont", "untrack_pid") /\ SendCont(tgid[t])
  /\ UNCHANGED <<taskVars, ff, loc, calls>>

(* Mutants: tracked_pid is kept; it is set to 0, as tracked_tgid starts.   *)
UntrackPid_Not(t) ==
  Step(t, "untrack_pid", "untrack_tgid") /\ UNCHANGED <<kernel, ff, loc, calls>>

UntrackPid_Zero(t) ==
  /\ Step(t, "untrack_pid", "untrack_tgid")
  /\ ff' = [ff EXCEPT !.tracked_pid = 0]
  /\ UNCHANGED <<kernel, loc, calls>>

(* tracked_pid = -1                                                        *)
UntrackPid(t) ==
  /\ Step(t, "untrack_pid", "untrack_tgid")
  /\ ff' = [ff EXCEPT !.tracked_pid = -1]
  /\ UNCHANGED <<kernel, loc, calls>>

UntrackTgid(t) ==
  /\ Step(t, "untrack_tgid", "user")
  /\ ff' = [ff EXCEPT !.tracked_tgid = -1]
  /\ UNCHANGED <<kernel, loc, calls>>

Handler(t) ==
  \/ TrackTgid(t) \/ ScanThreads(t) \/ KillStop(t) \/ FullforkWait(t)
  \/ WaitInterrupted(t) \/ WaitFailed(t) \/ Unhook(t) \/ InitWaitQueue(t)
  \/ LeaderClone(t) \/ WaitForClone(t) \/ Continue(t) \/ UntrackPid(t)
  \/ UntrackTgid(t)

-----------------------------------------------------------------------------
(* Mutant: without the test of ppid every new task may build.              *)
EnterPullBack_AnyTask(t) ==
  /\ Step(t, "tail", IF ~ff.loaded THEN "user" ELSE "tail_flag")
  /\ UNCHANGED <<kernel, ff, loc, calls>>

(* my_pull_back, run by every new task at the end of schedule_tail():      *)
(* if(ppid == tracked_pid)                                                 *)
EnterPullBack(t) ==
  /\ Step(t, "tail", IF ~ff.loaded \/ PPid(t) # ff.tracked_pid THEN "user"
                                                              ELSE "tail_flag")
  /\ UNCHANGED <<kernel, ff, loc, calls>>

(* if(!clone): a second read, at any time after the first                  *)
TestClone(t) ==
  /\ Step(t, "tail_flag", IF ff.clone THEN "user" ELSE "claim")
  /\ UNCHANGED <<kernel, ff, loc, calls>>

Claim(t) ==
  /\ Step(t, "claim", "loop")
  /\ ff' = [ff EXCEPT !.clone = TRUE]
  /\ \E u \in Pid :
       /\ IsNext(real_parent[t], u)
       /\ loc' = [loc EXCEPT ![t].temp = u, ![t].parent_task = real_parent[t]]
  /\ UNCHANGED <<kernel, calls>>

(* Mutant: the loop ends one thread early.                                 *)
EndLoop_Early(t) ==
  /\ At(t, "loop") /\ IsNext(temp(t), loc[t].parent_task) /\ Goto(t, "done_pid")
  /\ UNCHANGED <<kernel, ff, loc, calls>>

(* while(temp != parent_task)                                              *)
EndLoop(t) ==
  /\ temp(t) = loc[t].parent_task /\ Step(t, "loop", "done_pid")
  /\ UNCHANGED <<kernel, ff, loc, calls>>

SkipExiting(t) ==
  /\ At(t, "loop") /\ temp(t) # loc[t].parent_task /\ Exiting(temp(t))
  /\ Advance(t, temp(t))
  /\ UNCHANGED <<kernel, ff, pc, calls>>

(* Mutant: the failure is not recorded.                                    *)
CloneThread_Silent(t) ==
  /\ At(t, "loop") /\ temp(t) # loc[t].parent_task /\ ~Exiting(temp(t))
  /\ \/ Step(t, "loop", "done_pid") /\ UNCHANGED <<taskVars, loc>>
     \/ /\ ~SignalPending(t)
        /\ \E n \in Pid : /\ FreshPid(n)
                          /\ CopyProcess(n, t, tgid[t], real_parent[t], "new")
                          /\ loc' = [loc EXCEPT ![t].child = n]
                          /\ pc' = [pc EXCEPT ![t] = "start", ![n] = "tail"]
  /\ UNCHANGED <<stopVars, ff, calls>>

(* my_kernel_clone with CLONE_THREAD fails, or makes a task that joins the *)
(* group of t, has the real parent of t and is not woken.                  *)
CloneThread(t) ==
  /\ At(t, "loop") /\ temp(t) # loc[t].parent_task /\ ~Exiting(temp(t))
  /\ \/ /\ Step(t, "loop", "done_pid")
        /\ ff' = [ff EXCEPT !.error_check = -1]
        /\ UNCHANGED <<taskVars, loc>>
     \/ /\ ~SignalPending(t)
        /\ \E n \in Pid : /\ FreshPid(n)
                          /\ CopyProcess(n, t, tgid[t], real_parent[t], "new")
                          /\ loc' = [loc EXCEPT ![t].child = n]
                          /\ pc' = [pc EXCEPT ![t] = "start", ![n] = "tail"]
        /\ UNCHANGED ff
  /\ UNCHANGED <<stopVars, calls>>

(* Mutants: the new thread keeps the registers it was created with; it is  *)
(* not woken.                                                              *)
StartThread_OwnRegs(t) ==
  /\ Step(t, "start", "loop")
  /\ life' = [life EXCEPT ![child(t)] = "alive"]
  /\ Advance(t, temp(t))
  /\ UNCHANGED <<tgid, real_parent, regs, stopVars, ff, calls>>

StartThread_Asleep(t) ==
  /\ Step(t, "start", "loop")
  /\ regs' = [regs EXCEPT ![child(t)] = regs[temp(t)]]
  /\ Advance(t, temp(t))
  /\ UNCHANGED <<tgid, real_parent, life, stopVars, ff, calls>>

(* *my_regs = *temp_regs; wake_up_new_task(child); temp = next_thread(temp)*)
StartThread(t) ==
  /\ Step(t, "start", "loop")
  /\ WakeWithRegs(child(t), temp(t))
  /\ Advance(t, temp(t))
  /\ UNCHANGED <<stopVars, ff, calls>>

(* Mutant: tracked_pid keeps the caller waiting.                           *)
DonePid_Not(t) ==
  Step(t, "done_pid", "done_tgid") /\ UNCHANGED <<kernel, ff, loc, calls>>

DonePid(t) ==
  /\ Step(t, "done_pid", "done_tgid")
  /\ ff' = [ff EXCEPT !.tracked_pid = -1]
  /\ UNCHANGED <<kernel, loc, calls>>

DoneTgid(t) ==
  /\ Step(t, "done_tgid", "wake")
  /\ ff' = [ff EXCEPT !.tracked_tgid = -1]
  /\ UNCHANGED <<kernel, loc, calls>>

(* wake_up(&wq1): the queued tasks leave the queue and test again.         *)
WakeCaller(t) ==
  /\ At(t, "wake")
  /\ pc' = [u \in Pid |-> IF u = t THEN "unclaim"
                          ELSE IF u \in ff.wq1 /\ pc[u] = "asleep" THEN "await"
                          ELSE pc[u]]
  /\ ff' = [ff EXCEPT !.wq1 = {}]
  /\ UNCHANGED <<kernel, loc, calls>>

(* Mutant: the flag stays set.                                             *)
Unclaim_Not(t) ==
  Step(t, "unclaim", "user") /\ UNCHANGED <<kernel, ff, loc, calls>>

(* clone = false                                                           *)
Unclaim(t) ==
  /\ Step(t, "unclaim", "user")
  /\ ff' = [ff EXCEPT !.clone = FALSE]
  /\ UNCHANGED <<kernel, loc, calls>>

PullBack(t) ==
  \/ EnterPullBack(t) \/ TestClone(t) \/ Claim(t) \/ EndLoop(t)
  \/ SkipExiting(t) \/ CloneThread(t) \/ StartThread(t) \/ DonePid(t)
  \/ DoneTgid(t) \/ WakeCaller(t) \/ Unclaim(t)

-----------------------------------------------------------------------------
(* What the kernel does to a thread on its way to user mode and at its end.*)

DequeueStop(t) ==
  /\ UserMode(t) /\ tgid[t] \in sigstop
  /\ DoSignalStop(t, Exempt) /\ NotifyStop(t)
  /\ UNCHANGED <<taskVars, ff, loc, calls>>

GroupStop(t) ==
  /\ At(t, "user") /\ jobctl[t] \in {"pending", "owed"}
  /\ StopHere(t) /\ NotifyStop(t)
  /\ UNCHANGED <<taskVars, ff, loc, calls>>

Release(t) ==
  /\ life[t] = "exiting" /\ ReleaseTask(t)
  /\ UNCHANGED <<stopVars, ff, pc, loc, calls>>

Kernel(t) == DequeueStop(t) \/ GroupStop(t) \/ Release(t)

(* What the programs do of their own accord.                               *)

Exit(t) ==
  /\ At(t, "user") /\ jobctl[t] \in {"none", "pending"}
  /\ t \in Exiters /\ tgid[t] # t
  /\ TaskExit(t) /\ NotifyStop(t)
  /\ UNCHANGED <<ff, loc, calls>>

Fork(t) ==
  /\ UserMode(t) /\ ~SignalPending(t) /\ t \in Forkers
  /\ \E c \in Pid : /\ FreshPid(c)
                    /\ CopyProcess(c, t, c, t, "alive")
                    /\ Goto(c, "tail")
  /\ UNCHANGED <<stopVars, ff, loc, calls>>

(* pthread_create(): the new thread has a context of its own.              *)
Spawn(t) ==
  /\ UserMode(t) /\ ~SignalPending(t) /\ t \in Spawners
  /\ \E c \in Pid : /\ FreshPid(c)
                    /\ NewThread(c, t)
                    /\ Goto(c, "tail")
  /\ UNCHANGED <<stopVars, ff, loc, calls>>

Program(t) == Call(t) \/ Exit(t) \/ Fork(t) \/ Spawn(t)

-----------------------------------------------------------------------------
(* The programs may run on without another call: that is not a deadlock.   *)
Rest == (\A t \in Pid : pc[t] = "user") /\ UNCHANGED vars

Next ==
  \/ InitModule \/ CleanupModule \/ Rest
  \/ \E t \in Pid : Handler(t) \/ PullBack(t) \/ Kernel(t) \/ Program(t)

Spec == Init /\ [][Next]_vars

(* Whatever can run in the kernel is scheduled; what programs do in user   *)
(* mode, insmod and rmmod may never happen.                                *)
Fairness == \A t \in Pid : /\ WF_vars(Handler(t))
                           /\ WF_vars(PullBack(t))
                           /\ WF_vars(Kernel(t))

FairSpec == Spec /\ Fairness

-----------------------------------------------------------------------------
(* Properties.                                                             *)

(* From the end of the wait to SIGCONT no sibling of the caller can run:   *)
(* the full fork copies one state of the process ("Stop all threads using  *)
(* signal").                                                               *)
SiblingsFrozen ==
  \A t \in Pid :
    pc[t] \in {"unhook", "init_wq", "fork", "await", "asleep", "cont"} =>
      \A u \in Siblings(t) : Exiting(u) \/ jobctl[u] = "stopped"

(* A thread of a full fork is late if it has been let in by both tests of  *)
(* my_pull_back, the second after the leader of its process had finished   *)
(* and reset clone: it builds once more.  Nothing undoes that.             *)
Late(n) == tgid[n] # n /\ (pc[n] = "claim" \/ loc[n].parent_task # Outside)

NoneLate == \A n \in Pid : ~Late(n)

(* The threads that group p has, or has had.                               *)
Members(p) == {u \in Pid : tgid[u] = p /\ life[u] # "free"}

(* When the caller is about to resume its siblings, the new process has got*)
(* a thread only for threads that are live in the caller's, one for each if*)
(* no clone failed, and no two for the same unless a thread was late.      *)
CloneIsReplica ==
  \A t \in Pid :
    pc[t] = "cont" /\ child(t) # Outside =>
      LET original == {u \in Group(tgid[t]) : ~Exiting(u)}
          copy     == Members(child(t))
          of(G)    == {regs[u] : u \in G}
      IN  /\ of(copy) \subseteq of(original)
          /\ loc[t].err = 0 => of(copy) = of(original)
          /\ NoneLate => Cardinality(of(copy)) = Cardinality(copy)

(* The caller goes on only when its own clone has finished adding threads, *)
(* failed or not.                                                          *)
OwnCloneDone ==
  \A t \in Pid :
    pc[t] = "cont" /\ child(t) # Outside =>
      ~Building(child(t)) /\ pc[child(t)] \notin {"tail", "tail_flag"}

(* Only the child that leader_clone forked adds threads to itself, while   *)
(* its caller is still in the handler; or a late thread of that child, and *)
(* never beside it: it has added its own, and has finished.                *)
BuildersTakeTurns ==
  \A c \in Pid : Building(c) =>
    \/ \E t \in Pid : InHandler(t) /\ child(t) = c
    \/ /\ Late(c) /\ loc[tgid[c]].parent_task # Outside
       /\ pc[tgid[c]] \notin BuildPC \cup DonePC

(* No two threads of a process resume the same user context: my_pull_back  *)
(* clones each thread once ("any child formed by forking the task struct   *)
(* of this process is clone").                                             *)
OneThreadEach ==
  \A t, u \in Pid :
    (t # u /\ tgid[t] = tgid[u] /\ life[t] = "alive" /\ life[u] = "alive")
      => regs[t] # regs[u]

(* The same, as long as no thread of a full fork has been late.            *)
DistinctContexts == NoneLate => OneThreadEach

(* A thread that my_kernel_clone created and did not wake is one that its  *)
(* creator is about to wake.                                               *)
NoOrphanThread ==
  \A n \in Pid : life[n] = "new" =>
    \E c \in Pid : At(c, "start") /\ child(c) = n

(* A group stop, asked for or complete, is always one that a caller of the *)
(* same process is going to lift.                                          *)
StopperPC == {"wait", "wait_sleep", "resume", "unhook", "init_wq", "fork",
              "await", "asleep", "cont"}

Stopper(t) == life[t] = "alive" /\ pc[t] \in StopperPC

StopOwned ==
  \A u \in Pid :
    jobctl[u] # "none" \/ tgid[u] \in sigstop \cup stopped =>
      \E t \in Pid : Stopper(t) /\ tgid[t] = tgid[u]

(* fullfork_wait() does not sleep through the stop it waits for, though the*)
(* hooks change whom the stop counts and whom it notifies: the group is not*)
(* stopped yet, and the thread that will stop it, or that still has to, is *)
(* neither the waiting one nor one that exits, and will wake the caller.   *)
StopIsComing ==
  \A t \in Pid :
    pc[t] = "wait_sleep" /\ ~Interrupted(t) =>
      /\ ff.hooks /\ ff.tracked_tgid = tgid[t] /\ tgid[t] \notin stopped
      /\ \/ /\ tgid[t] \in sigstop /\ temp(t) \in Siblings(t)
            /\ life[temp(t)] = "alive" /\ jobctl[temp(t)] = "none"
         \/ \E u \in Siblings(t) : life[u] = "alive" /\ jobctl[u] = "pending"

(* wait_event(wq1, tracked_pid == -1) does not sleep through its wake-up:  *)
(* the caller is in the queue, and its clone is in my_pull_back or will be *)
(* let in, short of tracked_pid = -1 or, once that is done, of             *)
(* wake_up(&wq1).                                                          *)
NoLostWakeUp ==
  \A t \in Pid :
    pc[t] = "asleep" =>
      /\ t \in ff.wq1 /\ ff.loaded
      /\ \/ /\ ff.tracked_pid = t
            /\ \/ /\ pc[child(t)] \in {"tail", "tail_flag"}
                  /\ PPid(child(t)) = t /\ ~ff.clone
               \/ pc[child(t)] \in BuildPC \cup {"done_pid"}
         \/ ff.tracked_pid = -1 /\ pc[child(t)] \in {"done_tgid", "wake"}

(* Every system call returns to user mode.                                 *)
CallReturns == \A t \in Callers : InHandler(t) ~> pc[t] = "user"

(* No thread stays stopped: every stop is lifted.                          *)
StopLifted ==
  \A t \in Callers :
    (\E u \in Siblings(t) : jobctl[u] = "stopped")
      ~> (\A u \in Siblings(t) : jobctl[u] # "stopped")
=============================================================================
