---------------------------- MODULE FullForkProofs ----------------------------
(***************************************************************************)
(* Theorems about FullFork that hold for every number of tasks, every      *)
(* workload and every schedule, with no discipline among the callers, and  *)
(* the stop of a process in which one thread calls at a time.              *)
(***************************************************************************)
EXTENDS FullFork, TLAPS

(* What TypeOK needs to be preserved: the tasks that exist have a group,   *)
(* and a clone in its loop stands at a task.                               *)
Grouped == \A t \in Pid : life[t] # "free" => tgid[t] \in Pid
Cursor  == \A t \in Pid : /\ pc[t] \in {"loop", "start"} => temp(t) \in Pid
                          /\ pc[t] = "start" => /\ child(t) \in Pid
                                                /\ tgid[child(t)] \in Pid

(* No task ever loses its group.                                           *)
GroupsKept == \A t \in Pid : tgid[t] \in Pid => tgid'[t] \in Pid

TypeInv == TypeOK /\ Grouped /\ Cursor

(* What the steps of one task do to its label and its local variables.     *)
LEMMA PCNames ==
  /\ HandlerPC \cup BuildPC \cup DonePC \cup {"tail", "tail_flag", "user"} = PC
  /\ \A l \in HandlerPC \cup DonePC \cup {"tail", "tail_flag", "user", "claim"} :
       l \notin {"loop", "start"}
BY DEF PC, HandlerPC, BuildPC, DonePC

LEMMA KeepLocals ==
  ASSUME pc \in [Pid -> PC], loc \in [Pid -> Locals], Cursor, GroupsKept,
         NEW t \in Pid, NEW l \in PC \ {"loop", "start"}, Goto(t, l),
         loc' = loc
  PROVE  pc' \in [Pid -> PC] /\ loc' \in [Pid -> Locals] /\ Cursor'
<1>1. \A u \in Pid : pc'[u] = IF u = t THEN l ELSE pc[u]
  BY DEF Goto
<1>2. Cursor'
  BY <1>1 DEF Cursor, GroupsKept, temp, child
<1> QED
  BY <1>2 DEF Goto

(* What the kernel's operations do to the task table.                      *)
LEMMA KeepKernel ==
  ASSUME TaskTypeOK, Grouped, UNCHANGED kernel
  PROVE  TaskTypeOK' /\ Grouped' /\ GroupsKept
BY DEF TaskTypeOK, Grouped, GroupsKept, kernel, taskVars, stopVars

LEMMA SendStopType ==
  ASSUME TaskTypeOK, Grouped, NEW t \in Pid, life[t] = "alive",
         SendStop(tgid[t]), UNCHANGED taskVars
  PROVE  TaskTypeOK' /\ Grouped' /\ GroupsKept
BY DEF SendStop, TaskTypeOK, Grouped, GroupsKept, taskVars

LEMMA CopyProcessType ==
  ASSUME TaskTypeOK, Grouped, NEW c \in Pid, NEW t \in Pid, NEW g \in Pid,
         NEW p \in Pid \cup {Outside}, NEW s \in {"new", "alive"},
         CopyProcess(c, t, g, p, s), UNCHANGED stopVars
  PROVE  TaskTypeOK' /\ Grouped' /\ GroupsKept
<1>1. TaskTypeOK'
  BY DEF CopyProcess, TaskTypeOK, stopVars
<1>2. Grouped' /\ GroupsKept
  BY DEF CopyProcess, TaskTypeOK, Grouped, GroupsKept
<1> QED
  BY <1>1, <1>2

LEMMA WakeWithRegsType ==
  ASSUME TaskTypeOK, Grouped, NEW n \in Pid, NEW t \in Pid, tgid[n] \in Pid,
         WakeWithRegs(n, t), UNCHANGED stopVars
  PROVE  TaskTypeOK' /\ Grouped' /\ GroupsKept
<1>1. TaskTypeOK'
  BY DEF WakeWithRegs, TaskTypeOK, stopVars
<1>2. Grouped' /\ GroupsKept
  BY DEF WakeWithRegs, TaskTypeOK, Grouped, GroupsKept
<1> QED
  BY <1>1, <1>2

LEMMA InitTypeInv == Init => TypeInv
  BY BootAssumption, WorkloadAssumption
  DEF Pid, Outside, Init, TaskInit, FreshModule, TypeInv, TypeOK, TaskTypeOK, Globals,
         Locals, HandlerPC, BuildPC, DonePC, PC, Grouped, Cursor, temp, child

LEMMA HandlerTypeInv ==
  ASSUME TypeInv, NEW t \in Pid, Handler(t)
  PROVE  TypeInv'
<1> USE DEF TypeInv, TypeOK
<1>1. CASE TrackTgid(t)
  <2>1. TaskTypeOK' /\ Grouped' /\ GroupsKept
    BY <1>1, KeepKernel DEF TrackTgid
  <2>2. ff' \in Globals /\ calls' \in 0 .. MaxCalls
    BY <1>1 DEF TrackTgid, Globals, TaskTypeOK, Grouped, At, Step, Pid, Outside
  <2>3. pc' \in [Pid -> PC] /\ loc' \in [Pid -> Locals] /\ Cursor'
    BY <1>1, <2>1, KeepLocals, PCNames DEF TrackTgid, Step, At, HandlerPC, DonePC, BuildPC
  <2> QED
    BY <2>1, <2>2, <2>3
<1>2. CASE ScanThreads(t)
  <2>1. TaskTypeOK' /\ Grouped' /\ GroupsKept
    BY <1>2, KeepKernel DEF ScanThreads
  <2>2. ff' \in Globals /\ calls' \in 0 .. MaxCalls
    BY <1>2 DEF ScanThreads, Globals
  <2>3. pc' \in [Pid -> PC]
    BY <1>2 DEF ScanThreads, PC, HandlerPC, DonePC, BuildPC, Step, Goto, At
  <2>4. loc' \in [Pid -> Locals]
    BY <1>2 DEF ScanThreads, Locals, Pid, Outside
  <2>5. Cursor'
    BY <1>2, <2>1, <2>3, <2>4 DEF ScanThreads, PC, HandlerPC, DonePC, BuildPC, Step, Goto, At, Locals, Pid, Outside, Cursor, GroupsKept, temp, child
  <2> QED
    BY <2>1, <2>2, <2>3, <2>4, <2>5
<1>3. CASE KillStop(t)
  <2>1. TaskTypeOK' /\ Grouped' /\ GroupsKept
    <3>1. CASE UNCHANGED stopVars
      BY <1>3, <3>1, KeepKernel DEF KillStop, kernel
    <3>2. CASE life[t] = "alive" /\ SendStop(tgid[t])
      BY <1>3, <3>2, SendStopType DEF KillStop
    <3> QED
      BY <1>3, <3>1, <3>2 DEF KillStop, Step, At
  <2>2. ff' \in Globals /\ calls' \in 0 .. MaxCalls
    BY <1>3 DEF KillStop
  <2>3. pc' \in [Pid -> PC] /\ loc' \in [Pid -> Locals] /\ Cursor'
    BY <1>3, <2>1, KeepLocals, PCNames DEF KillStop, Step, At, HandlerPC, DonePC, BuildPC
  <2> QED
    BY <2>1, <2>2, <2>3
<1>4. CASE FullforkWait(t)
  <2>1. TaskTypeOK' /\ Grouped' /\ GroupsKept
    BY <1>4, KeepKernel DEF FullforkWait
  <2>2. ff' \in Globals /\ calls' \in 0 .. MaxCalls
    BY <1>4 DEF FullforkWait
  <2>3. pc' \in [Pid -> PC] /\ loc' \in [Pid -> Locals] /\ Cursor'
    BY <1>4, <2>1, KeepLocals, PCNames DEF FullforkWait, Step, At, HandlerPC, DonePC, BuildPC
  <2> QED
    BY <2>1, <2>2, <2>3
<1>5. CASE WaitInterrupted(t)
  <2>1. TaskTypeOK' /\ Grouped' /\ GroupsKept
    BY <1>5, KeepKernel DEF WaitInterrupted
  <2>2. ff' \in Globals /\ calls' \in 0 .. MaxCalls
    BY <1>5 DEF WaitInterrupted
  <2>3. pc' \in [Pid -> PC] /\ loc' \in [Pid -> Locals] /\ Cursor'
    BY <1>5, <2>1, KeepLocals, PCNames DEF WaitInterrupted, Step, At, HandlerPC, DonePC, BuildPC
  <2> QED
    BY <2>1, <2>2, <2>3
<1>6. CASE WaitFailed(t)
  <2>1. TaskTypeOK' /\ Grouped' /\ GroupsKept
    BY <1>6 DEF WaitFailed, SendCont, TaskTypeOK, Grouped, GroupsKept, kernel, taskVars, stopVars, At, Step, Goto, UserMode, Pid, Outside
  <2>2. ff' \in Globals /\ calls' \in 0 .. MaxCalls
    BY <1>6 DEF WaitFailed
  <2>3. pc' \in [Pid -> PC] /\ loc' \in [Pid -> Locals] /\ Cursor'
    BY <1>6, <2>1, KeepLocals, PCNames DEF WaitFailed, Step, At, HandlerPC, DonePC, BuildPC
  <2> QED
    BY <2>1, <2>2, <2>3
<1>7. CASE Unhook(t)
  <2>1. TaskTypeOK' /\ Grouped' /\ GroupsKept
    BY <1>7 DEF Unhook, ClearStopPending, TaskTypeOK, Grouped, GroupsKept, kernel, taskVars, stopVars, At, Step, Goto, UserMode, Pid, Outside
  <2>2. ff' \in Globals /\ calls' \in 0 .. MaxCalls
    BY <1>7 DEF Unhook, Globals
  <2>3. pc' \in [Pid -> PC] /\ loc' \in [Pid -> Locals] /\ Cursor'
    BY <1>7, <2>1, KeepLocals, PCNames DEF Unhook, Step, At, HandlerPC, DonePC, BuildPC
  <2> QED
    BY <2>1, <2>2, <2>3
<1>8. CASE InitWaitQueue(t)
  <2>1. TaskTypeOK' /\ Grouped' /\ GroupsKept
    BY <1>8, KeepKernel DEF InitWaitQueue
  <2>2. ff' \in Globals /\ calls' \in 0 .. MaxCalls
    BY <1>8 DEF InitWaitQueue, Globals
  <2>3. pc' \in [Pid -> PC] /\ loc' \in [Pid -> Locals] /\ Cursor'
    BY <1>8, <2>1, KeepLocals, PCNames DEF InitWaitQueue, Step, At, HandlerPC, DonePC, BuildPC
  <2> QED
    BY <2>1, <2>2, <2>3
<1>9. CASE LeaderClone(t)
  <2>1. TaskTypeOK' /\ Grouped' /\ GroupsKept
    <3>1. CASE UNCHANGED taskVars
      BY <1>9, <3>1, KeepKernel DEF LeaderClone, kernel
    <3>2. ASSUME NEW c \in Pid, CopyProcess(c, t, c, t, "alive")
          PROVE  TaskTypeOK' /\ Grouped' /\ GroupsKept
      BY <1>9, <3>2, CopyProcessType DEF LeaderClone
    <3> QED
      BY <1>9, <3>1, <3>2 DEF LeaderClone
  <2>2. ff' \in Globals /\ calls' \in 0 .. MaxCalls
    BY <1>9 DEF LeaderClone
  <2>3. pc' \in [Pid -> PC]
    BY <1>9 DEF LeaderClone, PC, HandlerPC, DonePC, BuildPC, Step, Goto, At
  <2>4. loc' \in [Pid -> Locals]
    <3>1. \/ loc' = [loc EXCEPT ![t].err = -1]
          \/ \E c \in Pid : loc' = [loc EXCEPT ![t].child = c]
      BY <1>9 DEF LeaderClone
    <3> QED
      BY <3>1 DEF Locals
  <2>5. Cursor'
    BY <1>9, <2>1, <2>3, <2>4 DEF LeaderClone, PC, HandlerPC, DonePC, BuildPC, Step, Goto, At, Locals, Pid, Outside, Cursor, GroupsKept, temp, child
  <2> QED
    BY <2>1, <2>2, <2>3, <2>4, <2>5
<1>10. CASE WaitForClone(t)
  <2>1. TaskTypeOK' /\ Grouped' /\ GroupsKept
    BY <1>10, KeepKernel DEF WaitForClone
  <2>2. ff' \in Globals /\ calls' \in 0 .. MaxCalls
    BY <1>10 DEF WaitForClone, Globals
  <2>3. pc' \in [Pid -> PC]
    BY <1>10 DEF WaitForClone, PC, HandlerPC, DonePC, BuildPC, Step, Goto, At
  <2>4. loc' = loc \/ loc' = [loc EXCEPT ![t].err = ff.error_check]
    BY <1>10 DEF WaitForClone
  <2>7. /\ loc' \in [Pid -> Locals]
        /\ \A u \in Pid : loc'[u].temp = loc[u].temp /\ loc'[u].child = loc[u].child
    <3>1. ff.error_check \in {0, -1}
      BY DEF Globals
    <3> QED
      BY <2>4, <3>1 DEF Locals
  <2>5. pc'[t] \in {"cont", "asleep"} /\ \A u \in Pid \ {t} : pc'[u] = pc[u]
    BY <1>10 DEF WaitForClone, Step, Goto, At
  <2>6. Cursor'
    BY <2>1, <2>5, <2>7 DEF Cursor, GroupsKept, temp, child
  <2> QED
    BY <2>1, <2>2, <2>3, <2>6, <2>7
<1>11. CASE Continue(t)
  <2>1. TaskTypeOK' /\ Grouped' /\ GroupsKept
    BY <1>11 DEF Continue, SendCont, TaskTypeOK, Grouped, GroupsKept, kernel, taskVars, stopVars, At, Step, Goto, UserMode, Pid, Outside
  <2>2. ff' \in Globals /\ calls' \in 0 .. MaxCalls
    BY <1>11 DEF Continue
  <2>3. pc' \in [Pid -> PC] /\ loc' \in [Pid -> Locals] /\ Cursor'
    BY <1>11, <2>1, KeepLocals, PCNames DEF Continue, Step, At, HandlerPC, DonePC, BuildPC
  <2> QED
    BY <2>1, <2>2, <2>3
<1>12. CASE UntrackPid(t)
  <2>1. TaskTypeOK' /\ Grouped' /\ GroupsKept
    BY <1>12, KeepKernel DEF UntrackPid
  <2>2. ff' \in Globals /\ calls' \in 0 .. MaxCalls
    BY <1>12 DEF UntrackPid, Globals
  <2>3. pc' \in [Pid -> PC] /\ loc' \in [Pid -> Locals] /\ Cursor'
    BY <1>12, <2>1, KeepLocals, PCNames DEF UntrackPid, Step, At, HandlerPC, DonePC, BuildPC
  <2> QED
    BY <2>1, <2>2, <2>3
<1>13. CASE UntrackTgid(t)
  <2>1. TaskTypeOK' /\ Grouped' /\ GroupsKept
    BY <1>13, KeepKernel DEF UntrackTgid
  <2>2. ff' \in Globals /\ calls' \in 0 .. MaxCalls
    BY <1>13 DEF UntrackTgid, Globals
  <2>3. pc' \in [Pid -> PC] /\ loc' \in [Pid -> Locals] /\ Cursor'
    BY <1>13, <2>1, KeepLocals, PCNames DEF UntrackTgid, Step, At, HandlerPC, DonePC, BuildPC
  <2> QED
    BY <2>1, <2>2, <2>3
<1> QED
  BY <1>1, <1>2, <1>3, <1>4, <1>5, <1>6, <1>7, <1>8, <1>9, <1>10, <1>11, <1>12, <1>13 DEF Handler

LEMMA PullBackTypeInv ==
  ASSUME TypeInv, NEW t \in Pid, PullBack(t)
  PROVE  TypeInv'
<1> USE DEF TypeInv, TypeOK
<1>1. CASE EnterPullBack(t)
  <2>1. TaskTypeOK' /\ Grouped' /\ GroupsKept
    BY <1>1, KeepKernel DEF EnterPullBack
  <2>2. ff' \in Globals /\ calls' \in 0 .. MaxCalls
    BY <1>1 DEF EnterPullBack
  <2>3. pc' \in [Pid -> PC] /\ loc' \in [Pid -> Locals] /\ Cursor'
    BY <1>1, <2>1, KeepLocals, PCNames DEF EnterPullBack, Step, At, HandlerPC, DonePC, BuildPC
  <2> QED
    BY <2>1, <2>2, <2>3
<1>2. CASE TestClone(t)
  <2>1. TaskTypeOK' /\ Grouped' /\ GroupsKept
    BY <1>2, KeepKernel DEF TestClone
  <2>2. ff' \in Globals /\ calls' \in 0 .. MaxCalls
    BY <1>2 DEF TestClone
  <2>3. pc' \in [Pid -> PC] /\ loc' \in [Pid -> Locals] /\ Cursor'
    BY <1>2, <2>1, KeepLocals, PCNames DEF TestClone, Step, At, HandlerPC, DonePC, BuildPC
  <2> QED
    BY <2>1, <2>2, <2>3
<1>3. CASE Claim(t)
  <2>1. TaskTypeOK' /\ Grouped' /\ GroupsKept
    BY <1>3, KeepKernel DEF Claim
  <2>2. ff' \in Globals /\ calls' \in 0 .. MaxCalls
    BY <1>3 DEF Claim, Globals
  <2>3. pc' \in [Pid -> PC]
    BY <1>3 DEF Claim, PC, HandlerPC, DonePC, BuildPC, Step, Goto, At
  <2>4. loc' \in [Pid -> Locals]
    <3>1. PICK u \in Pid : loc' = [loc EXCEPT ![t].temp = u,
                                             ![t].parent_task = real_parent[t]]
      BY <1>3 DEF Claim
    <3>2. real_parent[t] \in Pid \cup {Outside}
      BY DEF TaskTypeOK
    <3> QED
      BY <3>1, <3>2 DEF Locals
  <2>5. Cursor'
    BY <1>3, <2>1, <2>3, <2>4 DEF Claim, PC, HandlerPC, DonePC, BuildPC, Step, Goto, At, Locals, Pid, Outside, TaskTypeOK, Cursor, GroupsKept, temp, child
  <2> QED
    BY <2>1, <2>2, <2>3, <2>4, <2>5
<1>4. CASE EndLoop(t)
  <2>1. TaskTypeOK' /\ Grouped' /\ GroupsKept
    BY <1>4, KeepKernel DEF EndLoop
  <2>2. ff' \in Globals /\ calls' \in 0 .. MaxCalls
    BY <1>4 DEF EndLoop
  <2>3. pc' \in [Pid -> PC] /\ loc' \in [Pid -> Locals] /\ Cursor'
    BY <1>4, <2>1, KeepLocals, PCNames DEF EndLoop, Step, At, HandlerPC, DonePC, BuildPC
  <2> QED
    BY <2>1, <2>2, <2>3
<1>5. CASE SkipExiting(t)
  <2>1. TaskTypeOK' /\ Grouped' /\ GroupsKept
    BY <1>5, KeepKernel DEF SkipExiting
  <2>2. ff' \in Globals /\ calls' \in 0 .. MaxCalls
    BY <1>5 DEF SkipExiting
  <2>3. pc' \in [Pid -> PC]
    BY <1>5 DEF SkipExiting, At, Advance
  <2>4. loc' \in [Pid -> Locals]
    BY <1>5 DEF SkipExiting, Locals, Pid, Outside, Advance
  <2>5. Cursor'
    BY <1>5, <2>1, <2>3, <2>4 DEF SkipExiting, At, Advance, Locals, Pid, Outside, Advance, Cursor, GroupsKept, temp, child
  <2> QED
    BY <2>1, <2>2, <2>3, <2>4, <2>5
<1>6. CASE CloneThread(t)
  <2>1. TaskTypeOK' /\ Grouped' /\ GroupsKept
    <3>1. CASE UNCHANGED taskVars
      BY <1>6, <3>1, KeepKernel DEF CloneThread, kernel
    <3>2. ASSUME NEW n \in Pid,
                 CopyProcess(n, t, tgid[t], real_parent[t], "new")
          PROVE  TaskTypeOK' /\ Grouped' /\ GroupsKept
      <4>1. tgid[t] \in Pid /\ real_parent[t] \in Pid \cup {Outside}
        BY <1>6 DEF CloneThread, At, Grouped, TaskTypeOK
      <4> QED
        BY <1>6, <3>2, <4>1, CopyProcessType DEF CloneThread
    <3> QED
      BY <1>6, <3>1, <3>2 DEF CloneThread
  <2>2. ff' \in Globals /\ calls' \in 0 .. MaxCalls
    BY <1>6 DEF CloneThread, Globals
  <2>3. pc' \in [Pid -> PC]
    BY <1>6 DEF CloneThread, PC, HandlerPC, DonePC, BuildPC, Step, Goto, At
  <2>4. loc' \in [Pid -> Locals]
    BY <1>6 DEF CloneThread, Locals, Pid, Outside
  <2>5. Cursor'
    <3>1. CASE Step(t, "loop", "done_pid") /\ UNCHANGED <<taskVars, loc>>
      BY <3>1, <2>1, <2>3 DEF Step, Goto, Cursor, GroupsKept, temp, child
    <3>2. ASSUME NEW n \in Pid, FreshPid(n), At(t, "loop"),
                 CopyProcess(n, t, tgid[t], real_parent[t], "new"),
                 loc' = [loc EXCEPT ![t].child = n],
                 pc' = [pc EXCEPT ![t] = "start", ![n] = "tail"]
          PROVE  Cursor'
      <4>1. n # t /\ tgid'[n] \in Pid /\ temp(t) \in Pid
        BY <3>2 DEF FreshPid, At, CopyProcess, Grouped, TaskTypeOK, Cursor
      <4>2. ASSUME NEW u \in Pid
            PROVE  /\ temp(u)' = temp(u)
                   /\ child(u)' = IF u = t THEN n ELSE child(u)
                   /\ pc'[u] = IF u = n THEN "tail"
                               ELSE IF u = t THEN "start" ELSE pc[u]
        BY <3>2, <4>1 DEF temp, child, Locals
      <4> QED
        BY <2>1, <4>1, <4>2 DEF Cursor, GroupsKept
    <3> QED
      BY <1>6, <3>1, <3>2 DEF CloneThread
  <2> QED
    BY <2>1, <2>2, <2>3, <2>4, <2>5
<1>7. CASE StartThread(t)
  <2>1. TaskTypeOK' /\ Grouped' /\ GroupsKept
    <3>1. temp(t) \in Pid /\ child(t) \in Pid /\ tgid[child(t)] \in Pid
      BY <1>7 DEF StartThread, Step, At, Cursor
    <3> QED
      BY <1>7, <3>1, WakeWithRegsType DEF StartThread
  <2>2. ff' \in Globals /\ calls' \in 0 .. MaxCalls
    BY <1>7 DEF StartThread
  <2>3. pc' \in [Pid -> PC]
    BY <1>7 DEF StartThread, PC, HandlerPC, DonePC, BuildPC, Step, Goto, At
  <2>4. loc' \in [Pid -> Locals]
    BY <1>7 DEF StartThread, Locals, Pid, Outside, Advance
  <2>5. Cursor'
    BY <1>7, <2>1, <2>3, <2>4 DEF StartThread, PC, HandlerPC, DonePC, BuildPC, Step, Goto, At, Locals, Pid, Outside, Advance, Cursor, GroupsKept, temp, child
  <2> QED
    BY <2>1, <2>2, <2>3, <2>4, <2>5
<1>8. CASE DonePid(t)
  <2>1. TaskTypeOK' /\ Grouped' /\ GroupsKept
    BY <1>8, KeepKernel DEF DonePid
  <2>2. ff' \in Globals /\ calls' \in 0 .. MaxCalls
    BY <1>8 DEF DonePid, Globals
  <2>3. pc' \in [Pid -> PC] /\ loc' \in [Pid -> Locals] /\ Cursor'
    BY <1>8, <2>1, KeepLocals, PCNames DEF DonePid, Step, At, HandlerPC, DonePC, BuildPC
  <2> QED
    BY <2>1, <2>2, <2>3
<1>9. CASE DoneTgid(t)
  <2>1. TaskTypeOK' /\ Grouped' /\ GroupsKept
    BY <1>9, KeepKernel DEF DoneTgid
  <2>2. ff' \in Globals /\ calls' \in 0 .. MaxCalls
    BY <1>9 DEF DoneTgid, Globals
  <2>3. pc' \in [Pid -> PC] /\ loc' \in [Pid -> Locals] /\ Cursor'
    BY <1>9, <2>1, KeepLocals, PCNames DEF DoneTgid, Step, At, HandlerPC, DonePC, BuildPC
  <2> QED
    BY <2>1, <2>2, <2>3
<1>10. CASE WakeCaller(t)
  <2>1. TaskTypeOK' /\ Grouped' /\ GroupsKept
    BY <1>10, KeepKernel DEF WakeCaller
  <2>2. ff' \in Globals /\ calls' \in 0 .. MaxCalls
    BY <1>10 DEF WakeCaller, Globals
  <2>3. pc' \in [Pid -> PC]
    BY <1>10 DEF WakeCaller, PC, HandlerPC, DonePC, BuildPC, Step, Goto, At
  <2>4. loc' \in [Pid -> Locals]
    BY <1>10 DEF WakeCaller, Locals, Pid, Outside
  <2>5. Cursor'
    BY <1>10, <2>1, <2>3, <2>4 DEF WakeCaller, PC, HandlerPC, DonePC, BuildPC, Step, Goto, At, Locals, Pid, Outside, Cursor, GroupsKept, temp, child
  <2> QED
    BY <2>1, <2>2, <2>3, <2>4, <2>5
<1>11. CASE Unclaim(t)
  <2>1. TaskTypeOK' /\ Grouped' /\ GroupsKept
    BY <1>11, KeepKernel DEF Unclaim
  <2>2. ff' \in Globals /\ calls' \in 0 .. MaxCalls
    BY <1>11 DEF Unclaim, Globals
  <2>3. pc' \in [Pid -> PC] /\ loc' \in [Pid -> Locals] /\ Cursor'
    BY <1>11, <2>1, KeepLocals, PCNames DEF Unclaim, Step, At, HandlerPC, DonePC, BuildPC
  <2> QED
    BY <2>1, <2>2, <2>3
<1> QED
  BY <1>1, <1>2, <1>3, <1>4, <1>5, <1>6, <1>7, <1>8, <1>9, <1>10, <1>11 DEF PullBack

LEMMA KernelTypeInv ==
  ASSUME TypeInv, NEW t \in Pid, Kernel(t)
  PROVE  TypeInv'
<1> USE DEF TypeInv, TypeOK
<1>1. CASE DequeueStop(t)
  <2>1. TaskTypeOK' /\ Grouped' /\ GroupsKept
    BY <1>1 DEF DequeueStop, DoSignalStop, TaskTypeOK, Grouped, GroupsKept, kernel, taskVars, stopVars, At, Step, Goto, UserMode, Pid, Outside
  <2>2. ff' \in Globals /\ calls' \in 0 .. MaxCalls
    BY <1>1 DEF DequeueStop
  <2>3. pc' \in [Pid -> PC]
    BY <1>1 DEF DequeueStop, NotifyStop, PC, HandlerPC, DonePC, BuildPC, Step, Goto, At
  <2>4. loc' \in [Pid -> Locals]
    BY <1>1 DEF DequeueStop, Locals, Pid, Outside
  <2>5. Cursor'
    BY <1>1, <2>1, <2>3, <2>4 DEF DequeueStop, NotifyStop, PC, HandlerPC, DonePC, BuildPC, Step, Goto, At, Locals, Pid, Outside, Cursor, GroupsKept, temp, child
  <2> QED
    BY <2>1, <2>2, <2>3, <2>4, <2>5
<1>2. CASE GroupStop(t)
  <2>1. TaskTypeOK' /\ Grouped' /\ GroupsKept
    BY <1>2 DEF GroupStop, StopHere, TaskTypeOK, Grouped, GroupsKept, kernel, taskVars, stopVars, At, Step, Goto, UserMode, Pid, Outside
  <2>2. ff' \in Globals /\ calls' \in 0 .. MaxCalls
    BY <1>2 DEF GroupStop
  <2>3. pc' \in [Pid -> PC]
    BY <1>2 DEF GroupStop, NotifyStop, PC, HandlerPC, DonePC, BuildPC, Step, Goto, At
  <2>4. loc' \in [Pid -> Locals]
    BY <1>2 DEF GroupStop, Locals, Pid, Outside
  <2>5. Cursor'
    BY <1>2, <2>1, <2>3, <2>4 DEF GroupStop, NotifyStop, PC, HandlerPC, DonePC, BuildPC, Step, Goto, At, Locals, Pid, Outside, Cursor, GroupsKept, temp, child
  <2> QED
    BY <2>1, <2>2, <2>3, <2>4, <2>5
<1>3. CASE Release(t)
  <2>1. TaskTypeOK' /\ Grouped' /\ GroupsKept
    BY <1>3 DEF Release, ReleaseTask, Siblings, Group, TaskTypeOK, Grouped, GroupsKept, kernel, taskVars, stopVars, At, Step, Goto, UserMode, Pid, Outside
  <2>2. ff' \in Globals /\ calls' \in 0 .. MaxCalls
    BY <1>3 DEF Release
  <2>3. pc' \in [Pid -> PC]
    BY <1>3 DEF Release, PC
  <2>4. loc' \in [Pid -> Locals]
    BY <1>3 DEF Release, Locals, Pid, Outside
  <2>5. Cursor'
    BY <1>3, <2>1, <2>3, <2>4 DEF Release, PC, Locals, Pid, Outside, Cursor, GroupsKept, temp, child
  <2> QED
    BY <2>1, <2>2, <2>3, <2>4, <2>5
<1> QED
  BY <1>1, <1>2, <1>3 DEF Kernel

LEMMA ProgramTypeInv ==
  ASSUME TypeInv, NEW t \in Pid, Program(t)
  PROVE  TypeInv'
<1> USE DEF TypeInv, TypeOK
<1>1. CASE Call(t)
  <2>1. TaskTypeOK' /\ Grouped' /\ GroupsKept
    BY <1>1, KeepKernel DEF Call
  <2>2. ff' \in Globals /\ calls' \in 0 .. MaxCalls
    <3>1. calls' \in 0 .. MaxCalls
      BY <1>1, WorkloadAssumption DEF Call
    <3>2. ff' \in Globals
      BY <1>1 DEF Call, Globals
    <3> QED
      BY <3>1, <3>2
  <2>3. pc' \in [Pid -> PC]
    BY <1>1 DEF Call, PC, HandlerPC, DonePC, BuildPC, Step, Goto, At
  <2>4. loc' \in [Pid -> Locals]
    BY <1>1 DEF Call, Locals, Pid, Outside
  <2>5. Cursor'
    BY <1>1, <2>1, <2>3, <2>4 DEF Call, PC, HandlerPC, DonePC, BuildPC, Step, Goto, At, Locals, Pid, Outside, Cursor, GroupsKept, temp, child
  <2> QED
    BY <2>1, <2>2, <2>3, <2>4, <2>5
<1>2. CASE Exit(t)
  <2>1. TaskTypeOK' /\ Grouped' /\ GroupsKept
    BY <1>2 DEF Exit, TaskExit, TaskTypeOK, Grouped, GroupsKept, kernel, taskVars, stopVars, At, Step, Goto, UserMode, Pid, Outside
  <2>2. ff' \in Globals /\ calls' \in 0 .. MaxCalls
    BY <1>2 DEF Exit
  <2>3. pc' \in [Pid -> PC]
    BY <1>2 DEF Exit, NotifyStop, PC, HandlerPC, DonePC, BuildPC, Step, Goto, At
  <2>4. loc' \in [Pid -> Locals]
    BY <1>2 DEF Exit, Locals, Pid, Outside
  <2>5. Cursor'
    BY <1>2, <2>1, <2>3, <2>4 DEF Exit, NotifyStop, PC, HandlerPC, DonePC, BuildPC, Step, Goto, At, Locals, Pid, Outside, Cursor, GroupsKept, temp, child
  <2> QED
    BY <2>1, <2>2, <2>3, <2>4, <2>5
<1>3. CASE Fork(t)
  <2>1. TaskTypeOK' /\ Grouped' /\ GroupsKept
    BY <1>3, KeepKernel, CopyProcessType DEF Fork, Step, At, taskVars, stopVars, Pid, Outside, Grouped, TaskTypeOK
  <2>2. ff' \in Globals /\ calls' \in 0 .. MaxCalls
    BY <1>3 DEF Fork
  <2>3. pc' \in [Pid -> PC] /\ loc' \in [Pid -> Locals] /\ Cursor'
    BY <1>3, <2>1, KeepLocals, PCNames DEF Fork, Step, At, HandlerPC, DonePC, BuildPC
  <2> QED
    BY <2>1, <2>2, <2>3
<1>4. CASE Spawn(t)
  <2>1. TaskTypeOK' /\ Grouped' /\ GroupsKept
    BY <1>4 DEF Spawn, NewThread, FreshPid, TaskTypeOK, Grouped, GroupsKept, kernel, taskVars, stopVars, At, Step, Goto, UserMode, Pid, Outside
  <2>2. ff' \in Globals /\ calls' \in 0 .. MaxCalls
    BY <1>4 DEF Spawn
  <2>3. pc' \in [Pid -> PC] /\ loc' \in [Pid -> Locals] /\ Cursor'
    BY <1>4, <2>1, KeepLocals, PCNames DEF Spawn, Step, At, HandlerPC, DonePC, BuildPC
  <2> QED
    BY <2>1, <2>2, <2>3
<1> QED
  BY <1>1, <1>2, <1>3, <1>4 DEF Program

LEMMA NextTypeInv == TypeInv /\ [Next]_vars => TypeInv'
<1> SUFFICES ASSUME TypeInv, [Next]_vars PROVE TypeInv'
  OBVIOUS
<1> USE DEF TypeInv, TypeOK
<1>0. ASSUME UNCHANGED <<kernel, pc, loc>>
      PROVE  TaskTypeOK' /\ Grouped' /\ Cursor'
  BY <1>0, KeepKernel DEF Cursor, GroupsKept, temp, child
<1>1. CASE InitModule
  BY <1>0, <1>1 DEF InitModule, FreshModule, Globals
<1>2. CASE CleanupModule
  BY <1>0, <1>2 DEF CleanupModule, Globals
<1>3. CASE UNCHANGED vars
  BY <1>0, <1>3 DEF vars
<1>4. CASE \E t \in Pid : Handler(t) \/ PullBack(t) \/ Kernel(t) \/ Program(t)
  BY <1>4, HandlerTypeInv, PullBackTypeInv, KernelTypeInv, ProgramTypeInv
<1> QED
  BY <1>1, <1>2, <1>3, <1>4 DEF Next, Rest

(* Every variable keeps its type, however the calls interleave.            *)
THEOREM TypeCorrect == Spec => []TypeOK
<1>1. TypeInv => TypeOK
  BY DEF TypeInv
<1> QED
  BY <1>1, InitTypeInv, NextTypeInv, PTL DEF Spec

-----------------------------------------------------------------------------
(* What the step of a task t leaves alone: the group of every task that    *)
(* exists, the life, locals and label of the other tasks that run, except  *)
(* that sleepers may be woken.                                             *)

Woken(u) == \/ pc[u] = "wait_sleep" /\ pc'[u] = "wait"
            \/ pc[u] = "asleep" /\ pc'[u] = "await"

Frame(t) ==
  \A u \in Pid :
    /\ life[u] # "free" => life'[u] # "free" /\ tgid'[u] = tgid[u]
    /\ life[u] = "alive" /\ u # t =>
         life'[u] = "alive" /\ loc'[u] = loc[u] /\ (pc'[u] = pc[u] \/ Woken(u))

(* Besides, t neither makes a task that must be woken nor wakes one.       *)
Plain(t) ==
  /\ Frame(t) /\ ~At(t, "start")
  /\ \A n \in Pid : life'[n] = "new" => life[n] = "new"

(* If t is going to lift a stop, it still is.                              *)
StopperKept(t) == Stopper(t) => Stopper(t)'

LEMMA PlainStep ==
  ASSUME TypeInv, NEW t \in Pid, NEW l, NEW m, Step(t, l, m), l # "start",
         UNCHANGED taskVars, \A u \in Pid \ {t} : loc'[u] = loc[u]
  PROVE  /\ Plain(t)
         /\ (l \in StopperPC => m \in StopperPC) => StopperKept(t)
<1>1. \A u \in Pid : pc'[u] = IF u = t THEN m ELSE pc[u]
  BY DEF Step, Goto, TypeInv, TypeOK
<1> QED
  BY <1>1 DEF Step, At, taskVars, Plain, Frame, StopperKept, Stopper

LEMMA HandlerFrame ==
  ASSUME TypeInv, NEW t \in Pid, Handler(t)
  PROVE  /\ Plain(t)
         /\ \/ WaitFailed(t) \/ Continue(t)
            \/ StopperKept(t) /\ (KillStop(t) \/ Unhook(t) \/ UNCHANGED stopVars)
<1> USE DEF kernel, taskVars, stopVars, StopperPC
<1>1. CASE TrackTgid(t)
  BY <1>1, PlainStep DEF TrackTgid
<1>2. CASE ScanThreads(t)
  <2>1. \A u \in Pid \ {t} : loc'[u] = loc[u]
    <3>1. loc' = loc \/ \E w \in Pid : loc' = [loc EXCEPT ![t].temp = w]
      BY <1>2 DEF ScanThreads
    <3> QED
      BY <3>1 DEF TypeInv, TypeOK
  <2> QED
    BY <1>2, <2>1, PlainStep DEF ScanThreads
<1>3. CASE KillStop(t)
  BY <1>3, PlainStep DEF KillStop, SendStop, ClearStopPending, Step
<1>4. CASE FullforkWait(t)
  BY <1>4, PlainStep DEF FullforkWait, Goto, Step, At
<1>5. CASE WaitInterrupted(t)
  BY <1>5, PlainStep DEF WaitInterrupted
<1>6. CASE WaitFailed(t)
  BY <1>6, PlainStep DEF WaitFailed
<1>7. CASE Unhook(t)
  BY <1>7, PlainStep DEF Unhook
<1>8. CASE InitWaitQueue(t)
  BY <1>8, PlainStep DEF InitWaitQueue
<1>9. CASE LeaderClone(t)
  <2>1. CASE /\ Step(t, "fork", "cont") /\ UNCHANGED taskVars
             /\ loc' = [loc EXCEPT ![t].err = -1]
    <3>1. \A u \in Pid \ {t} : loc'[u] = loc[u]
      BY <2>1 DEF TypeInv, TypeOK
    <3> QED
      BY <1>9, <2>1, <3>1, PlainStep DEF LeaderClone
  <2>2. ASSUME NEW c \in Pid, At(t, "fork"), FreshPid(c),
               CopyProcess(c, t, c, t, "alive"),
               loc' = [loc EXCEPT ![t].child = c],
               pc' = [pc EXCEPT ![t] = "await", ![c] = "tail"]
        PROVE  Plain(t) /\ StopperKept(t)
    <3>1. c # t
      BY <2>2 DEF At, FreshPid
    <3>2. \A u \in Pid : pc'[u] = IF u = c THEN "tail"
                                  ELSE IF u = t THEN "await" ELSE pc[u]
      BY <2>2, <3>1 DEF TypeInv, TypeOK
    <3> QED
      BY <2>2, <3>1, <3>2 DEF At, FreshPid, CopyProcess, Plain, Frame,
         StopperKept, Stopper, TypeInv, TypeOK, TaskTypeOK
  <2> QED
    BY <1>9, <2>1, <2>2 DEF LeaderClone
<1>10. CASE WaitForClone(t)
  <2>1. \A u \in Pid \ {t} : loc'[u] = loc[u]
    BY <1>10 DEF WaitForClone, TypeInv, TypeOK
  <2> QED
    BY <1>10, <2>1, PlainStep DEF WaitForClone
<1>11. CASE Continue(t)
  BY <1>11, PlainStep DEF Continue
<1>12. CASE UntrackPid(t)
  BY <1>12, PlainStep DEF UntrackPid
<1>13. CASE UntrackTgid(t)
  BY <1>13, PlainStep DEF UntrackTgid
<1> QED
  BY <1>1, <1>2, <1>3, <1>4, <1>5, <1>6, <1>7, <1>8, <1>9, <1>10, <1>11, <1>12, <1>13 DEF Handler

LEMMA PullBackFrame ==
  ASSUME TypeInv, NEW t \in Pid, PullBack(t)
  PROVE  /\ Frame(t) /\ StopperKept(t) /\ UNCHANGED stopVars
         /\ Plain(t) \/ StartThread(t) \/ CloneThread(t)
<1> USE DEF kernel, taskVars, stopVars
<1>1. CASE EnterPullBack(t)
  BY <1>1, PlainStep DEF EnterPullBack, Plain, StopperPC
<1>2. CASE TestClone(t)
  BY <1>2, PlainStep DEF TestClone, Plain, StopperPC
<1>3. CASE Claim(t)
  <2>1. \A u \in Pid \ {t} : loc'[u] = loc[u]
    <3>1. PICK w : loc' = [loc EXCEPT ![t].temp = w,
                                     ![t].parent_task = real_parent[t]]
      BY <1>3 DEF Claim
    <3> QED
      BY <3>1 DEF TypeInv, TypeOK
  <2>2. Step(t, "claim", "loop") /\ UNCHANGED kernel
    BY <1>3 DEF Claim
  <2> QED
    BY <2>1, <2>2, PlainStep DEF Plain, StopperPC
<1>4. CASE EndLoop(t)
  BY <1>4, PlainStep DEF EndLoop, Plain, StopperPC
<1>5. CASE SkipExiting(t)
  <2>1. \A u \in Pid \ {t} : loc'[u] = loc[u]
    BY <1>5 DEF SkipExiting, Advance
  <2> QED
    BY <1>5, <2>1 DEF SkipExiting, At, Plain, Frame, StopperKept, Stopper, StopperPC
<1>6. CASE CloneThread(t)
  <2>1. CASE Step(t, "loop", "done_pid") /\ UNCHANGED <<taskVars, loc>>
    BY <1>6, <2>1, PlainStep DEF CloneThread, Plain, StopperPC
  <2>2. ASSUME NEW n \in Pid, At(t, "loop"), FreshPid(n),
               CopyProcess(n, t, tgid[t], real_parent[t], "new"),
               loc' = [loc EXCEPT ![t].child = n],
               pc' = [pc EXCEPT ![t] = "start", ![n] = "tail"]
        PROVE  Frame(t) /\ StopperKept(t)
    <3>1. n # t
      BY <2>2 DEF At, FreshPid
    <3>2. \A u \in Pid : pc'[u] = IF u = n THEN "tail"
                                  ELSE IF u = t THEN "start" ELSE pc[u]
      BY <2>2, <3>1 DEF TypeInv, TypeOK
    <3> QED
      BY <2>2, <3>1, <3>2 DEF At, FreshPid, CopyProcess, Frame,
         StopperKept, Stopper, StopperPC, TypeInv, TypeOK, TaskTypeOK
  <2> QED
    BY <1>6, <2>1, <2>2 DEF CloneThread
<1>7. CASE StartThread(t)
  <2>1. \A u \in Pid \ {t} : loc'[u] = loc[u]
    BY <1>7 DEF StartThread, Advance
  <2>2. \A u \in Pid : pc'[u] = IF u = t THEN "loop" ELSE pc[u]
    BY <1>7 DEF StartThread, Step, Goto, TypeInv, TypeOK
  <2>3. \A u \in Pid : /\ life[u] # "free" => life'[u] # "free"
                       /\ life[u] = "alive" => life'[u] = "alive"
                       /\ tgid'[u] = tgid[u]
    BY <1>7 DEF StartThread, WakeWithRegs, TypeInv, TypeOK, TaskTypeOK
  <2> QED
    BY <1>7, <2>1, <2>2, <2>3 DEF StartThread, Step, At, Frame, StopperKept,
       Stopper, StopperPC
<1>8. CASE DonePid(t)
  BY <1>8, PlainStep DEF DonePid, Plain, StopperPC
<1>9. CASE DoneTgid(t)
  BY <1>9, PlainStep DEF DoneTgid, Plain, StopperPC
<1>10. CASE WakeCaller(t)
  <2>1. \A u \in Pid : pc'[u] = IF u = t THEN "unclaim"
                                ELSE IF u \in ff.wq1 /\ pc[u] = "asleep" THEN "await"
                                ELSE pc[u]
    BY <1>10 DEF WakeCaller
  <2> QED
    BY <1>10, <2>1 DEF WakeCaller, At, Plain, Frame, Woken, StopperKept, Stopper,
       StopperPC
<1>11. CASE Unclaim(t)
  BY <1>11, PlainStep DEF Unclaim, Plain, StopperPC
<1> QED
  BY <1>1, <1>2, <1>3, <1>4, <1>5, <1>6, <1>7, <1>8, <1>9, <1>10, <1>11 DEF PullBack

LEMMA NotifyWakes ==
  ASSUME NEW t \in Pid, NotifyStop(t)
  PROVE  \A u \in Pid : pc'[u] = pc[u] \/ Woken(u)
BY DEF NotifyStop, Woken

LEMMA KernelFrame ==
  ASSUME TypeInv, NEW t \in Pid, Kernel(t)
  PROVE  /\ Plain(t) /\ StopperKept(t)
         /\ DequeueStop(t) \/ GroupStop(t) \/ UNCHANGED stopVars
<1> USE DEF taskVars, stopVars, Plain, Frame, StopperKept, Stopper, StopperPC, At
<1>1. CASE DequeueStop(t)
  BY <1>1, NotifyWakes DEF DequeueStop, UserMode, Woken
<1>2. CASE GroupStop(t)
  BY <1>2, NotifyWakes DEF GroupStop, Woken
<1>3. CASE Release(t)
  BY <1>3 DEF Release, ReleaseTask, TypeInv, TypeOK, TaskTypeOK
<1> QED
  BY <1>1, <1>2, <1>3 DEF Kernel

LEMMA ProgramFrame ==
  ASSUME TypeInv, NEW t \in Pid, Program(t)
  PROVE  /\ Plain(t) /\ StopperKept(t)
         /\ Exit(t) \/ UNCHANGED stopVars
<1> USE DEF kernel, taskVars, stopVars, Plain, Frame, StopperKept, Stopper,
            StopperPC, At, UserMode, TypeInv, TypeOK, TaskTypeOK
<1>1. CASE Call(t)
  BY <1>1 DEF Call, Goto
<1>2. CASE Exit(t)
  BY <1>2, NotifyWakes DEF Exit, TaskExit, Woken
<1>3. CASE Fork(t)
  BY <1>3 DEF Fork, CopyProcess, FreshPid, Goto
<1>4. CASE Spawn(t)
  BY <1>4 DEF Spawn, NewThread, FreshPid, Goto
<1> QED
  BY <1>1, <1>2, <1>3, <1>4 DEF Program

-----------------------------------------------------------------------------
(* The threads that are not woken yet.                                     *)

LEMMA PlainNoOrphan ==
  ASSUME TypeInv, NoOrphanThread, NEW t \in Pid, Plain(t)
  PROVE  NoOrphanThread'
<1> SUFFICES ASSUME NEW n \in Pid, life'[n] = "new"
             PROVE  \E c \in Pid : At(c, "start")' /\ child(c)' = n
  BY DEF NoOrphanThread
<1>1. PICK c \in Pid : At(c, "start") /\ child(c) = n
  BY DEF Plain, NoOrphanThread
<1>2. c # t
  BY <1>1 DEF Plain
<1> QED
  BY <1>1, <1>2 DEF Plain, Frame, Woken, At, child

LEMMA CloneNoOrphan ==
  ASSUME TypeInv, NoOrphanThread, NEW t \in Pid, CloneThread(t), Frame(t)
  PROVE  NoOrphanThread'
<1>1. CASE Step(t, "loop", "done_pid") /\ UNCHANGED <<taskVars, loc>>
  BY <1>1, PlainStep, PlainNoOrphan
<1>2. ASSUME NEW n \in Pid, At(t, "loop"), FreshPid(n),
             CopyProcess(n, t, tgid[t], real_parent[t], "new"),
             loc' = [loc EXCEPT ![t].child = n],
             pc' = [pc EXCEPT ![t] = "start", ![n] = "tail"]
      PROVE  NoOrphanThread'
  <2>1. At(t, "start")' /\ child(t)' = n
    BY <1>2 DEF At, FreshPid, CopyProcess, child, TypeInv, TypeOK, TaskTypeOK, Locals
  <2>2. ASSUME NEW m \in Pid, m # n, life'[m] = "new"
        PROVE  \E c \in Pid : At(c, "start")' /\ child(c)' = m
    <3>1. life[m] = "new"
      BY <1>2, <2>2 DEF CopyProcess, TypeInv, TypeOK, TaskTypeOK
    <3>2. PICK c \in Pid : At(c, "start") /\ child(c) = m
      BY <3>1 DEF NoOrphanThread
    <3>3. c # t
      BY <1>2, <3>2 DEF At
    <3> QED
      BY <3>2, <3>3 DEF Frame, Woken, At, child
  <2> QED
    BY <2>1, <2>2 DEF NoOrphanThread
<1> QED
  BY <1>1, <1>2 DEF CloneThread

LEMMA StartNoOrphan ==
  ASSUME TypeInv, NoOrphanThread, NEW t \in Pid, StartThread(t), Frame(t)
  PROVE  NoOrphanThread'
<1> SUFFICES ASSUME NEW n \in Pid, life'[n] = "new"
             PROVE  \E c \in Pid : At(c, "start")' /\ child(c)' = n
  BY DEF NoOrphanThread
<1>1. life[n] = "new" /\ n # child(t)
  BY DEF StartThread, WakeWithRegs, TypeInv, TypeOK, TaskTypeOK
<1>2. PICK c \in Pid : At(c, "start") /\ child(c) = n
  BY <1>1 DEF NoOrphanThread
<1> QED
  BY <1>1, <1>2 DEF Frame, Woken, At, child

LEMMA NextNoOrphan == TypeInv /\ NoOrphanThread /\ [Next]_vars => NoOrphanThread'
<1> SUFFICES ASSUME TypeInv, NoOrphanThread, [Next]_vars PROVE NoOrphanThread'
  OBVIOUS
<1>1. CASE InitModule \/ CleanupModule \/ UNCHANGED vars
  BY <1>1 DEF InitModule, CleanupModule, vars, kernel, taskVars, NoOrphanThread,
     At, child
<1>2. CASE \E t \in Pid : Handler(t) \/ PullBack(t) \/ Kernel(t) \/ Program(t)
  BY <1>2, HandlerFrame, PullBackFrame, KernelFrame, ProgramFrame, PlainNoOrphan,
     CloneNoOrphan, StartNoOrphan
<1> QED
  BY <1>1, <1>2 DEF Next, Rest

(* Every thread that my_kernel_clone has made is woken by the clone that   *)
(* made it, whatever fails and however calls, forks and exits interleave.  *)
THEOREM NoThreadIsOrphaned == Spec => []NoOrphanThread
<1>1. Init => NoOrphanThread
  BY BootAssumption DEF Init, TaskInit, NoOrphanThread
<1> QED
  BY <1>1, InitTypeInv, NextTypeInv, NextNoOrphan, PTL DEF Spec

-----------------------------------------------------------------------------
(* The group stops.  What must be known of the sets of signals and stops   *)
(* besides: each belongs to a group with a caller that will lift it.       *)

Owner(p) == \E t \in Pid : Stopper(t) /\ tgid[t] = p

StopInv ==
  /\ \A u \in Pid : jobctl[u] # "none" => life[u] # "free" /\ Owner(tgid[u])
  /\ \A p \in sigstop \cup stopped : Owner(p)

(* The step of t asks a thread to stop, or a group, only where a caller    *)
(* will lift it.                                                           *)
Liftable(t) == Owner(tgid[t]) \/ Stopper(t)'

AsksOnlyLiftable(t) ==
  \A u \in Pid : jobctl'[u] # "none" =>
    \/ jobctl[u] # "none"
    \/ life[u] # "free" /\ tgid[u] = tgid[t] /\ Liftable(t)

StopsOnlyLiftable(t) ==
  \A p \in sigstop' \cup stopped' :
    p \in sigstop \cup stopped \/ (p = tgid[t] /\ Liftable(t))

LEMMA KeepStopInv ==
  ASSUME TypeInv, StopInv, NEW t \in Pid, life[t] = "alive", Frame(t),
         StopperKept(t), AsksOnlyLiftable(t), StopsOnlyLiftable(t)
  PROVE  StopInv'
<1>1. ASSUME NEW p, Owner(p) PROVE Owner(p)'
  BY <1>1 DEF Owner, Frame, StopperKept, Stopper, Woken, StopperPC
<1>2. Liftable(t) => \A p : p = tgid[t] => Owner(p)'
  BY <1>1 DEF Liftable, Owner, Frame
<1>3. ASSUME NEW u \in Pid, jobctl'[u] # "none"
      PROVE  life'[u] # "free" /\ Owner(tgid[u])'
  <2>1. life[u] # "free" /\ life'[u] # "free" /\ tgid'[u] = tgid[u]
    BY <1>3 DEF StopInv, Frame, AsksOnlyLiftable
  <2>2. Owner(tgid[u]) \/ (tgid[u] = tgid[t] /\ Liftable(t))
    BY <1>3 DEF StopInv, AsksOnlyLiftable
  <2> QED
    BY <1>1, <1>2, <2>1, <2>2
<1>4. ASSUME NEW p \in sigstop' \cup stopped' PROVE Owner(p)'
  BY <1>1, <1>2, <1>4 DEF StopInv, StopsOnlyLiftable
<1> QED
  BY <1>3, <1>4 DEF StopInv

(* The caller t lifts the stop of its group and leaves.                    *)
LEMMA LiftStopInv ==
  ASSUME TypeInv, StopInv, NEW t \in Pid, Plain(t), life[t] = "alive",
         SendCont(tgid[t]), UNCHANGED taskVars
  PROVE  StopInv'
<1>1. ASSUME NEW p, Owner(p), p # tgid[t] PROVE Owner(p)'
  <2>1. PICK u \in Pid : Stopper(u) /\ tgid[u] = p
    BY <1>1 DEF Owner
  <2>2. u # t
    BY <1>1, <2>1
  <2> QED
    BY <2>1, <2>2 DEF Owner, Plain, Frame, Stopper, Woken, StopperPC
<1>2. ASSUME NEW u \in Pid, jobctl'[u] # "none"
      PROVE  life'[u] # "free" /\ Owner(tgid[u])'
  <2>1. jobctl[u] # "none" /\ tgid[u] # tgid[t] /\ tgid'[u] = tgid[u]
    BY <1>2 DEF SendCont, taskVars
  <2> QED
    BY <1>1, <2>1 DEF StopInv, taskVars
<1>3. ASSUME NEW p \in sigstop' \cup stopped' PROVE Owner(p)'
  BY <1>1, <1>3 DEF StopInv, SendCont
<1> QED
  BY <1>2, <1>3 DEF StopInv

LEMMA TaskStopInv ==
  ASSUME TypeInv, StopInv, NEW t \in Pid,
         Handler(t) \/ PullBack(t) \/ Kernel(t) \/ Program(t)
  PROVE  StopInv'
<1>0. CASE Frame(t) /\ StopperKept(t) /\ UNCHANGED stopVars
  <2>1. ASSUME NEW p, Owner(p) PROVE Owner(p)'
    BY <1>0, <2>1 DEF Owner, Frame, StopperKept, Stopper, Woken, StopperPC
  <2>2. \A u \in Pid : jobctl'[u] # "none" => life'[u] # "free" /\ Owner(tgid[u])'
    BY <1>0, <2>1 DEF StopInv, Frame, stopVars
  <2>3. \A p \in sigstop' \cup stopped' : Owner(p)'
    BY <1>0, <2>1 DEF StopInv, stopVars
  <2> QED
    BY <2>2, <2>3 DEF StopInv
<1>1. CASE WaitFailed(t) \/ Continue(t)
  <2>1. Plain(t)
    BY <1>1, HandlerFrame DEF Handler
  <2> QED
    BY <1>1, <2>1, LiftStopInv DEF WaitFailed, Continue, Step, At
<1>2. CASE Plain(t) /\ StopperKept(t) /\ KillStop(t)
  <2>1. CASE UNCHANGED stopVars
    BY <1>0, <1>2, <2>1 DEF Plain
  <2>2. CASE Step(t, "kill", "wait") /\ SendStop(tgid[t])
    <3>1. Stopper(t)' /\ life[t] = "alive"
      BY <1>2, <2>2 DEF KillStop, Step, At, Goto, Stopper, StopperPC, TypeInv,
         TypeOK, taskVars
    <3>2. AsksOnlyLiftable(t) /\ StopsOnlyLiftable(t)
      BY <2>2, <3>1 DEF SendStop, AsksOnlyLiftable, StopsOnlyLiftable, Liftable
    <3> QED
      BY <1>2, <3>1, <3>2, KeepStopInv DEF Plain
  <2> QED
    BY <1>2, <2>1, <2>2 DEF KillStop
<1>3. CASE Plain(t) /\ StopperKept(t) /\ Unhook(t)
  <2>1. life[t] = "alive"
    BY <1>3 DEF Unhook, Step, At
  <2>2. \A u \in Pid : jobctl'[u] # "none" => jobctl[u] # "none"
    BY <1>3 DEF Unhook, ClearStopPending, TypeInv, TypeOK, TaskTypeOK
  <2>3. AsksOnlyLiftable(t) /\ StopsOnlyLiftable(t)
    BY <1>3, <2>2 DEF Unhook, ClearStopPending, AsksOnlyLiftable, StopsOnlyLiftable
  <2> QED
    BY <1>3, <2>1, <2>3, KeepStopInv DEF Plain
<1>4. CASE Plain(t) /\ StopperKept(t) /\ DequeueStop(t)
  <2>1. life[t] = "alive" /\ Owner(tgid[t])
    BY <1>4 DEF DequeueStop, UserMode, At, StopInv
  <2>2. ASSUME NEW u \in Pid, jobctl'[u] # "none"
        PROVE  jobctl[u] # "none" \/ (life[u] # "free" /\ tgid[u] = tgid[t])
    <3>1. jobctl'[u] # jobctl[u] => u = t \/ u \in Siblings(t)
      BY <1>4 DEF DequeueStop, DoSignalStop
    <3> QED
      BY <2>1, <2>2, <3>1 DEF Siblings, Group
  <2>3. \A p \in sigstop' \cup stopped' : p \in sigstop \cup stopped \/ p = tgid[t]
    BY <1>4 DEF DequeueStop, DoSignalStop
  <2>4. AsksOnlyLiftable(t) /\ StopsOnlyLiftable(t)
    BY <2>1, <2>2, <2>3 DEF AsksOnlyLiftable, StopsOnlyLiftable, Liftable
  <2> QED
    BY <1>4, <2>1, <2>4, KeepStopInv DEF Plain
<1>5. CASE Plain(t) /\ StopperKept(t) /\ GroupStop(t)
  <2>1. life[t] = "alive" /\ jobctl[t] # "none" /\ Owner(tgid[t])
    BY <1>5 DEF GroupStop, At, StopInv
  <2>2. \A u \in Pid : jobctl'[u] # "none" => jobctl[u] # "none"
    BY <1>5, <2>1 DEF GroupStop, StopHere, TypeInv, TypeOK, TaskTypeOK
  <2>3. \A p \in sigstop' \cup stopped' : p \in sigstop \cup stopped \/ p = tgid[t]
    BY <1>5 DEF GroupStop, StopHere
  <2>4. AsksOnlyLiftable(t) /\ StopsOnlyLiftable(t)
    BY <2>1, <2>2, <2>3 DEF AsksOnlyLiftable, StopsOnlyLiftable, Liftable
  <2> QED
    BY <1>5, <2>1, <2>4, KeepStopInv DEF Plain
<1>6. CASE Plain(t) /\ StopperKept(t) /\ Exit(t)
  <2>1. life[t] = "alive" /\ (jobctl[t] # "none" => Owner(tgid[t]))
    BY <1>6 DEF Exit, At, StopInv
  <2>2. \A u \in Pid : jobctl'[u] # "none" => jobctl[u] # "none"
    BY <1>6 DEF Exit, TaskExit, TypeInv, TypeOK, TaskTypeOK
  <2>3. \A p \in sigstop' \cup stopped' :
          p \in sigstop \cup stopped \/ (p = tgid[t] /\ jobctl[t] # "none")
    <3>1. sigstop' = sigstop
      BY <1>6 DEF Exit, TaskExit
    <3>2. \/ stopped' = stopped
          \/ stopped' = stopped \cup {tgid[t]} /\ jobctl[t] = "pending"
      BY <1>6 DEF Exit, TaskExit
    <3> QED
      BY <3>1, <3>2
  <2>4. AsksOnlyLiftable(t) /\ StopsOnlyLiftable(t)
    BY <2>1, <2>2, <2>3 DEF AsksOnlyLiftable, StopsOnlyLiftable, Liftable
  <2> QED
    BY <1>6, <2>1, <2>4, KeepStopInv DEF Plain
<1> QED
  BY <1>0, <1>1, <1>2, <1>3, <1>4, <1>5, <1>6, HandlerFrame, PullBackFrame,
     KernelFrame, ProgramFrame DEF Plain

LEMMA NextStopInv == TypeInv /\ StopInv /\ [Next]_vars => StopInv'
<1> SUFFICES ASSUME TypeInv, StopInv, [Next]_vars PROVE StopInv'
  OBVIOUS
<1>1. CASE InitModule \/ CleanupModule \/ UNCHANGED vars
  BY <1>1 DEF InitModule, CleanupModule, vars, kernel, taskVars, stopVars, StopInv,
     Owner, Stopper
<1>2. CASE \E t \in Pid : Handler(t) \/ PullBack(t) \/ Kernel(t) \/ Program(t)
  BY <1>2, TaskStopInv
<1> QED
  BY <1>1, <1>2 DEF Next, Rest

(* Whenever a thread is stopped, asked to stop or about to be, a caller of *)
(* its process is at a point of the handler from which it sends SIGCONT:   *)
(* no error path and no interleaving forgets a stop.                       *)
THEOREM StopIsOwned == Spec => []StopOwned
<1>1. Init => StopInv
  BY BootAssumption DEF Init, TaskInit, StopInv
<1>2. StopInv => StopOwned
  BY DEF StopInv, StopOwned, Owner
<1> QED
  BY <1>1, <1>2, InitTypeInv, NextTypeInv, NextStopInv, PTL DEF Spec

-----------------------------------------------------------------------------
(***************************************************************************)
(* The stop of a calling process, where no two threads of a process are in *)
(* the system call at once: from the end of the wait to SIGCONT the        *)
(* siblings stand still.                                                   *)
(***************************************************************************)

(* What a step of t does to the life and the label of each task: it wakes  *)
(* sleepers, makes a task that has its tail to run, wakes a new thread, and*)
(* t itself goes on, ends or is released.                                  *)

Untouched(u) == life'[u] = life[u] /\ (pc'[u] = pc[u] \/ Woken(u))
Made(u)      == life[u] = "free" /\ life'[u] \in {"new", "alive"} /\ pc'[u] = "tail"
Started(t, u) == /\ At(t, "start") /\ child(t) = u /\ pc'[t] = "loop"
                 /\ life[u] = "new" /\ life'[u] = "alive" /\ pc'[u] = pc[u]
Moved(t)     == life'[t] = life[t] /\ life[t] = "alive"
Ended(t)     == /\ life[t] \in {"alive", "exiting"} /\ life'[t] \in {"exiting", "dead"}
                /\ pc[t] = "user" /\ pc'[t] = pc[t]

Footprint(t) ==
  /\ \A u \in Pid \ {t} : Untouched(u) \/ Made(u) \/ Started(t, u)
  /\ Moved(t) \/ Ended(t)
  /\ InHandler(t)' => InHandler(t) \/ Call(t)
  /\ pc'[t] = "start" => CloneThread(t)

(* A task that is not in user mode is there; the groups that exist have a  *)
(* leader's pid that is taken.                                             *)
Present ==
  /\ \A t \in Pid : pc[t] = "tail" => life[t] \in {"new", "alive"}
  /\ \A t \in Pid : pc[t] \notin {"user", "tail"} => life[t] = "alive"

LeadersTaken == \A t \in Pid : life[t] # "free" => life[tgid[t]] # "free"

(* The thread that a clone is about to wake is not awake, and its alone.   *)
Starting ==
  \A c \in Pid : pc[c] = "start" =>
    /\ life[child(c)] = "new"
    /\ \A d \in Pid : pc[d] = "start" /\ child(d) = child(c) => d = c

(* The tasks that exist at first keep their groups, and only callers call. *)
Settled     == \A t \in Pid : Boot[t] # Outside => life[t] # "free" /\ tgid[t] = Boot[t]
CallersOnly == \A t \in Pid : InHandler(t) => t \in Callers

(* No two threads of a process call at once.                               *)
Exclusive ==
  \A t, u \in Pid : InHandler(t) /\ InHandler(u) /\ tgid[t] = tgid[u] => t = u

(* Two ways to have that: calls are spaced, or each process that is there  *)
(* at first has at most one thread that calls, and nobody else calls.      *)
OneCallerEach ==
  \/ Spaced
  \/ \A t, u \in Callers : Boot[t] # Outside /\ (Boot[t] = Boot[u] => t = u)

LEMMA StepFootprint ==
  ASSUME TypeInv, NEW t \in Pid, NEW l, NEW m, Step(t, l, m), UNCHANGED life,
         m \in HandlerPC => l \in HandlerPC, m # "start"
  PROVE  Footprint(t)
<1>1. \A u \in Pid : pc'[u] = IF u = t THEN m ELSE pc[u]
  BY DEF Step, Goto, TypeInv, TypeOK
<1> QED
  BY <1>1 DEF Step, At, Footprint, Untouched, Moved, InHandler

(* t makes the task c.                                                     *)
LEMMA MakeFootprint ==
  ASSUME TypeInv, NEW t \in Pid, NEW c \in Pid, NEW l, life[t] = "alive",
         life[c] = "free", NEW s \in {"new", "alive"},
         life' = [life EXCEPT ![c] = s],
         \A u \in Pid : pc'[u] = IF u = c THEN "tail" ELSE IF u = t THEN l ELSE pc[u],
         l \in HandlerPC => InHandler(t), l = "start" => CloneThread(t)
  PROVE  Footprint(t)
<1>1. c # t
  OBVIOUS
<1>2. \A u \in Pid : life'[u] = IF u = c THEN s ELSE life[u]
  BY DEF TypeInv, TypeOK, TaskTypeOK
<1> QED
  BY <1>1, <1>2 DEF Footprint, Untouched, Made, Moved, InHandler

LEMMA HandlerFootprint ==
  ASSUME TypeInv, NEW t \in Pid, Handler(t)
  PROVE  Footprint(t)
<1> USE StepFootprint DEF kernel, taskVars, HandlerPC
<1>1. CASE TrackTgid(t)
  BY <1>1 DEF TrackTgid
<1>2. CASE ScanThreads(t)
  BY <1>2 DEF ScanThreads
<1>3. CASE KillStop(t)
  BY <1>3 DEF KillStop
<1>4. CASE FullforkWait(t)
  BY <1>4 DEF FullforkWait, Step, At
<1>5. CASE WaitInterrupted(t)
  BY <1>5 DEF WaitInterrupted
<1>6. CASE WaitFailed(t)
  BY <1>6 DEF WaitFailed
<1>7. CASE Unhook(t)
  BY <1>7 DEF Unhook
<1>8. CASE InitWaitQueue(t)
  BY <1>8 DEF InitWaitQueue
<1>9. CASE LeaderClone(t)
  <2>1. CASE Step(t, "fork", "cont") /\ UNCHANGED <<taskVars, loc>>
    BY <2>1
  <2>2. ASSUME NEW c \in Pid, At(t, "fork"), FreshPid(c),
               CopyProcess(c, t, c, t, "alive"),
               pc' = [pc EXCEPT ![t] = "await", ![c] = "tail"]
        PROVE  Footprint(t)
    BY <2>2, MakeFootprint DEF At, CopyProcess, InHandler, FreshPid, TypeInv, TypeOK
  <2> QED
    BY <1>9, <2>1, <2>2 DEF LeaderClone
<1>10. CASE WaitForClone(t)
  BY <1>10 DEF WaitForClone
<1>11. CASE Continue(t)
  BY <1>11 DEF Continue
<1>12. CASE UntrackPid(t)
  BY <1>12 DEF UntrackPid
<1>13. CASE UntrackTgid(t)
  BY <1>13 DEF UntrackTgid
<1> QED
  BY <1>1, <1>2, <1>3, <1>4, <1>5, <1>6, <1>7, <1>8, <1>9, <1>10, <1>11, <1>12, <1>13 DEF Handler

LEMMA PullBackFootprint ==
  ASSUME TypeInv, Starting, NEW t \in Pid, PullBack(t)
  PROVE  Footprint(t)
<1> USE StepFootprint DEF kernel, taskVars, HandlerPC
<1>1. CASE EnterPullBack(t)
  BY <1>1 DEF EnterPullBack, Step, At
<1>2. CASE TestClone(t)
  BY <1>2 DEF TestClone, Step, At
<1>3. CASE Claim(t)
  BY <1>3 DEF Claim
<1>4. CASE EndLoop(t)
  BY <1>4 DEF EndLoop
<1>5. CASE SkipExiting(t)
  BY <1>5 DEF SkipExiting, At, Footprint, Untouched, Moved, InHandler
<1>6. CASE CloneThread(t)
  <2>1. CASE Step(t, "loop", "done_pid") /\ UNCHANGED <<taskVars, loc>>
    BY <2>1
  <2>2. ASSUME NEW n \in Pid, At(t, "loop"), FreshPid(n),
               CopyProcess(n, t, tgid[t], real_parent[t], "new"),
               pc' = [pc EXCEPT ![t] = "start", ![n] = "tail"]
        PROVE  Footprint(t)
    BY <1>6, <2>2, MakeFootprint DEF At, CopyProcess, InHandler, FreshPid, TypeInv, TypeOK
  <2> QED
    BY <1>6, <2>1, <2>2 DEF CloneThread
<1>7. CASE StartThread(t)
  <2>1. \A u \in Pid : pc'[u] = IF u = t THEN "loop" ELSE pc[u]
    BY <1>7 DEF StartThread, Step, Goto, TypeInv, TypeOK
  <2>2. child(t) \in Pid /\ life[child(t)] = "new" /\ At(t, "start")
    BY <1>7 DEF StartThread, Step, At, Starting, TypeInv, Cursor
  <2>3. \A u \in Pid : life'[u] = IF u = child(t) THEN "alive" ELSE life[u]
    BY <1>7, <2>2 DEF StartThread, WakeWithRegs, TypeInv, TypeOK, TaskTypeOK
  <2> QED
    BY <2>1, <2>2, <2>3 DEF At, Footprint, Untouched, Started, Moved, InHandler
<1>8. CASE DonePid(t)
  BY <1>8 DEF DonePid
<1>9. CASE DoneTgid(t)
  BY <1>9 DEF DoneTgid
<1>10. CASE WakeCaller(t)
  BY <1>10 DEF WakeCaller, At, Footprint, Untouched, Woken, Moved, InHandler
<1>11. CASE Unclaim(t)
  BY <1>11 DEF Unclaim
<1> QED
  BY <1>1, <1>2, <1>3, <1>4, <1>5, <1>6, <1>7, <1>8, <1>9, <1>10, <1>11 DEF PullBack

LEMMA KernelFootprint ==
  ASSUME TypeInv, Present, NEW t \in Pid, Kernel(t)
  PROVE  Footprint(t)
<1> USE DEF Footprint, Untouched, Moved, Ended, InHandler, HandlerPC, Woken
<1>1. CASE DequeueStop(t)
  BY <1>1, NotifyWakes DEF DequeueStop, UserMode, At, taskVars
<1>2. CASE GroupStop(t)
  BY <1>2, NotifyWakes DEF GroupStop, At, taskVars
<1>3. CASE Release(t)
  BY <1>3 DEF Release, ReleaseTask, Present, TypeInv, TypeOK, TaskTypeOK
<1> QED
  BY <1>1, <1>2, <1>3 DEF Kernel

LEMMA ProgramFootprint ==
  ASSUME TypeInv, NEW t \in Pid, Program(t)
  PROVE  Footprint(t)
<1>1. CASE Call(t)
  BY <1>1 DEF Call, UserMode, At, Goto, kernel, taskVars, Footprint, Untouched,
     Moved, TypeInv, TypeOK
<1>2. CASE Exit(t)
  <2>1. /\ At(t, "user") /\ life' = [life EXCEPT ![t] = "exiting"]
        /\ \A u \in Pid : pc'[u] = pc[u] \/ Woken(u)
    BY <1>2, NotifyWakes DEF Exit, TaskExit
  <2> QED
    BY <2>1 DEF At, Footprint, Untouched, Ended, InHandler, HandlerPC, Woken,
       TypeInv, TypeOK, TaskTypeOK
<1>3. CASE Fork(t)
  <2>1. PICK c \in Pid : /\ FreshPid(c) /\ life' = [life EXCEPT ![c] = "alive"]
                         /\ Goto(c, "tail")
    BY <1>3 DEF Fork, CopyProcess
  <2>2. \A u \in Pid : pc'[u] = IF u = c THEN "tail"
                                ELSE IF u = t THEN "user" ELSE pc[u]
    BY <1>3, <2>1 DEF Fork, UserMode, At, Goto, TypeInv, TypeOK
  <2>3. life[c] = "free" /\ life[t] = "alive" /\ "user" \notin HandlerPC
    BY <1>3, <2>1 DEF Fork, UserMode, At, FreshPid, HandlerPC
  <2> QED
    BY <2>1, <2>2, <2>3, MakeFootprint
<1>4. CASE Spawn(t)
  <2>1. PICK c \in Pid : /\ FreshPid(c) /\ life' = [life EXCEPT ![c] = "alive"]
                         /\ Goto(c, "tail")
    BY <1>4 DEF Spawn, NewThread
  <2>2. \A u \in Pid : pc'[u] = IF u = c THEN "tail"
                                ELSE IF u = t THEN "user" ELSE pc[u]
    BY <1>4, <2>1 DEF Spawn, UserMode, At, Goto, TypeInv, TypeOK
  <2>3. life[c] = "free" /\ life[t] = "alive" /\ "user" \notin HandlerPC
    BY <1>4, <2>1 DEF Spawn, UserMode, At, FreshPid, HandlerPC
  <2> QED
    BY <2>1, <2>2, <2>3, MakeFootprint
<1> QED
  BY <1>1, <1>2, <1>3, <1>4 DEF Program

(* A task that is made leads a group of its own or joins that of its maker,*)
(* who is not in the handler and has no stop to obey.                      *)
Joins(t) ==
  \A u \in Pid : life[u] = "free" /\ life'[u] # "free" =>
    /\ UNCHANGED stopVars
    /\ tgid'[u] = u \/ (/\ tgid'[u] = tgid[t] /\ life[t] = "alive"
                        /\ ~SignalPending(t) /\ ~InHandler(t))

LEMMA TaskJoins ==
  ASSUME TypeInv, Starting, NEW t \in Pid,
         Handler(t) \/ PullBack(t) \/ Kernel(t) \/ Program(t)
  PROVE  Joins(t)
<1> USE DEF TypeInv, TypeOK, TaskTypeOK
<1>0. ASSUME \A u \in Pid : life[u] = "free" => life'[u] = "free"
      PROVE  Joins(t)
  BY <1>0 DEF Joins
<1>1. CASE LeaderClone(t)
  BY <1>1 DEF LeaderClone, CopyProcess, Joins, taskVars
<1>2. CASE CloneThread(t)
  BY <1>2 DEF CloneThread, CopyProcess, At, Joins, InHandler, HandlerPC, taskVars
<1>3. CASE Fork(t)
  BY <1>3 DEF Fork, CopyProcess, Joins
<1>4. CASE Spawn(t)
  BY <1>4 DEF Spawn, NewThread, UserMode, At, Joins, InHandler, HandlerPC
<1>5. CASE StartThread(t)
  <2>1. life[child(t)] = "new"
    BY <1>5 DEF StartThread, Step, At, Starting
  <2> QED
    BY <1>0, <1>5, <2>1 DEF StartThread, WakeWithRegs
<1>6. CASE Release(t) \/ Exit(t)
  BY <1>0, <1>6 DEF Release, ReleaseTask, Exit, TaskExit, At
<1>7. CASE Handler(t) /\ ~LeaderClone(t)
  BY <1>0, <1>7 DEF Handler, TrackTgid, ScanThreads, KillStop, FullforkWait,
     WaitInterrupted, WaitFailed, Unhook, InitWaitQueue, WaitForClone, Continue,
     UntrackPid, UntrackTgid, kernel, taskVars
<1>8. CASE PullBack(t) /\ ~CloneThread(t) /\ ~StartThread(t)
  BY <1>0, <1>8 DEF PullBack, EnterPullBack, TestClone, Claim, EndLoop, SkipExiting,
     DonePid, DoneTgid, WakeCaller, Unclaim, kernel, taskVars
<1>9. CASE Call(t) \/ DequeueStop(t) \/ GroupStop(t)
  BY <1>0, <1>9 DEF Call, DequeueStop, GroupStop, kernel, taskVars
<1> QED
  BY <1>1, <1>2, <1>3, <1>4, <1>5, <1>6, <1>7, <1>8, <1>9 DEF Kernel, Program

-----------------------------------------------------------------------------
(* The invariants of the task table and of the labels.                     *)

TableInv == Present /\ Starting /\ LeadersTaken

LEMMA TaskFootprint ==
  ASSUME TypeInv, TableInv, NEW t \in Pid,
         Handler(t) \/ PullBack(t) \/ Kernel(t) \/ Program(t)
  PROVE  Footprint(t) /\ Frame(t) /\ Joins(t)
BY HandlerFootprint, PullBackFootprint, KernelFootprint, ProgramFootprint,
   HandlerFrame, PullBackFrame, KernelFrame, ProgramFrame, TaskJoins
   DEF TableInv, Plain

LEMMA TaskStarting ==
  ASSUME TypeInv, TableInv, NEW t \in Pid, Footprint(t), Frame(t)
  PROVE  Starting'
<1> USE DEF TableInv
<1>1. ASSUME NEW c \in Pid, c # t, pc'[c] = "start"
      PROVE  pc[c] = "start" /\ child(c)' = child(c) /\ child(c) \in Pid
  BY <1>1 DEF Footprint, Untouched, Made, Started, Woken, Present, Frame, child,
     TypeInv, Cursor
<1>2. CASE pc'[t] # "start"
  <2>1. ASSUME NEW c \in Pid, pc'[c] = "start"
        PROVE  /\ pc[c] = "start" /\ child(c)' = child(c) /\ child(c) \in Pid
               /\ c # t
    BY <1>1, <1>2, <2>1
  <2>2. ASSUME NEW c \in Pid, pc'[c] = "start" PROVE life'[child(c)] = "new"
    BY <2>1, <2>2 DEF Footprint, Untouched, Made, Started, Moved, Ended, Starting, At
  <2> QED
    BY <2>1, <2>2 DEF Starting
<1>3. CASE CloneThread(t) /\ pc'[t] = "start"
  <2>1. PICK n \in Pid : /\ FreshPid(n) /\ At(t, "loop")
                         /\ CopyProcess(n, t, tgid[t], real_parent[t], "new")
                         /\ loc' = [loc EXCEPT ![t].child = n]
    BY <1>3 DEF CloneThread, Step, Goto, At, TypeInv, TypeOK
  <2>2. child(t)' = n /\ life[n] = "free" /\ life'[n] = "new"
    BY <2>1 DEF child, FreshPid, CopyProcess, TypeInv, TypeOK, TaskTypeOK, Locals
  <2>3. \A u \in Pid \ {n} : life'[u] = life[u]
    BY <2>1 DEF CopyProcess, TypeInv, TypeOK, TaskTypeOK
  <2>4. ASSUME NEW c \in Pid, c # t, pc'[c] = "start"
        PROVE  life'[child(c)] = "new" /\ child(c) # n
    BY <1>1, <2>2, <2>3, <2>4 DEF Starting
  <2> QED
    BY <1>1, <2>2, <2>4 DEF Starting
<1> QED
  BY <1>2, <1>3 DEF Footprint

LEMMA TaskTable ==
  ASSUME TypeInv, TableInv, NEW t \in Pid, Footprint(t), Frame(t), Joins(t)
  PROVE  TableInv'
<1> USE DEF TableInv
<1>1. Present'
  BY DEF Present, Footprint, Untouched, Made, Started, Moved, Ended, Woken, At
<1>2. LeadersTaken'
  BY DEF LeadersTaken, Joins, Frame, TypeInv, Grouped
<1> QED
  BY <1>1, <1>2, TaskStarting

LEMMA InitTable == Init => TableInv
BY BootAssumption DEF Init, TaskInit, TableInv, Present, Starting, LeadersTaken

LEMMA NextTable == TypeInv /\ TableInv /\ [Next]_vars => TableInv'
<1> SUFFICES ASSUME TypeInv, TableInv, [Next]_vars PROVE TableInv'
  OBVIOUS
<1>1. CASE InitModule \/ CleanupModule \/ UNCHANGED vars
  BY <1>1 DEF InitModule, CleanupModule, vars, kernel, taskVars, TableInv, Present,
     Starting, LeadersTaken, child
<1>2. CASE \E t \in Pid : Handler(t) \/ PullBack(t) \/ Kernel(t) \/ Program(t)
  BY <1>2, TaskFootprint, TaskTable
<1> QED
  BY <1>1, <1>2 DEF Next, Rest

LEMMA NextExclusive ==
  ASSUME OneCallerEach, TypeInv, TableInv, Settled, CallersOnly, Exclusive, [Next]_vars
  PROVE  Settled' /\ CallersOnly' /\ Exclusive'
<1>1. CASE InitModule \/ CleanupModule \/ UNCHANGED vars
  BY <1>1 DEF InitModule, CleanupModule, vars, kernel, taskVars, Settled, CallersOnly,
     Exclusive, InHandler
<1>2. ASSUME NEW t \in Pid, Handler(t) \/ PullBack(t) \/ Kernel(t) \/ Program(t)
      PROVE  Settled' /\ CallersOnly' /\ Exclusive'
  <2>1. Footprint(t) /\ Frame(t)
    BY <1>2, TaskFootprint
  <2>2. Settled'
    BY <2>1 DEF Settled, Frame
  <2>3. \A u \in Pid \ {t} : InHandler(u)' => InHandler(u)
    BY <2>1 DEF Footprint, Untouched, Made, Started, Woken, InHandler, HandlerPC
  <2>4. CallersOnly'
    BY <2>1, <2>3 DEF Footprint, CallersOnly, Call
  <2>5. CASE Spaced
    <3>1. Call(t) => \A u \in Pid : ~InHandler(u)
      BY <2>5 DEF Call, InHandler, HandlerPC
    <3>2. \A u \in Pid : InHandler(u) => life[u] # "free"
      BY DEF TableInv, Present, InHandler, HandlerPC
    <3> QED
      BY <2>1, <2>2, <2>3, <2>4, <3>1, <3>2 DEF Footprint, Frame, Exclusive
  <2>6. CASE \A u, v \in Callers : Boot[u] # Outside /\ (Boot[u] = Boot[v] => u = v)
    <3>1. \A u, v \in Pid : InHandler(u)' /\ InHandler(v)' => u \in Callers /\ v \in Callers
      BY <2>4 DEF CallersOnly
    <3> QED
      BY <2>2, <2>4, <2>6, <3>1 DEF Settled, Exclusive
  <2> QED
    BY <2>2, <2>4, <2>5, <2>6 DEF OneCallerEach
<1> QED
  BY <1>1, <1>2 DEF Next, Rest

-----------------------------------------------------------------------------
(* The stop.  Only a group leader is asked without being counted.          *)
OwedLead == \A u \in Pid : jobctl[u] = "owed" => tgid[u] = u

(* No task stops in the handler.                                           *)
Awake == \A t \in Pid : InHandler(t) => jobctl[t] # "stopped"

(* Once a thread of a group has been asked to stop, all have, except a     *)
(* caller that has cleared its own mark at the end of its wait.            *)
PastPC == {"init_wq", "fork", "await", "asleep", "cont"}

AllAsked ==
  \A u \in Pid : jobctl[u] # "none" =>
    /\ life[u] # "free"
    /\ \A v \in Group(tgid[u]) : Exiting(v) \/ jobctl[v] # "none" \/ pc[v] \in PastPC

(* When the stop is complete, and from the end of the wait on, everybody   *)
(* but the caller stands still.                                            *)
WaitPC   == {"wait", "wait_sleep", "resume"}
FrozenPC == {"unhook"} \cup PastPC

Still(t) == \A u \in Siblings(t) : Exiting(u) \/ jobctl[u] = "stopped"
Holds(t) == pc[t] \in FrozenPC \/ (pc[t] \in WaitPC /\ tgid[t] \in stopped)
Whole    == \A t \in Pid : Holds(t) => Still(t)

FreezeInv == OwedLead /\ Awake /\ AllAsked /\ Whole

(* What the proofs below assume of the state.                              *)
ExclusiveInv == /\ TypeInv /\ TableInv /\ Settled /\ CallersOnly /\ Exclusive
                /\ StopInv /\ FreezeInv

LEMMA FrozenInHandler == \A t : pc[t] \in FrozenPC \cup WaitPC => InHandler(t)
BY DEF FrozenPC, PastPC, WaitPC, InHandler, HandlerPC

(* Nobody joins a process that stands still.                               *)
LEMMA StillKept ==
  ASSUME TypeInv, TableInv, NEW t \in Pid, Footprint(t), Frame(t), Joins(t),
         NEW c \in Pid, InHandler(c), Still(c), UNCHANGED <<jobctl, stopped>>
  PROVE  Still(c)'
<1>1. life[c] = "alive" /\ tgid'[c] = tgid[c] /\ tgid[c] \in Pid
  BY DEF TableInv, Present, Frame, InHandler, HandlerPC, TypeInv, Grouped
<1>2. ASSUME NEW u \in Pid, u \in Siblings(c)'
      PROVE  u \in Siblings(c)
  <2>1. CASE life[u] = "free"
    <3>1. life'[u] # "free" /\ tgid'[u] = tgid[c]
      BY <1>1, <1>2 DEF Siblings, Group
    <3>2. CASE tgid'[u] = u
      BY <1>1, <2>1, <3>1, <3>2 DEF TableInv, LeadersTaken
    <3>3. CASE tgid'[u] = tgid[t] /\ life[t] = "alive" /\ ~SignalPending(t) /\ ~InHandler(t)
      <4>1. t \in Siblings(c)
        BY <3>1, <3>3 DEF Siblings, Group
      <4> QED
        BY <3>3, <4>1 DEF Still, Exiting, SignalPending
    <3> QED
      BY <2>1, <3>1, <3>2, <3>3 DEF Joins
  <2>2. CASE life[u] # "free"
    BY <1>1, <1>2, <2>2 DEF Siblings, Group, Frame, Footprint, Untouched, Made,
       Started, Moved, Ended
  <2> QED
    BY <2>1, <2>2
<1>3. \A u \in Pid : Exiting(u) => Exiting(u)'
  BY DEF Exiting, Footprint, Untouched, Made, Started, Moved, Ended
<1>4. \A u \in Siblings(c)' : u \in Pid
  BY DEF Siblings, Group
<1> QED
  BY <1>2, <1>3, <1>4 DEF Still

(* A step that asks nobody to stop and completes no stop.                  *)
LEMMA QuietFreeze ==
  ASSUME TypeInv, TableInv, FreezeInv, NEW t \in Pid, Footprint(t), Frame(t),
         Joins(t), UNCHANGED <<jobctl, stopped>>,
         pc[t] \in PastPC => pc'[t] \in PastPC,
         Holds(t)' => InHandler(t) /\ Still(t)
  PROVE  FreezeInv'
<1> USE DEF FreezeInv
<1>1. OwedLead'
  BY DEF OwedLead, AllAsked, Frame
<1>2. Awake'
  BY DEF Awake, Footprint, Untouched, Made, Started, Woken, InHandler, HandlerPC,
     Call, UserMode
<1>3. AllAsked'
  <2> SUFFICES ASSUME NEW u \in Pid, jobctl[u] # "none", life[u] # "free"
               PROVE  /\ life'[u] # "free"
                      /\ \A v \in Group(tgid[u])' :
                           Exiting(v)' \/ jobctl[v] # "none" \/ pc'[v] \in PastPC
    BY DEF AllAsked
  <2>1. life'[u] # "free" /\ tgid'[u] = tgid[u] /\ tgid[u] \in Pid
    BY DEF Frame, TypeInv, Grouped
  <2>2. ASSUME NEW v \in Pid, v \in Group(tgid[u])', life[v] # "free"
        PROVE  Exiting(v)' \/ jobctl[v] # "none" \/ pc'[v] \in PastPC
    <3>1. v \in Group(tgid[u])
      BY <2>1, <2>2 DEF Group, Frame, Footprint, Untouched, Made, Started, Moved, Ended
    <3>2. Exiting(v) => Exiting(v)'
      BY DEF Exiting, Footprint, Untouched, Made, Started, Moved, Ended
    <3>3. pc[v] \in PastPC => pc'[v] \in PastPC
      BY <2>2 DEF Footprint, Untouched, Made, Started, Woken, PastPC
    <3> QED
      BY <3>1, <3>2, <3>3 DEF AllAsked
  <2>3. ASSUME NEW v \in Pid, v \in Group(tgid[u])', life[v] = "free"
        PROVE  FALSE
    <3>1. life'[v] # "free" /\ tgid'[v] = tgid[u]
      BY <2>1, <2>3 DEF Group
    <3>2. CASE tgid'[v] = v
      BY <2>3, <3>1, <3>2 DEF TableInv, LeadersTaken
    <3>3. CASE tgid'[v] = tgid[t] /\ life[t] = "alive" /\ ~SignalPending(t) /\ ~InHandler(t)
      BY <3>1, <3>3 DEF AllAsked, Group, Exiting, SignalPending, InHandler, PastPC, HandlerPC
    <3> QED
      BY <2>3, <3>1, <3>2, <3>3 DEF Joins
  <2>4. \A v \in Group(tgid[u])' : v \in Pid
    BY DEF Group
  <2> QED
    BY <2>1, <2>2, <2>3, <2>4
<1>4. Whole'
  <2> SUFFICES ASSUME NEW c \in Pid, Holds(c)'
               PROVE  Still(c)'
    BY DEF Whole
  <2>1. InHandler(c) /\ Still(c)
    <3>1. CASE c # t
      <4>1. Untouched(c) \/ Made(c) \/ Started(t, c)
        BY <3>1 DEF Footprint
      <4>2. pc'[c] = pc[c] \/ Woken(c)
        BY <4>1 DEF Untouched, Made, Started, Holds, FrozenPC, PastPC, WaitPC
      <4>3. pc[c] \in FrozenPC \cup WaitPC /\ life[c] = "alive"
        BY <4>2 DEF Holds, FrozenPC, PastPC, WaitPC, Woken, TableInv, Present
      <4>4. tgid'[c] = tgid[c]
        BY <4>3 DEF Frame
      <4>5. Holds(c)
        BY <4>2, <4>4 DEF Holds, FrozenPC, PastPC, WaitPC, Woken
      <4> QED
        BY <4>3, <4>5, FrozenInHandler DEF Whole
    <3> QED
      BY <3>1
  <2> QED
    BY <2>1, StillKept
<1> QED
  BY <1>1, <1>2, <1>3, <1>4

(* The handler.  Where the wait ends, or there is nobody to stop, the      *)
(* siblings stand still; the signal is sent where no stop is complete.     *)
LEMMA HandlerFreeze ==
  ASSUME ExclusiveInv, NEW t \in Pid, Handler(t)
  PROVE  FreezeInv'
<1> USE DEF ExclusiveInv, HandlerPC, PastPC
<1>0. Footprint(t) /\ Frame(t) /\ Joins(t) /\ t \in Pid
  BY TaskFootprint
<1>1. \A l, m : Step(t, l, m) => pc[t] = l /\ pc'[t] = m
  BY DEF Step, At, Goto, TypeInv, TypeOK
<1>2. tgid[t] \in Pid /\ tgid'[t] = tgid[t] /\ InHandler(t) /\ life[t] = "alive"
  <2>1. InHandler(t) /\ life[t] = "alive"
    BY DEF InHandler, Handler, TrackTgid, ScanThreads, KillStop, FullforkWait,
       WaitInterrupted, WaitFailed, Unhook, InitWaitQueue, LeaderClone, WaitForClone,
       Continue, UntrackPid, UntrackTgid, Step, At
  <2> QED
    BY <1>0, <2>1 DEF Frame, TypeInv, Grouped
<1>3. ASSUME UNCHANGED <<jobctl, stopped>>, pc[t] \in PastPC => pc'[t] \in PastPC,
             Holds(t)' => Still(t)
      PROVE  FreezeInv'
  BY <1>0, <1>2, <1>3, QuietFreeze
<1>4. CASE TrackTgid(t) \/ WaitInterrupted(t) \/ InitWaitQueue(t) \/ WaitForClone(t)
           \/ UntrackPid(t) \/ UntrackTgid(t) \/ FullforkWait(t)
  <2>1. UNCHANGED stopVars
    BY <1>4 DEF TrackTgid, WaitInterrupted, InitWaitQueue, WaitForClone, UntrackPid,
       UntrackTgid, FullforkWait, kernel
  <2>2. pc[t] \in PastPC => pc'[t] \in PastPC
    BY <1>1, <1>4 DEF TrackTgid, WaitInterrupted, InitWaitQueue, WaitForClone,
       UntrackPid, UntrackTgid, FullforkWait, At
  <2>3. Holds(t)' => Holds(t)
    <3>1. CASE FullforkWait(t)
      BY <1>2, <2>1, <3>1 DEF FullforkWait, At, Goto, TypeInv, TypeOK, Holds, FrozenPC,
         WaitPC, stopVars
    <3>2. CASE ~FullforkWait(t)
      BY <1>1, <1>2, <1>4, <2>1, <3>2 DEF TrackTgid, WaitInterrupted, InitWaitQueue,
         WaitForClone, UntrackPid, UntrackTgid, Holds, FrozenPC, WaitPC, stopVars
    <3> QED
      BY <3>1, <3>2
  <2> QED
    BY <1>3, <2>1, <2>2, <2>3 DEF stopVars, FreezeInv, Whole
<1>5. CASE ScanThreads(t)
  <2>1. CASE Step(t, "scan", "init_wq") /\ \A u \in Siblings(t) : Exiting(u)
    BY <1>1, <1>3, <1>5, <2>1 DEF ScanThreads, kernel, stopVars, Still
  <2>2. CASE Step(t, "scan", "kill")
    BY <1>1, <1>3, <1>5, <2>2 DEF ScanThreads, kernel, stopVars, Holds, FrozenPC, WaitPC
  <2> QED
    BY <1>5, <2>1, <2>2 DEF ScanThreads
<1>6. CASE KillStop(t)
  <2>1. pc[t] = "kill" /\ pc'[t] \in {"user", "wait"} /\ UNCHANGED <<jobctl, stopped>>
    BY <1>1, <1>6 DEF KillStop, SendStop, stopVars
  <2>2. tgid[t] \notin stopped
    BY <1>2, <2>1 DEF StopInv, Owner, Stopper, StopperPC, Exclusive, InHandler
  <2> QED
    BY <1>2, <1>3, <2>1, <2>2 DEF Holds, FrozenPC, WaitPC
<1>7. CASE LeaderClone(t)
  <2>1. pc[t] = "fork" /\ pc'[t] \in {"cont", "await"} /\ UNCHANGED <<jobctl, stopped>>
    <3>1. CASE Step(t, "fork", "cont")
      BY <1>1, <1>7, <3>1 DEF LeaderClone, stopVars
    <3>2. ASSUME NEW c \in Pid, At(t, "fork"), FreshPid(c),
                 pc' = [pc EXCEPT ![t] = "await", ![c] = "tail"]
          PROVE  pc[t] = "fork" /\ pc'[t] = "await" /\ UNCHANGED <<jobctl, stopped>>
      BY <1>7, <3>2 DEF LeaderClone, stopVars, At, FreshPid, TypeInv, TypeOK
    <3> QED
      BY <1>7, <3>1, <3>2 DEF LeaderClone
  <2> QED
    BY <1>3, <2>1 DEF FreezeInv, Whole, Holds, FrozenPC
<1>8. ASSUME NEW c \in Pid, c # t, Holds(c)', stopped' \subseteq stopped
      PROVE  Holds(c) /\ Still(c) /\ InHandler(c) /\ tgid[c] # tgid[t] /\ tgid'[c] = tgid[c]
  <2>1. Untouched(c) \/ Made(c) \/ Started(t, c)
    BY <1>0, <1>8 DEF Footprint
  <2>2. pc'[c] = pc[c] \/ Woken(c)
    BY <1>8, <2>1 DEF Untouched, Made, Started, Holds, FrozenPC, WaitPC
  <2>3. InHandler(c) /\ life[c] = "alive"
    BY <1>8, <2>2 DEF Holds, FrozenPC, WaitPC, Woken, InHandler, TableInv, Present
  <2>4. tgid[c] # tgid[t] /\ tgid'[c] = tgid[c]
    BY <1>0, <1>2, <1>8, <2>3 DEF Exclusive, Frame
  <2>5. Holds(c)
    BY <1>8, <2>2, <2>4 DEF Holds, FrozenPC, WaitPC, Woken
  <2> QED
    BY <2>3, <2>4, <2>5 DEF FreezeInv, Whole
<1>9. CASE Unhook(t)
  <2>1. /\ pc[t] = "unhook" /\ pc'[t] = "init_wq" /\ UNCHANGED taskVars
        /\ jobctl' = [jobctl EXCEPT ![t] = "none"]
        /\ \A u \in Pid \ {t} : pc'[u] = pc[u]
    BY <1>1, <1>9 DEF Unhook, ClearStopPending, Step, Goto, TypeInv, TypeOK
  <2>2. /\ jobctl'[t] = "none" /\ \A u \in Pid \ {t} : jobctl'[u] = jobctl[u]
        /\ \A u \in Pid : tgid'[u] = tgid[u] /\ life'[u] = life[u]
        /\ \A p : Group(p)' = Group(p)
    BY <2>1 DEF TypeInv, TypeOK, TaskTypeOK, taskVars, Group
  <2>3. OwedLead' /\ Awake'
    BY <2>1, <2>2 DEF FreezeInv, OwedLead, Awake, InHandler
  <2>4. AllAsked'
    <3> SUFFICES ASSUME NEW u \in Pid, jobctl[u] # "none", life[u] # "free",
                        NEW v \in Group(tgid[u])
                 PROVE  Exiting(v)' \/ jobctl'[v] # "none" \/ pc'[v] \in PastPC
      BY <2>2 DEF AllAsked, FreezeInv
    <3>1. v \in Pid
      BY DEF Group
    <3> QED
      BY <2>1, <2>2, <3>1 DEF AllAsked, FreezeInv, Exiting
  <2>5. Still(t)'
    BY <2>1, <2>2 DEF FreezeInv, Whole, Holds, FrozenPC, Still, Siblings, Group, Exiting,
       taskVars
  <2>6. ASSUME NEW c \in Pid, c # t, Holds(c)' PROVE Still(c)'
    BY <1>8, <1>9, <2>1, <2>2, <2>6 DEF Unhook, ClearStopPending, Still, Siblings, Group,
       Exiting, taskVars
  <2> QED
    BY <2>3, <2>4, <2>5, <2>6 DEF FreezeInv, Whole
<1>10. CASE WaitFailed(t) \/ Continue(t)
  <2>1. /\ pc'[t] \in {"user", "untrack_pid"} /\ UNCHANGED taskVars /\ SendCont(tgid[t])
        /\ \A u \in Pid \ {t} : pc'[u] = pc[u]
    BY <1>1, <1>10 DEF WaitFailed, Continue, Step, Goto, TypeInv, TypeOK
  <2>2. \A u \in Pid : /\ tgid'[u] = tgid[u] /\ life'[u] = life[u]
                       /\ jobctl'[u] = IF tgid[u] = tgid[t] THEN "none" ELSE jobctl[u]
    BY <2>1 DEF SendCont, taskVars
  <2>3. OwedLead' /\ Awake'
    BY <2>1, <2>2 DEF FreezeInv, OwedLead, Awake, InHandler
  <2>4. AllAsked'
    <3> SUFFICES ASSUME NEW u \in Pid, jobctl[u] # "none", tgid[u] # tgid[t]
                 PROVE  /\ life[u] # "free"
                        /\ \A v \in Group(tgid[u]) :
                             Exiting(v)' \/ jobctl'[v] # "none" \/ pc'[v] \in PastPC
      BY <2>1, <2>2 DEF AllAsked, Group, taskVars
    <3>1. ASSUME NEW v \in Group(tgid[u])
          PROVE  v \in Pid /\ v # t /\ tgid[v] # tgid[t]
      BY DEF Group
    <3>2. ASSUME NEW v \in Group(tgid[u])
          PROVE  Exiting(v)' \/ jobctl'[v] # "none" \/ pc'[v] \in PastPC
      BY <2>1, <2>2, <3>1 DEF AllAsked, FreezeInv, Exiting
    <3> QED
      BY <3>2 DEF AllAsked, FreezeInv
  <2>5. ~Holds(t)'
    BY <2>1 DEF Holds, FrozenPC, WaitPC
  <2>6. ASSUME NEW c \in Pid, c # t, Holds(c)' PROVE Still(c)'
    BY <1>8, <2>1, <2>2, <2>6 DEF SendCont, Still, Siblings, Group, Exiting, taskVars
  <2> QED
    BY <2>3, <2>4, <2>5, <2>6 DEF FreezeInv, Whole
<1> QED
  BY <1>4, <1>5, <1>6, <1>7, <1>9, <1>10 DEF Handler

(* t stops, or leaves, in its own time: it asks those who have not been    *)
(* asked, and the stop is complete only if nobody is left who was counted. *)
Yields(t) ==
  /\ pc[t] = "user" /\ life[t] = "alive" /\ jobctl[t] # "stopped"
  /\ UNCHANGED tgid
  /\ jobctl'[t] = "stopped" \/ Exiting(t)'
  /\ \A u \in Pid \ {t} :
       /\ life'[u] = life[u] /\ (pc'[u] = pc[u] \/ Woken(u))
       /\ \/ jobctl'[u] = jobctl[u]
          \/ /\ u \in Siblings(t) /\ ~Exiting(u) /\ jobctl[u] \in {"none", "owed"}
             /\ jobctl'[u] \in {"owed", "pending"}
             /\ jobctl'[u] = "owed" => tgid[u] = u
  /\ pc'[t] = pc[t]
  /\ life'[t] \in {"alive", "exiting"} /\ jobctl'[t] \in {"none", "stopped"}

(* After the step everybody in the group of t who is alive has been asked, *)
(* if anybody has.                                                         *)
AsksAll(t) ==
  \/ jobctl[t] # "none"
  \/ jobctl[t] = "none" /\ \A u \in Siblings(t) : Exiting(u) \/ jobctl'[u] # "none"
  \/ jobctl'[t] = "none" /\ \A u \in Pid : jobctl'[u] = jobctl[u]

CompletesOnly(t) ==
  \A p \in stopped' : \/ p \in stopped
                      \/ /\ p = tgid[t]
                         /\ \A u \in Siblings(t) : jobctl'[u] # "pending"
                         /\ \A u \in Siblings(t) : \/ Exiting(u) \/ jobctl'[u] # "none"
                                                    \/ pc[u] \in PastPC

LEMMA YieldSteps ==
  ASSUME ExclusiveInv, NEW t \in Pid, DequeueStop(t) \/ GroupStop(t) \/ Exit(t)
  PROVE  Yields(t) /\ AsksAll(t) /\ CompletesOnly(t)
<1> USE DEF ExclusiveInv, TypeInv, TypeOK, TaskTypeOK
<1>0. /\ \A u \in Pid : pc'[u] = pc[u] \/ Woken(u)
      /\ At(t, "user") /\ pc'[t] = pc[t] /\ UNCHANGED tgid
      /\ t \notin Siblings(t) /\ \A u \in Siblings(t) : u \in Pid
  <2>1. \A u \in Pid : pc'[u] = pc[u] \/ Woken(u)
    BY NotifyWakes DEF DequeueStop, GroupStop, Exit
  <2>2. At(t, "user") /\ UNCHANGED tgid
    BY DEF DequeueStop, GroupStop, Exit, UserMode, TaskExit, taskVars
  <2> QED
    BY <2>1, <2>2 DEF Woken, At, Siblings, Group
<1>1. CASE DequeueStop(t)
  <2>1. /\ jobctl[t] = "none" /\ UNCHANGED taskVars
        /\ \A u \in Pid :
             jobctl'[u] = IF u = t THEN "stopped"
                          ELSE IF ~(u \in Siblings(t) /\ ~Exiting(u)
                                      /\ jobctl[u] \in {"none", "owed"}) THEN jobctl[u]
                          ELSE IF u \in Exempt THEN "owed" ELSE "pending"
    BY <1>1 DEF DequeueStop, DoSignalStop, UserMode
  <2>2. Yields(t) /\ AsksAll(t)
    BY <1>0, <2>1 DEF Yields, AsksAll, At, Exempt, group_leader, taskVars
  <2>3. stopped' = IF \A u \in Siblings(t) : jobctl'[u] # "pending"
                     THEN stopped \cup {tgid[t]} ELSE stopped
    BY <1>0, <1>1 DEF DequeueStop, DoSignalStop
  <2> QED
    BY <1>0, <2>1, <2>2, <2>3 DEF CompletesOnly, AsksAll
<1>2. CASE GroupStop(t)
  <2>1. /\ jobctl[t] \in {"pending", "owed"} /\ UNCHANGED taskVars
        /\ jobctl'[t] = "stopped" /\ \A u \in Pid \ {t} : jobctl'[u] = jobctl[u]
    BY <1>2 DEF GroupStop, StopHere
  <2>2. Yields(t) /\ AsksAll(t)
    BY <1>0, <2>1 DEF Yields, AsksAll, At, taskVars
  <2>3. stopped' = IF \A u \in Siblings(t) : jobctl[u] # "pending"
                     THEN stopped \cup {tgid[t]} ELSE stopped
    BY <1>2 DEF GroupStop, StopHere, LastToStop
  <2>4. \A u \in Siblings(t) : Exiting(u) \/ jobctl[u] # "none" \/ pc[u] \in PastPC
    BY <2>1 DEF FreezeInv, AllAsked, Siblings
  <2> QED
    BY <1>0, <2>1, <2>2, <2>3, <2>4 DEF CompletesOnly
<1>3. CASE Exit(t)
  <2>1. /\ jobctl[t] \in {"none", "pending"} /\ jobctl'[t] = "none"
        /\ \A u \in Pid \ {t} : jobctl'[u] = jobctl[u] /\ life'[u] = life[u]
        /\ life'[t] = "exiting"
    BY <1>3 DEF Exit, TaskExit
  <2>2. Yields(t) /\ AsksAll(t)
    BY <1>0, <2>1 DEF Yields, AsksAll, At, Exiting
  <2>3. stopped' = IF jobctl[t] = "pending" /\ \A u \in Siblings(t) : jobctl[u] # "pending"
                     THEN stopped \cup {tgid[t]} ELSE stopped
    BY <1>3 DEF Exit, TaskExit, LastToStop
  <2>4. jobctl[t] = "pending" =>
          \A u \in Siblings(t) : Exiting(u) \/ jobctl[u] # "none" \/ pc[u] \in PastPC
    BY DEF FreezeInv, AllAsked, Siblings
  <2> QED
    BY <1>0, <2>1, <2>2, <2>3, <2>4 DEF CompletesOnly
<1> QED
  BY <1>1, <1>2, <1>3

LEMMA YieldFreeze ==
  ASSUME ExclusiveInv, NEW t \in Pid, Yields(t), AsksAll(t), CompletesOnly(t)
  PROVE  FreezeInv'
<1> USE DEF ExclusiveInv, FreezeInv, Yields
<1>0. \A u \in Pid : /\ \A p : u \in Group(p)' => u \in Group(p)
                     /\ Exiting(u) => Exiting(u)'
  BY DEF Group, Exiting
<1>1. OwedLead'
  BY DEF OwedLead
<1>2. \A u \in Pid : InHandler(u)' = InHandler(u) /\ (InHandler(u) => u # t)
  BY DEF InHandler, HandlerPC, Woken
<1>3. Awake'
  BY <1>2 DEF Awake
<1>4. AllAsked'
  <2> SUFFICES ASSUME NEW u \in Pid, jobctl'[u] # "none"
               PROVE  /\ life[u] # "free"
                      /\ \A v \in Pid : v \in Group(tgid[u]) =>
                           Exiting(v)' \/ jobctl'[v] # "none" \/ pc'[v] \in PastPC
    <3>1. \A u \in Pid : life[u] # "free" => life'[u] # "free"
      OBVIOUS
    <3>2. \A u \in Pid : \A v \in Group(tgid[u])' : v \in Pid /\ v \in Group(tgid[u])
      BY <1>0 DEF Group
    <3> QED
      BY <3>1, <3>2 DEF AllAsked
  <2>1. life[u] # "free"
    BY DEF AllAsked, Siblings, Group
  <2>2. ASSUME NEW v \in Pid, v \in Group(tgid[u]), jobctl[u] # "none"
        PROVE  Exiting(v)' \/ jobctl'[v] # "none" \/ pc'[v] \in PastPC
    <3>1. Exiting(v) \/ jobctl[v] # "none" \/ pc[v] \in PastPC
      BY <2>2 DEF AllAsked
    <3>2. pc[v] \in PastPC => pc'[v] \in PastPC
      BY DEF PastPC, Woken
    <3> QED
      BY <1>0, <3>1, <3>2
  <2>3. ASSUME NEW v \in Pid, v \in Group(tgid[u]), jobctl[u] = "none"
        PROVE  Exiting(v)' \/ jobctl'[v] # "none" \/ pc'[v] \in PastPC
    <3>1. tgid[u] = tgid[t] /\ ~(\A w \in Pid : jobctl'[w] = jobctl[w])
      BY <2>3 DEF Siblings, Group
    <3>2. CASE jobctl[t] # "none"
      <4>1. v \in Group(tgid[t])
        BY <2>3, <3>1
      <4>2. Exiting(v) \/ jobctl[v] # "none" \/ pc[v] \in PastPC
        BY <3>2, <4>1 DEF AllAsked
      <4>3. pc[v] \in PastPC => pc'[v] \in PastPC
        BY DEF PastPC, Woken
      <4> QED
        BY <1>0, <4>2, <4>3
    <3>3. CASE \A w \in Siblings(t) : Exiting(w) \/ jobctl'[w] # "none"
      <4>1. v = t \/ v \in Siblings(t)
        BY <2>3, <3>1 DEF Siblings
      <4> QED
        BY <1>0, <3>3, <4>1
    <3> QED
      BY <3>1, <3>2, <3>3 DEF AsksAll
  <2> QED
    BY <2>1, <2>2, <2>3
<1>5. Whole'
  <2> SUFFICES ASSUME NEW c \in Pid, Holds(c)'
               PROVE  Still(c)'
    BY DEF Whole
  <2>1. InHandler(c) /\ c # t
    BY <1>2, FrozenInHandler DEF Holds, InHandler, FrozenPC, WaitPC, PastPC, HandlerPC
  <2>2. \A u \in Pid : u \in Siblings(c)' => u \in Siblings(c)
    BY <1>0 DEF Siblings
  <2>3. \A u \in Siblings(c)' : u \in Pid
    BY DEF Siblings, Group
  <2>4. ASSUME Still(c), NEW u \in Pid, u \in Siblings(c)
        PROVE  Exiting(u)' \/ jobctl'[u] = "stopped"
    BY <1>0, <2>4 DEF Still
  <2>5. CASE Holds(c)
    BY <2>2, <2>3, <2>4, <2>5 DEF Whole, Still
  <2>6. CASE ~Holds(c)
    <3>1. /\ tgid[c] = tgid[t] /\ pc[c] \in WaitPC
          /\ \A u \in Siblings(t) : jobctl'[u] # "pending"
          /\ \A u \in Siblings(t) : \/ Exiting(u) \/ jobctl'[u] # "none"
                                    \/ pc[u] \in PastPC
      BY <2>1, <2>6 DEF Holds, CompletesOnly, FrozenPC, PastPC, WaitPC, Woken
    <3>2. life[c] = "alive" /\ c \in Siblings(t)
      BY <2>1, <3>1 DEF TableInv, Present, InHandler, HandlerPC, Siblings, Group
    <3>3. tgid[c] = c
      <4>1. jobctl'[c] # "stopped"
        BY <1>2, <1>3, <2>1 DEF Awake
      <4>2. jobctl'[c] = "owed"
        <5>1. ~Exiting(c) /\ pc[c] \notin PastPC
          BY <3>1, <3>2 DEF Exiting, WaitPC, PastPC
        <5>2. jobctl'[c] \in {"none", "pending", "owed", "stopped"}
          BY DEF TypeInv, TypeOK, TaskTypeOK
        <5> QED
          BY <3>1, <3>2, <4>1, <5>1, <5>2
      <4> QED
        BY <1>1, <4>2 DEF OwedLead
    <3>4. ASSUME NEW u \in Pid, u \in Siblings(c), u # t
          PROVE  Exiting(u)' \/ jobctl'[u] = "stopped"
      <4>1. u \in Siblings(t) /\ tgid[u] = tgid[c] /\ u # c
        BY <3>1, <3>4 DEF Siblings, Group
      <4>2. pc[u] \notin PastPC
        BY <2>1, <4>1, FrozenInHandler DEF Exclusive, FrozenPC
      <4>3. jobctl'[u] # "owed"
        BY <1>1, <3>3, <4>1 DEF OwedLead
      <4>4. jobctl'[u] \in {"none", "pending", "owed", "stopped"}
        BY DEF TypeInv, TypeOK, TaskTypeOK
      <4> QED
        BY <1>0, <3>1, <4>1, <4>2, <4>3, <4>4
    <3> QED
      BY <2>2, <2>3, <3>4 DEF Still
  <2> QED
    BY <2>5, <2>6
<1> QED
  BY <1>1, <1>3, <1>4, <1>5

LEMMA TaskFreeze ==
  ASSUME ExclusiveInv, NEW t \in Pid,
         Handler(t) \/ PullBack(t) \/ Kernel(t) \/ Program(t)
  PROVE  FreezeInv'
<1> USE DEF ExclusiveInv
<1>1. CASE DequeueStop(t) \/ GroupStop(t) \/ Exit(t)
  BY <1>1, YieldSteps, YieldFreeze
<1>2. CASE PullBack(t) \/ Release(t) \/ Call(t) \/ Fork(t) \/ Spawn(t)
  <2>1. Footprint(t) /\ Frame(t) /\ Joins(t)
    BY TaskFootprint
  <2>2. UNCHANGED <<jobctl, stopped>>
    BY <1>2, PullBackFrame DEF TableInv, Release, Call, Fork, Spawn, kernel, stopVars
  <2>3. pc[t] \notin PastPC
    BY <1>2 DEF PullBack, EnterPullBack, TestClone, Claim, EndLoop, SkipExiting,
       CloneThread, StartThread, DonePid, DoneTgid, WakeCaller, Unclaim, Step, At,
       Release, Call, Fork, Spawn, UserMode, PastPC, TableInv, Present
  <2>4. ~Holds(t)'
    <3>1. InHandler(t)' => InHandler(t) \/ Call(t)
      BY <2>1 DEF Footprint
    <3>2. ~InHandler(t)
      BY <1>2 DEF PullBack, EnterPullBack, TestClone, Claim, EndLoop, SkipExiting,
         CloneThread, StartThread, DonePid, DoneTgid, WakeCaller, Unclaim, Step, At,
         Release, Call, Fork, Spawn, UserMode, InHandler, HandlerPC, TableInv, Present
    <3>3. Call(t) => pc'[t] = "track_tgid"
      BY DEF Call, Goto, TypeInv, TypeOK
    <3> QED
      BY <3>1, <3>2, <3>3 DEF Holds, FrozenPC, PastPC, WaitPC, InHandler, HandlerPC
  <2> QED
    BY <2>1, <2>2, <2>3, <2>4, QuietFreeze
<1> QED
  BY <1>1, <1>2, HandlerFreeze DEF Kernel, Program

LEMMA InitExclusiveInv == Init => ExclusiveInv
<1> SUFFICES ASSUME Init PROVE ExclusiveInv
  OBVIOUS
<1>1. \A t \in Pid : pc[t] = "user" /\ jobctl[t] = "none"
  BY DEF Init, TaskInit
<1>2. CallersOnly /\ Exclusive /\ FreezeInv
  BY <1>1 DEF CallersOnly, Exclusive, InHandler, HandlerPC, FreezeInv, OwedLead, Awake, AllAsked,
     Whole, Holds, FrozenPC, PastPC, WaitPC
<1>3. StopInv /\ Settled
  BY <1>1, BootAssumption DEF Init, TaskInit, StopInv, Settled
<1> QED
  BY <1>2, <1>3, InitTypeInv, InitTable DEF ExclusiveInv

LEMMA NextExclusiveInv ==
  ASSUME OneCallerEach, ExclusiveInv, [Next]_vars PROVE ExclusiveInv'
<1>1. TypeInv' /\ TableInv' /\ Settled' /\ CallersOnly' /\ Exclusive' /\ StopInv'
  BY NextTypeInv, NextTable, NextExclusive, NextStopInv DEF ExclusiveInv
<1>2. FreezeInv'
  <2>1. CASE InitModule \/ CleanupModule \/ UNCHANGED vars
    BY <2>1 DEF ExclusiveInv, InitModule, CleanupModule, vars, kernel, taskVars, stopVars,
       FreezeInv, OwedLead, Awake, InHandler, AllAsked, Group, Exiting, Whole, Holds,
       Still, Siblings
  <2>2. CASE \E t \in Pid : Handler(t) \/ PullBack(t) \/ Kernel(t) \/ Program(t)
    BY <2>2, TaskFreeze
  <2> QED
    BY <2>1, <2>2 DEF Next, Rest
<1> QED
  BY <1>1, <1>2 DEF ExclusiveInv

(* While the caller forks and its clone copies the threads, and until it   *)
(* sends SIGCONT, no live sibling can run, whichever of them exit, create  *)
(* threads or take the SIGSTOP first, and whatever other processes do,     *)
(* calls of their own included, which overwrite the hooks and tracked ids. *)
THEOREM SiblingsStayFrozen ==
  ASSUME OneCallerEach
  PROVE  Spec => []SiblingsFrozen
<1>1. ExclusiveInv => SiblingsFrozen
  BY DEF ExclusiveInv, FreezeInv, Whole, Holds, FrozenPC, PastPC, Still, SiblingsFrozen
<1>2. ExclusiveInv /\ [Next]_vars => ExclusiveInv'
  BY NextExclusiveInv
<1> QED
  BY <1>1, <1>2, InitExclusiveInv, PTL DEF Spec
=============================================================================
