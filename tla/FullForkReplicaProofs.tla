------------------------- MODULE FullForkReplicaProofs -------------------------
(***************************************************************************)
(* What a full fork makes: one thread for each live thread of the caller's *)
(* process, each resuming the user context of the one that it copies; and  *)
(* that the module implements SnapshotCall, step by step.                  *)
(***************************************************************************)
EXTENDS FullForkRefinement, FullForkBuilderProofs, FiniteSetTheorems,
        FunctionTheorems

(* The pids that are taken are the lowest, a leader has the lowest of its  *)
(* group, and a context is that of a task which exists or has existed.     *)
PidsInOrder   == \A t \in Pid : life[t] # "free" => \A u \in 1 .. t : life[u] # "free"
LeadFirst     == \A t \in Pid : life[t] # "free" => tgid[t] =< t
ContextsTaken ==
  \A t \in Pid : life[t] # "free" => regs[t] \in Pid /\ life[regs[t]] # "free"

OrderInv == PidsInOrder /\ LeadFirst /\ ContextsTaken

(* The flag is set only while a clone is at work.                          *)
FlagOwned == ff.clone => \E d \in Pid : Working(d)

(* A task in the loop of my_pull_back points at a pid that is taken, and   *)
(* what it has made joins its own group.                                   *)
Pointing ==
  \A d \in Pid : /\ pc[d] \in {"loop", "start"} => life[temp(d)] # "free"
                 /\ pc[d] = "start" => tgid[child(d)] = tgid[d]

(* Nobody is on the way through my_pull_back into the process of a task    *)
(* that calls.                                                             *)
Joining(d) == \/ pc[d] \in {"tail_flag"} \cup BuildersPC
              \/ pc[d] = "tail" /\ PPid(d) # Outside

Aside == \A w, d \in Pid : InHandler(w) /\ tgid[d] = tgid[w] => ~Joining(d)

(* Unless a thread of a full fork has been late, the threads of a process  *)
(* that have been woken differ in their contexts.                          *)
Timely   == \A n \in Pid : life[n] # "free" => ~Late(n)
Woke(t)  == life[t] \notin {"free", "new"}
Distinct == \A t, u \in Pid :
              t # u /\ tgid[t] = tgid[u] /\ Woke(t) /\ Woke(u) => regs[t] # regs[u]

-----------------------------------------------------------------------------
(* How far the copy c of the caller's process t has got.                   *)
Threads(p) == {u \in Group(p) : ~Exiting(u)}

(* Whom the loop has passed: the list is in the order of the pids, and the *)
(* caller, where it begins and ends, is the first.                         *)
Visited(t, c) ==
  {u \in Threads(t) \ {t} : temp(c) = t \/ u < temp(c)}

Copied(t, c) == IF pc[c] \in {"tail", "tail_flag", "claim"} THEN {}
                ELSE IF pc[c] \in {"loop", "start"} THEN Visited(t, c)
                ELSE Threads(t) \ {t}

(* The threads that c has got, those that have ended included.             *)
Copies(c) == {n \in Pid \ {c} : tgid[n] = c /\ Woke(n)}

AtWork(c) == pc[c] \in TailPC \/ Builds(c)

(* The loop variables of d, which adds threads to a copy of t's process.   *)
LoopInv(t, d) ==
  /\ pc[d] \in {"loop", "start"} => loc[d].parent_task = t /\ tgid[temp(d)] = t
  /\ pc[d] = "start" => temp(d) # t /\ ~Exiting(temp(d))

(* No clone of a thread has failed, as far as the caller is going to know. *)
Complete(t, c) == \/ pc[c] \in {"loop", "start"}
                  \/ ff.error_check = 0
                  \/ pc[t] = "cont" /\ loc[t].err = 0

Copying(t, c) ==
  /\ c \in Pid /\ c # t /\ Boot[c] = Outside
  /\ tgid[t] = t /\ tgid[c] = c /\ Woke(c) /\ regs[c] = regs[t]
  /\ \A n \in Pid : tgid[n] = c /\ life[n] # "free" =>
       /\ real_parent[n] = t /\ LoopInv(t, n)
       /\ \E u \in Threads(t) : regs[n] = regs[u]
  /\ AtWork(c) =>
       /\ CallOf(t, c)
       /\ \A n \in Pid : tgid[n] = c /\ life[n] = "new" => pc[c] = "start" /\ child(c) = n
       /\ \A n \in Copies(c) : \E u \in Copied(t, c) : regs[n] = regs[u]
  /\ Complete(t, c) => \A u \in Copied(t, c) : \E n \in Copies(c) : regs[n] = regs[u]

(* A caller that is no leader waits in vain: its child builds nothing.     *)
Awaits(t) ==
  pc[t] \in WaitingPC \cup {"cont"} /\ child(t) # Outside /\ tgid[t] = t

CopyInv == \A t \in Pid : Awaits(t) => Copying(t, child(t))

(* What the proofs below assume of the state.                              *)
BaseInv    == DisciplineInv /\ NoOrphanThread /\ GrownInv /\ Pointing /\ Aside
ReplicaInv == BaseInv /\ OrderInv /\ FlagOwned /\ (Timely => Distinct) /\ CopyInv

-----------------------------------------------------------------------------
(* What a step of t does to contexts, how it ends a task, whom it makes.   *)
Joined(t, c) ==
  /\ FreshPid(c) /\ life[t] = "alive"
  /\ \/ tgid'[c] = c /\ regs'[c] = regs[t] /\ life'[c] = "alive"
     \/ /\ t \in Spawners /\ pc[t] = "user"
        /\ tgid'[c] = tgid[t] /\ regs'[c] = c /\ life'[c] = "alive"
     \/ /\ pc[t] = "loop" /\ pc'[t] = "start" /\ child(t)' = c
        /\ tgid'[c] = tgid[t] /\ regs'[c] = regs[t] /\ life'[c] = "new"
        /\ real_parent'[c] = real_parent[t]

Changes(t) ==
  /\ \A u \in Pid : life[u] # "free" =>
       \/ regs'[u] = regs[u] /\ ~Started(t, u)
       \/ regs'[u] = regs[temp(t)] /\ Started(t, u)
  /\ life'[t] # life[t] => \/ life[t] = "exiting" /\ life'[t] = "dead"
                           \/ /\ life[t] = "alive" /\ life'[t] = "exiting"
                              /\ t \in Exiters /\ jobctl[t] # "stopped"
  /\ \A c \in Pid : Made(c) => Joined(t, c)

LEMMA QuietChanges ==
  ASSUME TypeInv, TableInv, NEW t \in Pid, UNCHANGED <<life, regs>>
  PROVE  Changes(t)
BY DEF Changes, Made, Started

LEMMA MakeChanges ==
  ASSUME TypeInv, TableInv, NEW t \in Pid, NEW c \in Pid, Joined(t, c),
         \A u \in Pid \ {c} : life'[u] = life[u] /\ regs'[u] = regs[u]
  PROVE  Changes(t)
<1>1. life[c] = "free" /\ life[t] = "alive"
  BY DEF Joined, FreshPid
<1>2. \A u \in Pid : ~Started(t, u) /\ (Made(u) => u = c)
  BY <1>1 DEF Started, Made
<1> QED
  BY <1>1, <1>2 DEF Changes

LEMMA TaskChanges ==
  ASSUME TypeInv, TableInv, NEW t \in Pid,
         Handler(t) \/ PullBack(t) \/ Kernel(t) \/ Program(t)
  PROVE  Changes(t)
<1> USE DEF TypeInv, TypeOK, TaskTypeOK
<1>1. CASE LeaderClone(t)
  <2>1. CASE UNCHANGED taskVars
    BY <2>1, QuietChanges DEF taskVars
  <2>2. CASE \E c \in Pid : At(t, "fork") /\ FreshPid(c) /\ CopyProcess(c, t, c, t, "alive")
    <3>1. PICK c \in Pid : /\ At(t, "fork") /\ FreshPid(c)
                           /\ CopyProcess(c, t, c, t, "alive")
      BY <2>2
    <3>2. Joined(t, c) /\ \A u \in Pid \ {c} : life'[u] = life[u] /\ regs'[u] = regs[u]
      BY <3>1 DEF Joined, At, CopyProcess
    <3> QED
      BY <3>2, MakeChanges
  <2> QED
    BY <1>1, <2>1, <2>2 DEF LeaderClone
<1>2. CASE CloneThread(t)
  <2>1. CASE UNCHANGED taskVars
    BY <2>1, QuietChanges DEF taskVars
  <2>2. ASSUME NEW c \in Pid, At(t, "loop"), FreshPid(c),
               CopyProcess(c, t, tgid[t], real_parent[t], "new"),
               loc' = [loc EXCEPT ![t].child = c],
               pc' = [pc EXCEPT ![t] = "start", ![c] = "tail"]
        PROVE  Changes(t)
    <3>1. c # t
      BY <2>2 DEF At, FreshPid
    <3>2. Joined(t, c) /\ \A u \in Pid \ {c} : life'[u] = life[u] /\ regs'[u] = regs[u]
      BY <2>2, <3>1 DEF Joined, At, CopyProcess, child, Locals
    <3> QED
      BY <3>2, MakeChanges
  <2> QED
    BY <1>2, <2>1, <2>2 DEF CloneThread
<1>3. CASE Fork(t)
  <2>1. PICK c \in Pid : At(t, "user") /\ FreshPid(c) /\ CopyProcess(c, t, c, t, "alive")
    BY <1>3 DEF Fork, UserMode
  <2>2. Joined(t, c) /\ \A u \in Pid \ {c} : life'[u] = life[u] /\ regs'[u] = regs[u]
    BY <2>1 DEF Joined, At, CopyProcess
  <2> QED
    BY <2>2, MakeChanges
<1>4. CASE Spawn(t)
  <2>1. PICK c \in Pid : At(t, "user") /\ FreshPid(c) /\ NewThread(c, t) /\ t \in Spawners
    BY <1>4 DEF Spawn, UserMode
  <2>2. Joined(t, c) /\ \A u \in Pid \ {c} : life'[u] = life[u] /\ regs'[u] = regs[u]
    BY <2>1 DEF Joined, At, NewThread
  <2> QED
    BY <2>2, MakeChanges
<1>5. CASE StartThread(t)
  <2>1. child(t) \in Pid /\ life[child(t)] = "new" /\ temp(t) \in Pid /\ At(t, "start")
        /\ pc'[t] = "loop" /\ pc'[child(t)] = pc[child(t)] /\ child(t) # t
    BY <1>5 DEF StartThread, Step, Goto, At, TableInv, Starting, Cursor
  <2>2. \A u \in Pid : /\ life'[u] = IF u = child(t) THEN "alive" ELSE life[u]
                       /\ regs'[u] = IF u = child(t) THEN regs[temp(t)] ELSE regs[u]
    BY <1>5, <2>1 DEF StartThread, WakeWithRegs
  <2>3. \A u \in Pid : ~Made(u) /\ (Started(t, u) <=> u = child(t))
    BY <2>1, <2>2 DEF Made, Started
  <2> QED
    BY <2>1, <2>2, <2>3 DEF Changes, At
<1>6. CASE Release(t)
  BY <1>6 DEF Release, ReleaseTask, Changes, Made, Started, At
<1>7. CASE Exit(t)
  BY <1>7 DEF Exit, TaskExit, Changes, Made, Started, At
<1>8. CASE Handler(t) /\ ~LeaderClone(t)
  BY <1>8, QuietChanges DEF Handler, TrackTgid, ScanThreads, KillStop, FullforkWait,
     WaitInterrupted, WaitFailed, Unhook, InitWaitQueue, WaitForClone, Continue,
     UntrackPid, UntrackTgid, kernel, taskVars
<1>9. CASE PullBack(t) /\ ~CloneThread(t) /\ ~StartThread(t)
  BY <1>9, QuietChanges DEF PullBack, EnterPullBack, TestClone, Claim, EndLoop, SkipExiting,
     DonePid, DoneTgid, WakeCaller, Unclaim, kernel, taskVars
<1>10. CASE Call(t) \/ DequeueStop(t) \/ GroupStop(t)
  BY <1>10, QuietChanges DEF Call, DequeueStop, GroupStop, kernel, taskVars
<1> QED
  BY <1>1, <1>2, <1>3, <1>4, <1>5, <1>6, <1>7, <1>8, <1>9, <1>10 DEF Kernel, Program

-----------------------------------------------------------------------------
LEMMA TaskOrder ==
  ASSUME TypeInv, TableInv, OrderInv, NEW t \in Pid, Footprint(t), Frame(t), Changes(t),
         At(t, "start") => life[temp(t)] # "free"
  PROVE  OrderInv'
<1> USE DEF OrderInv
<1>1. ASSUME NEW u \in Pid, life'[u] # "free"
      PROVE  life[u] # "free" \/ Made(u)
  BY <1>1 DEF Footprint, Untouched, Started, Moved, Ended
<1>2. PidsInOrder'
  <2> SUFFICES ASSUME NEW u \in Pid, life'[u] # "free", NEW v \in 1 .. u
               PROVE  life'[v] # "free"
    BY DEF PidsInOrder
  <2>1. v \in Pid /\ (v = u \/ v \in 1 .. u - 1)
    BY BootAssumption DEF Pid
  <2>2. CASE life[u] # "free"
    BY <2>1, <2>2 DEF PidsInOrder, Frame
  <2>3. CASE Made(u)
    BY <2>1, <2>3 DEF Changes, Joined, FreshPid, Frame
  <2> QED
    BY <1>1, <2>2, <2>3
<1>3. LeadFirst'
  <2> SUFFICES ASSUME NEW u \in Pid, life'[u] # "free" PROVE tgid'[u] =< u
    BY DEF LeadFirst
  <2>1. CASE life[u] # "free"
    BY <2>1 DEF LeadFirst, Frame
  <2>2. CASE Made(u)
    <3>1. CASE tgid'[u] = u
      BY <3>1 DEF Pid
    <3>2. CASE tgid'[u] = tgid[t] /\ life[t] = "alive"
      <4>1. life[tgid[t]] # "free" /\ tgid[t] \in Pid /\ life[u] = "free"
        BY <2>2, <3>2 DEF TableInv, LeadersTaken, TypeInv, Grouped, Made
      <4>2. ~(u < tgid[t])
        BY <4>1 DEF PidsInOrder, Pid
      <4> QED
        BY <3>2, <4>1, <4>2 DEF Pid
    <3> QED
      BY <2>2, <3>1, <3>2 DEF Changes, Joined
  <2> QED
    BY <1>1, <2>1, <2>2
<1>4. ContextsTaken'
  <2> SUFFICES ASSUME NEW u \in Pid, life'[u] # "free"
               PROVE  regs'[u] \in Pid /\ life'[regs'[u]] # "free"
    BY DEF ContextsTaken
  <2>1. ASSUME NEW v \in Pid, life[v] # "free", regs'[u] = regs[v]
        PROVE  regs'[u] \in Pid /\ life'[regs'[u]] # "free"
    BY <2>1 DEF ContextsTaken, Frame
  <2>2. CASE life[u] # "free"
    <3>1. CASE Started(t, u) /\ regs'[u] = regs[temp(t)]
      BY <3>1, <2>1 DEF Started, At, TypeInv, Cursor
    <3> QED
      BY <2>1, <2>2, <3>1 DEF Changes
  <2>3. CASE Made(u)
    <3>1. regs'[u] \in {u, regs[t]} /\ life[t] = "alive"
      BY <2>3 DEF Changes, Joined
    <3> QED
      BY <2>1, <3>1
  <2> QED
    BY <1>1, <2>2, <2>3
<1> QED
  BY <1>2, <1>3, <1>4

-----------------------------------------------------------------------------
(* What the lemmas below need to know of a step of t.                      *)
Facts(t) == /\ Footprint(t) /\ Frame(t) /\ Joins(t) /\ Kin(t) /\ Local(t) /\ Changes(t)
            /\ ff'.error_check = 0 => ff.error_check = 0

LEMMA TaskFacts ==
  ASSUME Disciplined, DisciplineInv, NEW t \in Pid,
         Handler(t) \/ PullBack(t) \/ Kernel(t) \/ Program(t)
  PROVE  Facts(t)
<1>1. ff'.error_check = 0 => ff.error_check = 0
  <2>1. CASE Handler(t)
    BY <2>1 DEF Handler, TrackTgid, ScanThreads, KillStop, FullforkWait, WaitInterrupted,
       WaitFailed, Unhook, InitWaitQueue, LeaderClone, WaitForClone, Continue, UntrackPid,
       UntrackTgid, DisciplineInv, ExclusiveInv, TypeInv, TypeOK, Globals
  <2>2. CASE PullBack(t)
    BY <2>2 DEF PullBack, EnterPullBack, TestClone, Claim, EndLoop, SkipExiting, CloneThread,
       StartThread, DonePid, DoneTgid, WakeCaller, Unclaim, DisciplineInv, ExclusiveInv,
       TypeInv, TypeOK, Globals
  <2>3. CASE Kernel(t) \/ Program(t)
    BY <2>3 DEF Kernel, DequeueStop, GroupStop, Release, Program, Call, Exit, Fork, Spawn,
       DisciplineInv, ExclusiveInv, TypeInv, TypeOK, Globals
  <2> QED
    BY <2>1, <2>2, <2>3
<1> QED
  BY <1>1, TaskFootprint, TaskKin, TaskLocal, TaskChanges DEF Facts, DisciplineInv,
     ExclusiveInv

(* Who joins a process that has been made is not of a process that was     *)
(* there at first.                                                         *)
LEMMA BootedApart ==
  ASSUME Settled, NEW c \in Pid, Boot[c] = Outside, NEW t \in Pid, tgid[t] = c
  PROVE  Boot[t] = Outside
BY BootAssumption DEF Settled

LEMMA CallerOfBuilder ==
  ASSUME DisciplineInv, CopyInv, NEW c \in Pid, Builds(c), Leads(c)
  PROVE  \E t \in Pid : CallOf(t, c) /\ Awaits(t) /\ Copying(t, c)
<1>1. PICK t \in Pid : CallOf(t, c)
  BY DEF DisciplineInv, BuilderInv, BuildsForCall, Engaged
<1>2. Awaits(t) /\ child(t) = c
  BY <1>1 DEF CallOf, Awaits, Pid, Outside
<1> QED
  BY <1>1, <1>2 DEF CopyInv

(* Who awaits a clone is alone in the handler, and its process is frozen.  *)
LEMMA AwaitsFrozen ==
  ASSUME DisciplineInv, NEW w \in Pid, Awaits(w)
  PROVE  /\ pc[w] \notin {"user", "tail", "start", "loop", "claim", "done_pid"} /\ InHandler(w)
         /\ life[w] = "alive" /\ Still(w) /\ \A t \in Pid : InHandler(t) => t = w
         /\ ~AllOut
<1>1. pc[w] \in FrozenPC /\ InHandler(w)
  BY DEF Awaits, WaitingPC, FrozenPC, PastPC, InHandler, HandlerPC
<1>2. pc[w] \notin {"user", "tail", "start", "loop", "claim", "done_pid"}
  BY DEF Awaits, WaitingPC
<1> QED
  BY <1>1, <1>2 DEF DisciplineInv, ExclusiveInv, FreezeInv, Whole, Holds, KinInv, Serial,
     TableInv, Present, AllOut

(* No thread of the clone is at work while the clone is.                   *)
LEMMA AloneAtWork ==
  ASSUME DisciplineInv, NEW w \in Pid, NEW c \in Pid, CallOf(w, c),
         NEW d \in Pid \ {c}, tgid[d] = c
  PROVE  ~Working(d)
BY DEF CallOf, DisciplineInv, BuilderInv, LateUntracked, Leads, Pid

LEMMA NoNewOriginal ==
  ASSUME BaseInv, NEW w \in Pid, InHandler(w), NEW u \in Pid, tgid[u] = tgid[w]
  PROVE  life[u] # "new"
<1> SUFFICES ASSUME life[u] = "new" PROVE FALSE
  OBVIOUS
<1>1. PICK d \in Pid : pc[d] = "start" /\ child(d) = u
  BY DEF BaseInv, NoOrphanThread, At
<1>2. tgid[d] = tgid[w]
  BY <1>1 DEF BaseInv, Pointing
<1> QED
  BY <1>1, <1>2 DEF BaseInv, Aside, Joining, BuildersPC, BuildPC

LEMMA OriginalsKept ==
  ASSUME BaseInv, NEW t \in Pid, Facts(t), NEW w \in Pid, Awaits(w)
  PROVE  /\ tgid[w] = w /\ tgid'[w] = w /\ Threads(w)' = Threads(w)
         /\ w \in Threads(w) /\ Threads(w) \subseteq Pid
         /\ \A u \in Threads(w) : /\ regs'[u] = regs[u] /\ life'[u] = "alive" /\ tgid'[u] = w
                                  /\ tgid[u] = w /\ life[u] = "alive"
<1> USE AwaitsFrozen DEF Facts, BaseInv
<1>0. life[w] = "alive" /\ tgid'[w] = w /\ tgid[w] = w
  BY DEF Frame, Awaits
<1>1. ASSUME NEW u \in Pid, u \in Threads(w)
      PROVE  /\ u \in Threads(w)' /\ regs'[u] = regs[u] /\ life'[u] = "alive" /\ tgid'[u] = w
             /\ tgid[u] = w /\ life[u] = "alive"
  <2>1. tgid[u] = w /\ life[u] = "alive"
    BY <1>0, <1>1, NoNewOriginal DEF Threads, Group, Exiting
  <2>2. regs'[u] = regs[u] /\ tgid'[u] = w /\ ~Started(t, u)
    BY <2>1 DEF Changes, Frame, Started
  <2>3. life'[u] = "alive"
    <3>1. CASE u # t
      BY <2>1, <3>1 DEF Frame
    <3>2. CASE u = t
      <4> SUFFICES ASSUME life'[t] # life[t] PROVE FALSE
        BY <2>1, <3>2
      <4>1. jobctl[t] # "stopped" /\ Ended(t)
        BY <2>1, <3>2 DEF Changes, Footprint, Moved
      <4>2. t \in Siblings(w)
        BY <1>0, <2>1, <3>2, <4>1 DEF Siblings, Group, Ended
      <4> QED
        BY <2>1, <3>2, <4>1, <4>2 DEF Still, Exiting
    <3> QED
      BY <3>1, <3>2
  <2> QED
    BY <2>1, <2>2, <2>3 DEF Threads, Group, Exiting
<1>2. ASSUME NEW u \in Pid, u \in Threads(w)' PROVE u \in Threads(w)
  <2>1. tgid'[u] = w /\ life'[u] \in {"new", "alive"}
    BY <1>2 DEF Threads, Group, Exiting
  <2>2. CASE life[u] = "free"
    <3>1. CASE tgid'[u] = u
      BY <1>0, <2>1, <2>2, <3>1
    <3>2. CASE tgid'[u] = tgid[t] /\ life[t] = "alive" /\ ~SignalPending(t) /\ ~InHandler(t)
      <4>1. t \in Siblings(w)
        BY <1>0, <2>1, <3>2 DEF Siblings, Group
      <4> QED
        BY <3>2, <4>1 DEF Still, Exiting, SignalPending
    <3> QED
      BY <2>1, <2>2, <3>1, <3>2 DEF Joins
  <2>3. CASE life[u] # "free"
    <3>1. tgid[u] = w
      BY <2>1, <2>3 DEF Frame
    <3>2. life[u] \in {"new", "alive"}
      BY <2>1, <2>3 DEF Footprint, Untouched, Made, Started, Moved, Ended
    <3> QED
      BY <3>1, <3>2 DEF Threads, Group, Exiting
  <2> QED
    BY <2>2, <2>3
<1>3. Threads(w) \subseteq Pid /\ Threads(w)' \subseteq Pid /\ w \in Threads(w)
  BY <1>0 DEF Threads, Group, Exiting
<1> QED
  BY <1>0, <1>1, <1>2, <1>3

-----------------------------------------------------------------------------
(* Where a step leaves the task that takes it in the loop of my_pull_back. *)
LEMMA LoopSteps ==
  ASSUME DisciplineInv, NEW t \in Pid, pc'[t] \in {"loop", "start"},
         Handler(t) \/ PullBack(t) \/ Kernel(t) \/ Program(t)
  PROVE  \/ /\ Claim(t) /\ pc[t] = "claim" /\ pc'[t] = "loop" /\ UNCHANGED taskVars
            /\ loc'[t].parent_task = real_parent[t]
            /\ \E u \in Pid : temp(t)' = u /\ IsNext(real_parent[t], u)
         \/ /\ SkipExiting(t) \/ StartThread(t)
            /\ pc[t] \in {"loop", "start"} /\ pc'[t] = "loop" /\ UNCHANGED tgid
            /\ loc'[t].parent_task = loc[t].parent_task
            /\ \E u \in Pid : temp(t)' = u /\ IsNext(temp(t), u)
         \/ /\ CloneThread(t) /\ pc[t] = "loop" /\ pc'[t] = "start"
            /\ loc'[t].parent_task = loc[t].parent_task /\ temp(t)' = temp(t)
            /\ temp(t) # loc[t].parent_task /\ ~Exiting(temp(t))
            /\ \E n \in Pid : child(t)' = n /\ tgid'[n] = tgid[t] /\ life[n] = "free"
<1> USE DEF DisciplineInv, ExclusiveInv, TypeInv, TypeOK, TaskTypeOK
<1>1. CASE Handler(t)
  <2>1. CASE LeaderClone(t)
    BY <2>1 DEF LeaderClone, Step, At, Goto, FreshPid
  <2>2. CASE ~LeaderClone(t)
    BY <1>1, <2>2 DEF Handler, TrackTgid, ScanThreads, KillStop, FullforkWait,
       WaitInterrupted, WaitFailed, Unhook, InitWaitQueue, WaitForClone, Continue,
       UntrackPid, UntrackTgid, Step, At, Goto
  <2> QED
    BY <2>1, <2>2
<1>2. CASE Kernel(t) \/ Program(t)
  BY <1>2, UserGoesTo
<1>3. CASE Claim(t)
  <2>1. PICK u \in Pid : /\ IsNext(real_parent[t], u)
                         /\ loc' = [loc EXCEPT ![t].temp = u,
                                               ![t].parent_task = real_parent[t]]
    BY <1>3 DEF Claim
  <2>2. temp(t)' = u /\ loc'[t].parent_task = real_parent[t]
    BY <2>1 DEF temp, Locals
  <2> QED
    BY <1>3, <2>1, <2>2 DEF Claim, Step, At, Goto, kernel
<1>4. CASE SkipExiting(t) \/ StartThread(t)
  <2>1. PICK u \in Pid : IsNext(temp(t), u) /\ loc' = [loc EXCEPT ![t].temp = u]
    BY <1>4 DEF SkipExiting, StartThread, Advance
  <2>2. temp(t)' = u /\ loc'[t].parent_task = loc[t].parent_task
    BY <2>1 DEF temp, Locals
  <2>3. pc[t] \in {"loop", "start"} /\ pc'[t] = "loop" /\ UNCHANGED tgid
    BY <1>4 DEF SkipExiting, StartThread, WakeWithRegs, Step, At, Goto, kernel, taskVars
  <2> QED
    BY <1>4, <2>1, <2>2, <2>3
<1>5. CASE CloneThread(t)
  <2>1. At(t, "loop") /\ temp(t) # loc[t].parent_task /\ ~Exiting(temp(t))
    BY <1>5 DEF CloneThread
  <2>2. CASE Step(t, "loop", "done_pid")
    BY <2>2 DEF Step, Goto
  <2>3. ASSUME NEW n \in Pid, FreshPid(n),
               CopyProcess(n, t, tgid[t], real_parent[t], "new"),
               loc' = [loc EXCEPT ![t].child = n],
               pc' = [pc EXCEPT ![t] = "start", ![n] = "tail"]
        PROVE  /\ pc'[t] = "start" /\ child(t)' = n /\ tgid'[n] = tgid[t] /\ life[n] = "free"
               /\ loc'[t].parent_task = loc[t].parent_task /\ temp(t)' = temp(t)
    <3>1. n # t /\ life[n] = "free"
      BY <2>1, <2>3 DEF At, FreshPid
    <3>2. child(t)' = n /\ loc'[t].parent_task = loc[t].parent_task /\ temp(t)' = temp(t)
      BY <2>3 DEF child, temp, Locals
    <3> QED
      BY <2>3, <3>1, <3>2 DEF CopyProcess
  <2> QED
    BY <1>5, <2>1, <2>2, <2>3 DEF CloneThread, At
<1>6. CASE PullBack(t) /\ ~Claim(t) /\ ~SkipExiting(t) /\ ~StartThread(t) /\ ~CloneThread(t)
  BY <1>6 DEF PullBack, EnterPullBack, TestClone, EndLoop, DonePid, DoneTgid, WakeCaller,
     Unclaim, Step, At, Goto
<1> QED
  BY <1>1, <1>2, <1>3, <1>4, <1>5, <1>6

LEMMA TaskPointing ==
  ASSUME BaseInv, NEW t \in Pid, Footprint(t), Frame(t),
         Handler(t) \/ PullBack(t) \/ Kernel(t) \/ Program(t)
  PROVE  Pointing'
<1> USE DEF BaseInv, DisciplineInv, ExclusiveInv, TypeInv, TypeOK
<1>1. ASSUME NEW d \in Pid \ {t}, pc'[d] \in {"loop", "start"}
      PROVE  /\ life'[temp(d)'] # "free"
             /\ pc'[d] = "start" => tgid'[child(d)'] = tgid'[d]
  <2>1. pc[d] = pc'[d]
    BY <1>1 DEF Footprint, Untouched, Made, Started, Woken
  <2>2. life[d] = "alive"
    BY <1>1, <2>1 DEF TableInv, Present
  <2>3. loc'[d] = loc[d] /\ tgid'[d] = tgid[d]
    BY <2>2 DEF Frame
  <2>4. temp(d)' = temp(d) /\ child(d)' = child(d) /\ temp(d) \in Pid
    BY <1>1, <2>1, <2>3 DEF temp, child, Cursor
  <2>5. life'[temp(d)] # "free"
    BY <1>1, <2>1, <2>4 DEF Pointing, Frame
  <2>6. ASSUME pc'[d] = "start" PROVE tgid'[child(d)] = tgid[d]
    <3>1. child(d) \in Pid /\ life[child(d)] = "new" /\ tgid[child(d)] = tgid[d]
      BY <2>1, <2>6 DEF Cursor, TableInv, Starting, Pointing
    <3> QED
      BY <3>1 DEF Frame
  <2> QED
    BY <2>3, <2>4, <2>5, <2>6
<1>2. ASSUME pc'[t] \in {"loop", "start"}
      PROVE  /\ life'[temp(t)'] # "free"
             /\ pc'[t] = "start" => tgid'[child(t)'] = tgid'[t]
  <2>1. ASSUME NEW p, NEW u \in Pid, temp(t)' = u, IsNext(p, u)
        PROVE  life'[temp(t)'] # "free"
    <3>1. life[u] # "free"
      BY <2>1 DEF IsNext, Group
    <3> QED
      BY <2>1, <3>1 DEF Frame
  <2>2. CASE CloneThread(t) /\ pc[t] = "loop"
    <3>1. /\ temp(t)' = temp(t) /\ temp(t) \in Pid /\ life[temp(t)] # "free"
          /\ life[t] = "alive"
          /\ pc'[t] = "start" => \E n \in Pid : child(t)' = n /\ tgid'[n] = tgid[t]
      BY <1>2, <2>2, LoopSteps DEF Pointing, Cursor, TableInv, Present, Claim, Step, At,
         SkipExiting, StartThread, CloneThread, Goto
    <3> QED
      BY <3>1 DEF Frame
  <2> QED
    BY <1>2, <2>1, <2>2, LoopSteps
<1> QED
  BY <1>1, <1>2 DEF Pointing

(* Nobody sets out to join the process of a caller.                        *)
LEMMA TaskAside ==
  ASSUME Disciplined, BaseInv, NEW t \in Pid, Facts(t),
         Handler(t) \/ PullBack(t) \/ Kernel(t) \/ Program(t)
  PROVE  Aside'
<1> USE DEF BaseInv, Facts
<1> SUFFICES ASSUME NEW w \in Pid, NEW d \in Pid, InHandler(w)', tgid'[d] = tgid'[w],
                    Joining(d)'
             PROVE  FALSE
  BY DEF Aside
<1>0. life[w] # "free" /\ tgid'[w] = tgid[w] /\ (InHandler(w) \/ (w = t /\ Call(t)))
  <2>1. CASE w = t
    BY <2>1 DEF Footprint, Moved, Ended, Frame
  <2>2. CASE w # t
    <3>1. InHandler(w)
      BY <2>2 DEF Footprint, Untouched, Made, Started, Woken, InHandler, HandlerPC
    <3> QED
      BY <3>1 DEF DisciplineInv, ExclusiveInv, TableInv, Present, InHandler, HandlerPC, Frame
  <2> QED
    BY <2>1, <2>2
<1>1. CASE Made(d)
  <2>1. life[d] = "free" /\ pc'[d] = "tail"
    BY <1>1 DEF Made
  <2>2. PPid(d)' # Outside
    BY <2>1 DEF Joining, BuildersPC, BuildPC, DonePC
  <2>3. tgid'[d] # d
    BY <1>0, <2>1 DEF DisciplineInv, ExclusiveInv, TableInv, LeadersTaken
  <2>4. pc[t] = "loop" /\ tgid[t] = tgid[w]
    BY <1>0, <1>1, <2>2, <2>3, TaskMakes
  <2>5. InHandler(w)
    BY <1>0, <2>4 DEF Call, UserMode, At
  <2> QED
    BY <2>4, <2>5 DEF Aside, Joining, BuildersPC, BuildPC
<1>2. CASE ~Made(d)
  <2>1. Joining(d) /\ life[d] # "free"
    <3>1. CASE pc'[d] \in {"tail_flag"} \cup BuildersPC
      <4>1. \/ pc[d] \in {"tail_flag"} \cup BuildersPC
            \/ pc[d] = "tail" /\ PPid(d) = ff.tracked_pid
        BY <3>1, TaskBuilds DEF DisciplineInv
      <4>2. PPid(d) = ff.tracked_pid => PPid(d) # Outside
        BY PPidType, WorkloadAssumption DEF DisciplineInv, ExclusiveInv, BuilderInv, Tracked,
           Pid, Outside
      <4> QED
        BY <4>1, <4>2 DEF Joining, DisciplineInv, ExclusiveInv, TableInv, Present, BuildersPC,
           BuildPC, DonePC
    <3>2. CASE pc'[d] = "tail" /\ PPid(d)' # Outside
      <4>1. pc[d] = "tail"
        BY <1>2, <3>2 DEF Footprint, Untouched, Started, Woken, Local, GoesOn
      <4>2. life[d] # "free"
        BY <4>1 DEF DisciplineInv, ExclusiveInv, TableInv, Present
      <4>3. PPid(d)' = PPid(d)
        BY <4>2, PPidKept DEF DisciplineInv, ExclusiveInv
      <4> QED
        BY <3>2, <4>1, <4>2, <4>3 DEF Joining
    <3> QED
      BY <3>1, <3>2 DEF Joining
  <2>2. tgid'[d] = tgid[d]
    BY <2>1 DEF Frame
  <2>3. CASE InHandler(w)
    BY <1>0, <2>1, <2>2, <2>3 DEF Aside
  <2>4. CASE Call(t)
    <3>1. AllOut
      BY <2>4 DEF Call, Disciplined, AllOut
    <3> QED
      BY <2>1, <3>1 DEF AllOut, Joining, BuildersPC, BuildPC, DonePC
  <2> QED
    BY <1>0, <2>3, <2>4
<1> QED
  BY <1>1, <1>2

(* The threads of a copy stay with it, and those that a step adds, or      *)
(* wakes, are copied from threads of the caller's process.                 *)
LEMMA MembersKept ==
  ASSUME Disciplined, BaseInv, NEW t \in Pid, Facts(t),
         NEW w \in Pid, Awaits(w), NEW c \in Pid, Copying(w, c)
  PROVE  /\ \A n \in Pid : tgid'[n] = c /\ life'[n] # "free" =>
              real_parent'[n] = w /\ \E u \in Threads(w)' : regs'[n] = regs'[u]
         /\ Copies(c) \subseteq Copies(c)' /\ Copies(c) \subseteq Pid
         /\ \A n \in Copies(c) : regs'[n] = regs[n]
<1> USE AwaitsFrozen DEF Facts, BaseInv
<1>0. Boot[t] # Outside => tgid[t] # c
  BY BootedApart DEF DisciplineInv, ExclusiveInv, Copying
<1>1. ASSUME NEW n \in Pid, life[n] = "free", life'[n] # "free", tgid'[n] = c
      PROVE  /\ tgid[t] = c /\ life[t] # "free"
             /\ regs'[n] = regs[t] /\ real_parent'[n] = real_parent[t]
  <2>1. Made(n)
    BY <1>1 DEF Footprint, Untouched, Started, Moved, Ended
  <2>2. c # n
    BY <1>1 DEF Copying, Woke
  <2> QED
    BY <1>0, <1>1, <2>1, <2>2 DEF Changes, Joined, Disciplined
<1>2. ASSUME NEW n \in Pid, tgid[n] = c, life[n] # "free"
      PROVE  /\ real_parent'[n] = w
             /\ \E u \in Threads(w) : regs'[n] = regs[u]
  <2>1. real_parent[n] = w /\ \E u \in Threads(w) : regs[n] = regs[u]
    BY <1>2 DEF Copying
  <2>2. real_parent'[n] = w
    BY <1>2, <2>1 DEF Kin
  <2>3. CASE Started(t, n) /\ regs'[n] = regs[temp(t)]
    <3>1. pc[t] = "start" /\ life[t] = "alive" /\ tgid[t] = c /\ temp(t) \in Pid
      BY <1>2, <2>3 DEF Started, At, Pointing, DisciplineInv, ExclusiveInv, TypeInv, Cursor
    <3>2. LoopInv(w, t) /\ life[temp(t)] # "free"
      BY <3>1 DEF Copying, Pointing
    <3>3. temp(t) \in Threads(w)
      BY <3>1, <3>2, NoNewOriginal DEF LoopInv, Threads, Group, Exiting, Awaits,
         DisciplineInv, ExclusiveInv, TypeInv, TypeOK, TaskTypeOK
    <3> QED
      BY <2>2, <2>3, <3>3
  <2> QED
    BY <1>2, <2>1, <2>2, <2>3 DEF Changes
<1>3. ASSUME NEW n \in Pid, tgid'[n] = c, life'[n] # "free"
      PROVE  real_parent'[n] = w /\ \E u \in Threads(w)' : regs'[n] = regs'[u]
  <2>1. real_parent'[n] = w /\ \E u \in Threads(w) : regs'[n] = regs[u]
    <3>1. CASE life[n] = "free"
      BY <1>1, <1>3, <3>1 DEF Copying
    <3>2. CASE life[n] # "free"
      BY <1>2, <1>3, <3>2 DEF Frame
    <3> QED
      BY <3>1, <3>2
  <2>2. Threads(w)' = Threads(w) /\ \A u \in Threads(w) : regs'[u] = regs[u]
    BY OriginalsKept
  <2> QED
    BY <2>1, <2>2
<1>4. ASSUME NEW n \in Pid, n # c, tgid[n] = c, Woke(n)
      PROVE  tgid'[n] = c /\ Woke(n)' /\ regs'[n] = regs[n]
  <2>1. life[n] # "free" /\ life[n] # "new"
    BY <1>4 DEF Woke
  <2>2. tgid'[n] = c /\ life'[n] # "free"
    BY <1>4, <2>1 DEF Frame
  <2>3. life'[n] # "new"
    BY <2>1 DEF Footprint, Untouched, Made, Started, Moved, Ended
  <2>4. regs'[n] = regs[n]
    BY <2>1 DEF Changes, Started
  <2> QED
    BY <2>2, <2>3, <2>4 DEF Woke
<1>5. Copies(c) \subseteq Copies(c)' /\ \A n \in Copies(c) : regs'[n] = regs[n]
  BY <1>4 DEF Copies
<1> QED
  BY <1>3, <1>5 DEF Copies

(* The loop variables of every thread of the copy.                         *)
LEMMA LoopKept ==
  ASSUME BaseInv, NEW t \in Pid, Facts(t),
         Handler(t) \/ PullBack(t) \/ Kernel(t) \/ Program(t),
         NEW w \in Pid, Awaits(w), NEW c \in Pid, Copying(w, c),
         NEW n \in Pid, tgid'[n] = c, life'[n] # "free"
  PROVE  LoopInv(w, n)'
<1> USE AwaitsFrozen DEF Facts, BaseInv
<1> SUFFICES ASSUME pc'[n] \in {"loop", "start"} PROVE LoopInv(w, n)'
  BY DEF LoopInv
<1>0. /\ \A u \in Threads(w) : u \in Pid /\ tgid'[u] = w /\ ~Exiting(u)'
      /\ tgid[w] = w
  BY OriginalsKept DEF Exiting
<1>1. CASE n # t
  <2>1. pc[n] = pc'[n]
    BY <1>1 DEF Footprint, Untouched, Made, Started, Woken
  <2>2. life[n] = "alive"
    BY <2>1 DEF DisciplineInv, ExclusiveInv, TableInv, Present
  <2>3. loc'[n] = loc[n] /\ tgid[n] = c /\ temp(n)' = temp(n) /\ temp(n) \in Pid
    BY <1>1, <2>1, <2>2 DEF Frame, temp, DisciplineInv, ExclusiveInv, TypeInv, Cursor
  <2>4. LoopInv(w, n) /\ life[temp(n)] # "free"
    BY <2>1, <2>2, <2>3 DEF Copying, Pointing
  <2>5. tgid'[temp(n)] = w
    BY <2>1, <2>3, <2>4 DEF LoopInv, Frame
  <2>6. pc[n] = "start" => temp(n) \in Threads(w)
    BY <2>3, <2>4, NoNewOriginal, <1>0 DEF LoopInv, Threads, Group, Exiting,
       DisciplineInv, ExclusiveInv, TypeInv, TypeOK, TaskTypeOK
  <2>7. pc[n] = "start" => ~Exiting(temp(n))'
    BY <1>0, <2>3, <2>6 DEF Exiting
  <2> QED
    BY <2>1, <2>3, <2>4, <2>5, <2>7 DEF LoopInv
<1>2. CASE n = t
  <2>1. life[t] = "alive" /\ tgid[t] = c
    BY <1>2, LoopSteps DEF Claim, SkipExiting, StartThread, CloneThread, Step, At, Frame
  <2>2. LoopInv(w, t) /\ real_parent[t] = w
    BY <2>1 DEF Copying
  <2>3. ASSUME NEW p \in Pid, tgid[p] = w, NEW u \in Pid, temp(t)' = u, IsNext(p, u)
        PROVE  tgid'[temp(t)'] = w
    <3>1. tgid[u] = w /\ life[u] # "free"
      BY <2>3 DEF IsNext, Group
    <3> QED
      BY <2>3, <3>1 DEF Frame
  <2>4. CASE Claim(t) /\ pc'[t] = "loop"
    <3>1. PICK u \in Pid : temp(t)' = u /\ IsNext(w, u) /\ loc'[t].parent_task = w
      BY <2>2, <2>4, LoopSteps DEF Claim, SkipExiting, StartThread, CloneThread, Step, At
    <3> QED
      BY <1>0, <1>2, <2>3, <2>4, <3>1 DEF LoopInv
  <2>5. CASE (SkipExiting(t) \/ StartThread(t)) /\ pc[t] \in {"loop", "start"}
             /\ pc'[t] = "loop"
    <3>1. temp(t) \in Pid /\ tgid[temp(t)] = w /\ loc[t].parent_task = w
      BY <2>2, <2>5 DEF LoopInv, DisciplineInv, ExclusiveInv, TypeInv, Cursor
    <3>2. PICK u \in Pid : temp(t)' = u /\ IsNext(temp(t), u) /\ loc'[t].parent_task = w
      BY <3>1, <2>5, LoopSteps DEF Claim, SkipExiting, StartThread, CloneThread, Step, At
    <3> QED
      BY <1>2, <2>3, <2>5, <3>1, <3>2 DEF LoopInv
  <2>6. CASE CloneThread(t) /\ pc[t] = "loop" /\ pc'[t] = "start"
    <3>1. /\ loc'[t].parent_task = w /\ temp(t)' = temp(t) /\ temp(t) # w
          /\ temp(t) \in Pid /\ tgid[temp(t)] = w /\ ~Exiting(temp(t))
          /\ life[temp(t)] # "free"
      BY <2>2, <2>6, LoopSteps DEF LoopInv, Pointing, DisciplineInv, ExclusiveInv, TypeInv,
         Cursor, Claim, SkipExiting, StartThread, Step, At
    <3>2. temp(t) \in Threads(w)
      BY <3>1, NoNewOriginal, <1>0 DEF Threads, Group, Exiting, DisciplineInv, ExclusiveInv,
         TypeInv, TypeOK, TaskTypeOK
    <3>3. tgid'[temp(t)] = w /\ ~Exiting(temp(t))'
      BY <1>0, <3>1, <3>2 DEF Exiting
    <3> QED
      BY <1>2, <2>6, <3>1, <3>3 DEF LoopInv
  <2> QED
    BY <1>2, <2>4, <2>5, <2>6, LoopSteps
<1> QED
  BY <1>1, <1>2

(* What of Copying is kept whatever the step is.                           *)
LEMMA CopyBase ==
  ASSUME Disciplined, BaseInv, NEW t \in Pid, Facts(t),
         NEW w \in Pid, Awaits(w), NEW c \in Pid, Copying(w, c), child(w) = c,
         t = w => ff'.tracked_pid = ff.tracked_pid, t # c => pc'[c] = pc[c]
  PROVE  /\ tgid'[w] = w /\ tgid'[c] = c /\ Woke(c)' /\ regs'[c] = regs'[w]
         /\ AtWork(c)' => CallOf(w, c)'
<1> USE AwaitsFrozen DEF Facts, BaseInv
<1>1. tgid'[w] = w /\ regs'[w] = regs[w]
  BY OriginalsKept
<1>2. tgid'[c] = c /\ Woke(c)' /\ regs'[c] = regs[c] /\ tgid[c] = c
  BY DEF Copying, Woke, Frame, Footprint, Untouched, Made, Started, Moved, Ended, Changes
<1>3. AtWork(c)' => CallOf(w, c)'
  <2> SUFFICES ASSUME AtWork(c)' PROVE CallOf(w, c)'
    OBVIOUS
  <2>1. CallOf(w, c)
    <3>1. CASE t # c
      BY <3>1 DEF AtWork, Builds, Building, Copying
    <3>2. CASE t = c
      <4>1. Engaged(t)'
        BY <1>2, <3>2 DEF AtWork, Engaged, Leads, TailPC, Local, GoesOn
      <4>2. PICK u \in Pid : CallOf(u, t)
        BY <4>1 DEF Local, GoesOn
      <4>3. u = w
        BY <4>2 DEF CallOf, WaitingPC, InHandler, HandlerPC
      <4> QED
        BY <3>2, <4>2, <4>3
    <3> QED
      BY <3>1, <3>2
  <2>2. ff'.tracked_pid = ff.tracked_pid
    <3> SUFFICES ASSUME ff'.tracked_pid # ff.tracked_pid PROVE FALSE
      OBVIOUS
    <3>1. t # w /\ ff.tracked_pid = w /\ pc[w] \in WaitingPC
      BY <2>1 DEF CallOf
    <3>2. ff'.tracked_pid = -1 /\ ff.tracked_pid # -1
      BY <3>1 DEF Local, IdsMove, Pid
    <3>3. child(w) = t /\ pc'[t] \in LatePC
      BY <3>1, <3>2 DEF Local, IdsMove
    <3> QED
      BY <3>3 DEF AtWork, Builds, Building, BuildPC, LatePC, TailPC
  <2> QED
    BY <2>1, <2>2, CallKept DEF DisciplineInv, ExclusiveInv
<1> QED
  BY <1>1, <1>2, <1>3 DEF Copying

(* The copy as a step leaves it that neither adds to it nor wakes of it.   *)
CloneStill(c) ==
  /\ Copies(c)' \subseteq Copies(c)
  /\ \A n \in Pid : tgid'[n] = c /\ life'[n] = "new" => tgid[n] = c /\ life[n] = "new"

LEMMA CloneAtRest ==
  ASSUME Disciplined, BaseInv, NEW t \in Pid, Facts(t), NEW c \in Pid, Boot[c] = Outside,
         life[c] # "free", tgid[t] = c => pc[t] # "start" /\ pc'[t] # "start"
  PROVE  CloneStill(c)
<1> USE DEF Facts, BaseInv
<1>0. Boot[t] # Outside => tgid[t] # c
  BY BootedApart DEF DisciplineInv, ExclusiveInv
<1>1. ASSUME NEW n \in Pid, tgid'[n] = c, life'[n] # "free"
      PROVE  tgid[n] = c /\ life[n] # "free" /\ ~Made(n) /\ ~Started(t, n)
  <2>1. ~Made(n)
    <3> SUFFICES ASSUME Made(n) PROVE FALSE
      OBVIOUS
    <3>1. tgid'[n] # n
      BY <1>1 DEF Made
    <3> QED
      BY <1>0, <1>1, <3>1 DEF Changes, Joined, Disciplined
  <2>2. life[n] # "free"
    BY <1>1, <2>1 DEF Footprint, Untouched, Started, Moved, Ended
  <2>3. tgid[n] = c
    BY <1>1, <2>2 DEF Frame
  <2>4. ~Started(t, n)
    BY <2>3 DEF Started, At, Pointing
  <2> QED
    BY <2>1, <2>2, <2>3, <2>4
<1>2. ASSUME NEW n \in Pid, tgid'[n] = c, life'[n] # "free"
      PROVE  /\ life'[n] = "new" => life[n] = "new"
             /\ Woke(n)' => Woke(n)
  BY <1>1, <1>2 DEF Footprint, Untouched, Moved, Ended, Woke
<1>3. Copies(c)' \subseteq Copies(c)
  BY <1>1, <1>2 DEF Copies, Woke
<1> QED
  BY <1>1, <1>2, <1>3 DEF CloneStill

(* What a step makes of a copy that, if the clone is still at work, it does*)
(* not add to.                                                             *)
LEMMA CopyOnward ==
  ASSUME Disciplined, BaseInv, NEW t \in Pid, Facts(t),
         Handler(t) \/ PullBack(t) \/ Kernel(t) \/ Program(t),
         NEW w \in Pid, Awaits(w), NEW c \in Pid, Copying(w, c), child(w) = c,
         t = w => ff'.tracked_pid = ff.tracked_pid, t # c => pc'[c] = pc[c],
         AtWork(c)' => /\ AtWork(c) /\ CloneStill(c)
                       /\ pc[c] = "start" => pc'[c] = "start" /\ child(c)' = child(c),
         Copied(w, c) \subseteq Copied(w, c)',
         Complete(w, c)' => /\ Complete(w, c) \/ Copied(w, c)' = {}
                            /\ Copied(w, c)' \subseteq Copied(w, c)
  PROVE  Copying(w, c)'
<1>1. /\ Threads(w)' = Threads(w) /\ \A u \in Threads(w) : regs'[u] = regs[u]
      /\ Copied(w, c) \subseteq Threads(w)
  BY OriginalsKept DEF Copied, Visited
<1>2. /\ Copies(c) \subseteq Copies(c)' /\ \A n \in Copies(c) : regs'[n] = regs[n]
      /\ \A n \in Pid : tgid'[n] = c /\ life'[n] # "free" =>
           real_parent'[n] = w /\ \E u \in Threads(w)' : regs'[n] = regs'[u]
  BY MembersKept
<1>3. \A n \in Pid : tgid'[n] = c /\ life'[n] # "free" => LoopInv(w, n)'
  BY LoopKept
<1>4. ASSUME AtWork(c)', NEW n \in Pid, tgid'[n] = c, life'[n] = "new"
      PROVE  pc'[c] = "start" /\ child(c)' = n
  BY <1>4 DEF CloneStill, Copying
<1>5. ASSUME AtWork(c)', NEW n \in Copies(c)'
      PROVE  \E u \in Copied(w, c)' : regs'[n] = regs'[u]
  <2>1. n \in Copies(c)
    BY <1>5 DEF CloneStill
  <2>2. PICK u \in Copied(w, c) : regs[n] = regs[u]
    BY <1>5, <2>1 DEF Copying
  <2> QED
    BY <1>1, <1>2, <2>1, <2>2
<1>6. ASSUME Complete(w, c)', NEW u \in Copied(w, c)'
      PROVE  \E n \in Copies(c)' : regs'[n] = regs'[u]
  <2>1. u \in Copied(w, c) /\ Complete(w, c)
    BY <1>6
  <2>2. PICK n \in Copies(c) : regs[n] = regs[u]
    BY <2>1 DEF Copying
  <2> QED
    BY <1>1, <1>2, <2>1, <2>2
<1>7. /\ tgid'[w] = w /\ tgid'[c] = c /\ Woke(c)' /\ regs'[c] = regs'[w]
      /\ AtWork(c)' => CallOf(w, c)'
  BY CopyBase
<1>8. c # w /\ Boot[c] = Outside
  BY DEF Copying
<1> QED
  BY <1>2, <1>3, <1>4, <1>5, <1>6, <1>7, <1>8 DEF Copying

(* A step of somebody else.                                                *)
LEMMA OtherStep ==
  ASSUME Disciplined, BaseInv, NEW t \in Pid, Facts(t),
         Handler(t) \/ PullBack(t) \/ Kernel(t) \/ Program(t),
         NEW w \in Pid, Awaits(w), NEW c \in Pid, Copying(w, c), child(w) = c, t # c,
         t = w => WaitForClone(t)
  PROVE  Copying(w, c)'
<1> USE AwaitsFrozen DEF Facts, BaseInv
<1>1. pc'[c] = pc[c] /\ ~InHandler(c)
  BY DEF Footprint, Untouched, Made, Started, Woken, InHandler, HandlerPC, Copying,
     Woke
<1>2. ASSUME pc[c] \in {"loop", "start"} PROVE loc'[c] = loc[c]
  <2>1. pc[c] \notin {"user", "tail"}
    BY <1>2
  <2>2. life[c] = "alive"
    BY <2>1 DEF DisciplineInv, ExclusiveInv, TableInv, Present
  <2> QED
    BY <2>2 DEF Frame
<1>3. Copied(w, c)' = Copied(w, c)
  <2>1. Threads(w)' = Threads(w)
    BY OriginalsKept
  <2>2. pc[c] \in {"loop", "start"} => Visited(w, c)' = Visited(w, c)
    BY <1>2, <2>1 DEF Visited, temp
  <2> HIDE DEF Facts, BaseInv
  <2> QED
    BY <1>1, <2>1, <2>2 DEF Copied
<1>4. ASSUME t = w
      PROVE  /\ ff'.tracked_pid = ff.tracked_pid /\ ff'.error_check = ff.error_check
             /\ pc'[w] = "cont" => loc'[w].err = ff.error_check
  BY <1>4 DEF WaitForClone, Step, Goto, DisciplineInv, ExclusiveInv, TypeInv, TypeOK, Globals,
     Locals
<1>5. Complete(w, c)' => Complete(w, c)
  <2>1. CASE t = w
    BY <1>1, <1>4, <2>1 DEF Complete
  <2>2. CASE t # w
    <3>1. loc'[w] = loc[w] /\ (pc'[w] = "cont" => pc[w] = "cont")
      BY <2>2 DEF Frame, Woken
    <3> QED
      BY <1>1, <3>1 DEF Complete
  <2> QED
    BY <2>1, <2>2
<1>6. ASSUME AtWork(c)'
      PROVE  /\ AtWork(c) /\ CloneStill(c)
             /\ pc[c] = "start" => pc'[c] = "start" /\ child(c)' = child(c)
  <2>1. AtWork(c)
    BY <1>1, <1>6 DEF AtWork, Builds, Building
  <2>2. tgid[t] = c => ~Working(t)
    BY <2>1, AloneAtWork DEF Copying
  <2>3. tgid[t] = c => pc[t] # "start" /\ pc'[t] # "start"
    BY <2>2 DEF Working, Building, BuildPC, Footprint, CloneThread, At
  <2>4. CloneStill(c)
    BY <2>3, CloneAtRest DEF Copying, Woke
  <2> QED
    BY <1>1, <1>2, <2>1, <2>4 DEF child
<1> HIDE DEF Facts, BaseInv
<1> QED
  BY <1>1, <1>3, <1>4, <1>5, <1>6, CopyOnward

(* Steps of the clone after its loop.                                      *)
LEMMA FinishedStep ==
  ASSUME Disciplined, BaseInv, NEW t \in Pid, Facts(t),
         Handler(t) \/ PullBack(t) \/ Kernel(t) \/ Program(t),
         NEW w \in Pid, Awaits(w), Copying(w, t), child(w) = t,
         \/ pc[t] \in FinishedPC
         \/ pc[t] = "done_pid" /\ pc'[t] \in FinishedPC
  PROVE  Copying(w, t)'
<1> USE AwaitsFrozen DEF Facts, BaseInv
<1>1. pc'[t] \in FinishedPC /\ t # w
  BY DEF Local, GoesOn, Copying
<1>2. {pc[t], pc'[t]} \cap {"tail", "tail_flag", "claim", "loop", "start"} = {}
  BY <1>1 DEF FinishedPC, LatePC
<1>3. Copied(w, t)' = Copied(w, t)
  BY <1>2, OriginalsKept DEF Copied
<1>4. ~AtWork(t)'
  BY <1>1 DEF AtWork, TailPC, FinishedPC, LatePC, Builds, Building, BuildPC
<1>5. Complete(w, t)' => Complete(w, t)
  BY <1>1, <1>2 DEF Complete, Frame, Woken
<1> HIDE DEF Facts, BaseInv
<1> QED
  BY <1>1, <1>3, <1>4, <1>5, CopyOnward

(* The clone of a caller passes both tests of my_pull_back.                *)
LEMMA EnterStep ==
  ASSUME Disciplined, BaseInv, FlagOwned, NEW t \in Pid, Facts(t),
         NEW w \in Pid, Awaits(w), Copying(w, t), child(w) = t,
         EnterPullBack(t) \/ TestClone(t)
  PROVE  Copying(w, t)'
<1> USE AwaitsFrozen DEF Facts, BaseInv
<1>1. pc[t] \in TailPC /\ UNCHANGED ff /\ CallOf(w, t) /\ t # w
  BY DEF EnterPullBack, TestClone, Step, At, Copying, AtWork, TailPC
<1>2. ff.loaded /\ PPid(t) = ff.tracked_pid
  <2>1. ff.loaded
    BY DEF DisciplineInv, BuilderInv, InUse, InModule, InHandler
  <2> QED
    BY <1>1, <2>1 DEF CallOf, PPid, Pid, Outside
<1>3. ~ff.clone
  <2> SUFFICES ASSUME NEW d \in Pid, Working(d) PROVE FALSE
    BY DEF FlagOwned
  <2>1. CASE Builds(d) /\ Leads(d)
    <3>1. PICK u \in Pid : CallOf(u, d)
      BY <2>1 DEF DisciplineInv, BuilderInv, BuildsForCall, Engaged
    <3>2. u = w
      BY <3>1 DEF CallOf, WaitingPC, InHandler, HandlerPC
    <3>3. d = t
      BY <1>1, <3>1, <3>2 DEF CallOf
    <3> QED
      BY <1>1, <2>1, <3>3 DEF Builds, Building, BuildPC, TailPC
  <2>2. CASE pc[d] \in LatePC \/ ~Leads(d)
    BY <1>1, <2>2 DEF CallOf, DisciplineInv, BuilderInv, LateUntracked, Pid
  <2> QED
    BY <2>1, <2>2 DEF Working, Builds, DonePC, LatePC
<1>4. pc'[t] \in {"tail_flag", "claim"}
  BY <1>2, <1>3 DEF EnterPullBack, TestClone, Step, Goto, DisciplineInv, ExclusiveInv,
     TypeInv, TypeOK
<1>5. Copied(w, t) = {} /\ Copied(w, t)' = {}
  BY <1>1, <1>4 DEF Copied, TailPC
<1>6. AtWork(t) /\ CloneStill(t) /\ pc[t] # "start"
  BY <1>1, <1>4, CloneAtRest DEF Copying, AtWork, TailPC, Woke
<1> HIDE DEF Facts, BaseInv
<1> QED
  BY <1>1, <1>5, <1>6, CopyOnward DEF PullBack

-----------------------------------------------------------------------------
(* Where next_thread() leads, in a group whose leader w comes first.       *)
LEMMA NextThread ==
  ASSUME TypeInv, OrderInv, NEW w \in Pid, life[w] = "alive", tgid[w] = w,
         NEW p \in Pid, tgid[p] = w, life[p] # "free", NEW u \in Pid, IsNext(p, u)
  PROVE  /\ u \in Group(w)
         /\ u = w \/ p < u
         /\ \A v \in Group(w) \ {w} : (u = w \/ v < u) <=> v =< p
<1>1. \A v \in Group(w) : w =< v /\ v \in Pid
  BY DEF OrderInv, LeadFirst, Group
<1>2. w =< p /\ w \in Group(w)
  BY DEF OrderInv, LeadFirst, Group
<1> DEFINE later == {v \in Group(w) : v > p}
<1>3. CASE later = {}
  <2>1. u \in Group(w) /\ \A v \in Group(w) : u =< v
    BY <1>3 DEF IsNext
  <2>2. u = w
    BY <1>1, <1>2, <2>1 DEF Pid
  <2> QED
    BY <1>1, <1>3, <2>1, <2>2 DEF Pid
<1>4. CASE later # {}
  <2>1. u \in later /\ \A v \in later : u =< v
    BY <1>4 DEF IsNext
  <2>2. ASSUME NEW v \in Group(w) \ {w} PROVE (u = w \/ v < u) <=> v =< p
    BY <1>1, <1>2, <2>1 DEF Pid
  <2> QED
    BY <2>1, <2>2
<1> QED
  BY <1>3, <1>4

LEMMA ClaimStep ==
  ASSUME Disciplined, BaseInv, OrderInv, NEW t \in Pid, Facts(t),
         NEW w \in Pid, Awaits(w), Copying(w, t), child(w) = t, Claim(t)
  PROVE  Copying(w, t)'
<1> USE AwaitsFrozen DEF BaseInv
<1>1. pc[t] = "claim" /\ pc'[t] = "loop" /\ real_parent[t] = w /\ tgid[w] = w /\ t # w
      /\ AtWork(t) /\ Boot[t] = Outside /\ life[t] # "free"
  BY DEF Claim, Step, At, Goto, Copying, AtWork, Builds, Building, BuildPC, CallOf, Woke,
     DisciplineInv, ExclusiveInv, TypeInv, TypeOK
<1>2. PICK u \in Pid : IsNext(w, u) /\ temp(t)' = u
  BY <1>1 DEF Claim, temp, DisciplineInv, ExclusiveInv, TypeInv, TypeOK, Locals
<1>3. u \in Group(w) /\ \A v \in Group(w) \ {w} : (u = w \/ v < u) <=> v =< w
  BY <1>1, <1>2, NextThread DEF DisciplineInv, ExclusiveInv
<1>4. Threads(w)' = Threads(w) /\ \A v \in Threads(w) : v \in Group(w) /\ w =< v
  BY <1>1, OriginalsKept DEF Threads, OrderInv, LeadFirst, Group
<1>5. Copied(w, t)' = {}
  <2>1. ASSUME NEW v \in Threads(w), v # w
        PROVE  ~(u = w \/ v < u)
    BY <1>3, <1>4, <2>1 DEF Group, Pid
  <2>2. Visited(w, t)' = {}
    BY <1>2, <1>4, <2>1 DEF Visited
  <2> QED
    BY <1>1, <2>2 DEF Copied
<1>6. CloneStill(t)
  BY <1>1, CloneAtRest
<1>7. Copied(w, t) = {}
  BY <1>1 DEF Copied
<1> QED
  BY <1>1, <1>5, <1>6, <1>7, CopyOnward DEF PullBack

LEMMA LoopVars ==
  ASSUME BaseInv, NEW t \in Pid, NEW w \in Pid, Copying(w, t), pc[t] \in {"loop", "start"}
  PROVE  /\ t # w /\ tgid[w] = w /\ loc[t].parent_task = w
         /\ temp(t) \in Pid /\ tgid[temp(t)] = w /\ life[temp(t)] # "free"
         /\ AtWork(t) /\ tgid[t] = t /\ life[t] # "free" /\ Boot[t] = Outside
         /\ pc[t] = "start" => temp(t) # w /\ ~Exiting(temp(t))
<1>1. LoopInv(w, t) /\ life[t] # "free"
  BY DEF Copying, Woke
<1> QED
  BY <1>1 DEF Copying, LoopInv, AtWork, Builds, Building, BuildPC, BaseInv, Pointing,
     DisciplineInv, ExclusiveInv, TypeInv, Cursor

LEMMA EndStep ==
  ASSUME Disciplined, BaseInv, NEW t \in Pid, Facts(t), PullBack(t),
         NEW w \in Pid, Awaits(w), Copying(w, t), child(w) = t,
         \/ EndLoop(t)
         \/ Step(t, "loop", "done_pid") /\ ff'.error_check = -1
  PROVE  Copying(w, t)'
<1> USE AwaitsFrozen DEF BaseInv
<1>1. pc[t] = "loop" /\ pc'[t] = "done_pid" /\ t # w
  BY DEF EndLoop, Step, At, Goto, Copying, DisciplineInv, ExclusiveInv, TypeInv, TypeOK
<1>2. Threads(w)' = Threads(w)
  BY OriginalsKept
<1>3. Copied(w, t) = Visited(w, t) /\ Copied(w, t)' = Threads(w) \ {w}
  BY <1>1, <1>2 DEF Copied
<1>4. EndLoop(t) => Visited(w, t) = Threads(w) \ {w}
  BY <1>1, LoopVars DEF EndLoop, Visited
<1>5. CloneStill(t) /\ AtWork(t) /\ Complete(w, t)
  BY <1>1, CloneAtRest, LoopVars DEF Complete
<1>6. Visited(w, t) \subseteq Threads(w) \ {w}
  BY DEF Visited
<1>7. CallOf(w, t)
  BY <1>5 DEF Copying
<1>8. pc'[w] # "cont"
  BY <1>1, <1>7 DEF CallOf, WaitingPC, Facts, Frame, Woken
<1>9. Complete(w, t)' => EndLoop(t)
  BY <1>1, <1>8 DEF Complete
<1> QED
  BY <1>1, <1>3, <1>4, <1>5, <1>6, <1>9, CopyOnward

LEMMA SkipStep ==
  ASSUME Disciplined, BaseInv, OrderInv, NEW t \in Pid, Facts(t),
         NEW w \in Pid, Awaits(w), Copying(w, t), child(w) = t, SkipExiting(t)
  PROVE  Copying(w, t)'
<1> USE AwaitsFrozen DEF BaseInv
<1>1. pc[t] = "loop" /\ pc'[t] = "loop"
  BY DEF SkipExiting, At
<1>2. PICK u \in Pid : IsNext(temp(t), u) /\ loc' = [loc EXCEPT ![t].temp = u]
  BY DEF SkipExiting, Advance
<1>3. /\ temp(t)' = u /\ loc'[t].parent_task = loc[t].parent_task /\ child(t)' = child(t)
      /\ UNCHANGED kernel /\ Exiting(temp(t)) /\ temp(t) # loc[t].parent_task
  BY <1>2 DEF SkipExiting, temp, child, DisciplineInv, ExclusiveInv, TypeInv, TypeOK, Locals
<1>4. /\ u \in Group(w)
      /\ \A v \in Group(w) \ {w} : (u = w \/ v < u) <=> v =< temp(t)
  BY <1>1, <1>2, LoopVars, NextThread DEF DisciplineInv, ExclusiveInv
<1>5. Visited(w, t)' = Visited(w, t)
  <2>1. Threads(w)' = Threads(w) /\ \A v \in Threads(w) : v \in Group(w) /\ ~Exiting(v)
    BY OriginalsKept DEF Threads
  <2>2. ASSUME NEW v \in Threads(w) \ {w}
        PROVE  (temp(t)' = w \/ v < temp(t)') <=> (temp(t) = w \/ v < temp(t))
    <3>1. v \in Pid /\ v # temp(t) /\ temp(t) \in Pid /\ temp(t) # w
      BY <1>1, <1>3, <2>1, LoopVars DEF Group
    <3> QED
      BY <1>3, <1>4, <2>1, <3>1 DEF Pid
  <2> QED
    BY <2>1, <2>2 DEF Visited
<1>6. Copied(w, t)' = Copied(w, t)
  BY <1>1, <1>5 DEF Copied
<1>7. CloneStill(t) /\ t # w /\ AtWork(t) /\ Complete(w, t)
  BY <1>1, LoopVars, CloneAtRest DEF Complete
<1> QED
  BY <1>1, <1>6, <1>7, CopyOnward DEF PullBack

(* my_kernel_clone makes the thread n.                                     *)
LEMMA MakeStep ==
  ASSUME Disciplined, BaseInv, NEW t \in Pid, Facts(t), PullBack(t),
         NEW w \in Pid, Awaits(w), Copying(w, t), child(w) = t,
         NEW n \in Pid, At(t, "loop"), temp(t) # loc[t].parent_task, ~Exiting(temp(t)),
         FreshPid(n), CopyProcess(n, t, tgid[t], real_parent[t], "new"),
         loc' = [loc EXCEPT ![t].child = n],
         pc' = [pc EXCEPT ![t] = "start", ![n] = "tail"], UNCHANGED ff
  PROVE  Copying(w, t)'
<1> USE AwaitsFrozen DEF BaseInv
<1>1. /\ pc[t] = "loop" /\ pc'[t] = "start" /\ life[n] = "free" /\ n # t
      /\ child(t)' = n /\ temp(t)' = temp(t)
  BY DEF At, FreshPid, child, temp, DisciplineInv, ExclusiveInv, TypeInv, TypeOK, Locals
<1>2. t # w /\ tgid[t] = t /\ AtWork(t) /\ Boot[t] = Outside
  BY <1>1, LoopVars
<1>3. /\ tgid'[n] = t /\ life'[n] = "new"
      /\ \A m \in Pid \ {n} : /\ tgid'[m] = tgid[m] /\ life'[m] = life[m]
                              /\ regs'[m] = regs[m]
  BY <1>1, <1>2 DEF CopyProcess, DisciplineInv, ExclusiveInv, TypeInv, TypeOK, TaskTypeOK
<1>4. Copies(t)' = Copies(t) /\ Copies(t) \subseteq Pid \ {n}
  BY <1>1, <1>3 DEF Copies, Woke
<1>5. Copied(w, t)' = Copied(w, t) /\ \A u \in Copied(w, t) : regs'[u] = regs[u]
  <2>1. Visited(w, t)' = Visited(w, t) /\ \A u \in Visited(w, t) : regs'[u] = regs[u]
    BY <1>1, OriginalsKept DEF Visited
  <2> QED
    BY <1>1, <2>1 DEF Copied
<1>6. \A m \in Pid : tgid'[m] = t /\ life'[m] = "new" => pc'[t] = "start" /\ child(t)' = m
  <2>1. \A m \in Pid : tgid[m] = t => life[m] # "new"
    BY <1>1, <1>2 DEF Copying
  <2> QED
    BY <1>1, <1>3, <2>1
<1>7. \A m \in Copies(t)' : \E u \in Copied(w, t)' : regs'[m] = regs'[u]
  BY <1>2, <1>3, <1>4, <1>5 DEF Copying
<1>8. \A u \in Copied(w, t)' : \E m \in Copies(t)' : regs'[m] = regs'[u]
  <2>1. \A u \in Copied(w, t) : \E m \in Copies(t) : regs[m] = regs[u]
    BY <1>1 DEF Copying, Complete
  <2> QED
    BY <1>3, <1>4, <1>5, <2>1
<1>9. \A m \in Pid : tgid'[m] = t /\ life'[m] # "free" =>
        /\ real_parent'[m] = w /\ \E u \in Threads(w)' : regs'[m] = regs'[u]
        /\ LoopInv(w, m)'
  BY MembersKept, LoopKept
<1>10. /\ tgid'[w] = w /\ tgid'[t] = t /\ Woke(t)' /\ regs'[t] = regs'[w]
       /\ AtWork(t)' => CallOf(w, t)'
  BY <1>2, CopyBase
<1> QED
  BY <1>2, <1>6, <1>7, <1>8, <1>9, <1>10 DEF Copying

(* The thread that was made gets the registers of temp and is woken.       *)
LEMMA StartStep ==
  ASSUME Disciplined, BaseInv, OrderInv, NEW t \in Pid, Facts(t), PullBack(t),
         NEW w \in Pid, Awaits(w), Copying(w, t), child(w) = t, StartThread(t)
  PROVE  Copying(w, t)'
<1> USE AwaitsFrozen DEF BaseInv
<1>0. child(t) \in Pid /\ temp(t) \in Pid /\ pc[t] = "start"
  <2>1. pc[t] = "start"
    BY DEF StartThread, Step, At
  <2>2. child(t) \in Pid
    BY <2>1 DEF DisciplineInv, ExclusiveInv, TypeInv, Cursor
  <2> QED
    BY <2>1, <2>2, LoopVars
<1> PICK n \in Pid, p \in Pid : n = child(t) /\ p = temp(t)
  BY <1>0
<1>1. /\ pc[t] = "start" /\ pc'[t] = "loop" /\ n \in Pid /\ life[n] = "new" /\ n # t
  BY <1>0 DEF StartThread, Step, At, Goto, DisciplineInv, ExclusiveInv, TypeInv,
     TypeOK, TableInv, Starting
<1>2. /\ t # w /\ tgid[w] = w /\ loc[t].parent_task = w /\ p \in Pid /\ tgid[p] = w
      /\ life[p] # "free" /\ AtWork(t) /\ tgid[t] = t /\ Boot[t] = Outside
      /\ p # w /\ ~Exiting(p) /\ tgid[n] = t
  BY <1>1, LoopVars DEF Pointing
<1>3. PICK u \in Pid : IsNext(p, u) /\ loc' = [loc EXCEPT ![t].temp = u]
  BY DEF StartThread, Advance
<1>4. temp(t)' = u
  BY <1>2, <1>3 DEF temp, DisciplineInv, ExclusiveInv, TypeInv, TypeOK, Locals
<1>5. /\ u \in Group(w)
      /\ \A v \in Group(w) \ {w} : (u = w \/ v < u) <=> v =< p
  BY <1>2, <1>3, NextThread DEF DisciplineInv, ExclusiveInv
<1>6. /\ UNCHANGED tgid /\ life'[n] = "alive" /\ regs'[n] = regs[p]
      /\ \A m \in Pid \ {n} : life'[m] = life[m] /\ regs'[m] = regs[m]
  BY <1>1 DEF StartThread, WakeWithRegs, DisciplineInv, ExclusiveInv, TypeInv, TypeOK,
     TaskTypeOK
<1>7. p \in Threads(w) \ {w}
  BY <1>1, <1>2, NoNewOriginal DEF Threads, Group, Exiting, DisciplineInv, ExclusiveInv,
     TypeInv, TypeOK, TaskTypeOK
<1>8. Copied(w, t) = Visited(w, t) /\ Copied(w, t)' = Visited(w, t) \cup {p}
  <2>1. Threads(w)' = Threads(w) /\ \A v \in Threads(w) : v \in Group(w)
    BY OriginalsKept DEF Threads
  <2>2. ASSUME NEW v \in Threads(w) \ {w}
        PROVE  (temp(t)' = w \/ v < temp(t)') <=> (v = p \/ p = w \/ v < p)
    <3>1. v \in Pid /\ p \in Pid
      BY <1>2, <2>1 DEF Group
    <3>2. (temp(t)' = w \/ v < temp(t)') <=> v =< p
      BY <1>4, <1>5, <2>1
    <3> QED
      BY <1>2, <3>1, <3>2 DEF Pid
  <2>3. Visited(w, t)' = Visited(w, t) \cup {p}
    BY <1>7, <2>1, <2>2 DEF Visited
  <2> QED
    BY <1>1, <2>3 DEF Copied
<1>9. \A v \in Copied(w, t)' : regs'[v] = regs[v]
  BY <1>7, <1>8, OriginalsKept DEF Visited
<1>10. Copies(t)' = Copies(t) \cup {n} /\ Copies(t) \subseteq Pid \ {n}
  <2>1. \A m \in Pid \ {n} : Woke(m)' <=> Woke(m)
    BY <1>6 DEF Woke
  <2>2. Woke(n)' /\ ~Woke(n)
    BY <1>1, <1>6 DEF Woke
  <2> QED
    BY <1>1, <1>2, <1>6, <2>1, <2>2 DEF Copies
<1>11. \A m \in Pid : tgid'[m] = t => life'[m] # "new"
  <2>1. \A m \in Pid \ {n} : tgid[m] = t => life[m] # "new"
    BY <1>1, <1>2 DEF Copying
  <2> QED
    BY <1>6, <2>1
<1>12. \A m \in Copies(t)' : \E v \in Copied(w, t)' : regs'[m] = regs'[v]
  <2>1. \A m \in Copies(t) : \E v \in Copied(w, t) : regs[m] = regs[v]
    BY <1>2 DEF Copying
  <2> QED
    BY <1>6, <1>8, <1>9, <1>10, <2>1
<1>13. \A v \in Copied(w, t)' : \E m \in Copies(t)' : regs'[m] = regs'[v]
  <2>1. \A v \in Copied(w, t) : \E m \in Copies(t) : regs[m] = regs[v]
    BY <1>1 DEF Copying, Complete
  <2> QED
    BY <1>6, <1>8, <1>9, <1>10, <2>1
<1>14. \A m \in Pid : tgid'[m] = t /\ life'[m] # "free" =>
        /\ real_parent'[m] = w /\ \E v \in Threads(w)' : regs'[m] = regs'[v]
        /\ LoopInv(w, m)'
  BY MembersKept, LoopKept
<1>15. /\ tgid'[w] = w /\ tgid'[t] = t /\ Woke(t)' /\ regs'[t] = regs'[w]
       /\ AtWork(t)' => CallOf(w, t)'
  BY <1>2, CopyBase
<1> QED
  BY <1>2, <1>11, <1>12, <1>13, <1>14, <1>15 DEF Copying

-----------------------------------------------------------------------------
(* leader_clone forks the child that is to build the copy.                 *)
LEMMA ForkStep ==
  ASSUME DisciplineInv, NEW t \in Pid, tgid[t] = t, NEW c \in Pid, At(t, "fork"),
         FreshPid(c), CopyProcess(c, t, c, t, "alive"),
         loc' = [loc EXCEPT ![t].child = c],
         pc' = [pc EXCEPT ![t] = "await", ![c] = "tail"], UNCHANGED ff
  PROVE  Copying(t, c)'
<1>1. /\ pc[t] = "fork" /\ life[t] = "alive" /\ life[c] = "free" /\ c # t
      /\ pc'[t] = "await" /\ pc'[c] = "tail" /\ child(t)' = c
  BY DEF At, FreshPid, child, DisciplineInv, ExclusiveInv, TypeInv, TypeOK, Locals
<1>2. /\ life'[c] = "alive" /\ tgid'[c] = c /\ real_parent'[c] = t /\ regs'[c] = regs[t]
      /\ \A u \in Pid \ {c} : /\ life'[u] = life[u] /\ tgid'[u] = tgid[u]
                              /\ regs'[u] = regs[u]
  BY DEF CopyProcess, DisciplineInv, ExclusiveInv, TypeInv, TypeOK, TaskTypeOK
<1>3. \A u \in Pid : tgid'[u] = c /\ life'[u] # "free" => u = c
  BY <1>1, <1>2 DEF DisciplineInv, ExclusiveInv, TableInv, LeadersTaken
<1>4. Copies(c)' = {} /\ Copied(t, c)' = {}
  BY <1>1, <1>3 DEF Copies, Woke, Copied
<1>5. ff.tracked_pid = t /\ Boot[c] = Outside
  BY <1>1 DEF DisciplineInv, BuilderInv, EarlyIds, EarlyPC, ExclusiveInv, Settled
<1>6. CallOf(t, c)'
  BY <1>1, <1>2, <1>5 DEF CallOf, WaitingPC
<1>7. LoopInv(t, c)'
  BY <1>1 DEF LoopInv
<1>8. t \in Threads(t)' /\ regs'[t] = regs[t] /\ tgid'[t] = t
  BY <1>1, <1>2 DEF Threads, Group, Exiting
<1>9. \A n \in Pid : tgid'[n] = c /\ life'[n] # "free" =>
        /\ real_parent'[n] = t /\ LoopInv(t, n)'
        /\ \E u \in Threads(t)' : regs'[n] = regs'[u]
  BY <1>2, <1>3, <1>7, <1>8
<1>10. \A n \in Pid : tgid'[n] = c => life'[n] # "new"
  BY <1>2, <1>3
<1>11. Woke(c)'
  BY <1>2 DEF Woke
<1> QED
  BY <1>1, <1>2, <1>4, <1>5, <1>6, <1>8, <1>9, <1>10, <1>11 DEF Copying

(* Any step of the clone itself.                                           *)
LEMMA OwnStep ==
  ASSUME Disciplined, BaseInv, OrderInv, FlagOwned, NEW t \in Pid, Facts(t),
         Handler(t) \/ PullBack(t) \/ Kernel(t) \/ Program(t),
         NEW w \in Pid, Awaits(w), Copying(w, t), child(w) = t
  PROVE  Copying(w, t)'
<1> USE AwaitsFrozen DEF BaseInv
<1>1. CASE pc[t] \in FinishedPC
  BY <1>1, FinishedStep
<1>2. CASE pc[t] \notin FinishedPC
  <2>1. t # w /\ ~InHandler(t) /\ life[t] \in {"alive", "exiting", "dead"}
    BY DEF Copying, Woke, DisciplineInv, ExclusiveInv, TypeInv, TypeOK, TaskTypeOK
  <2>2. ~Handler(t)
    BY <2>1 DEF Handler, TrackTgid, ScanThreads, KillStop, FullforkWait, WaitInterrupted,
       WaitFailed, Unhook, InitWaitQueue, LeaderClone, WaitForClone, Continue, UntrackPid,
       UntrackTgid, Step, At, InHandler, HandlerPC
  <2>3. ~Kernel(t) /\ ~Program(t)
    <3>1. pc[t] # "user"
      BY <1>2 DEF FinishedPC
    <3>2. life[t] # "exiting"
      <4>1. pc[t] # "tail" => life[t] = "alive"
        BY <3>1 DEF DisciplineInv, ExclusiveInv, TableInv, Present
      <4>2. pc[t] = "tail" => life[t] \in {"new", "alive"}
        BY DEF DisciplineInv, ExclusiveInv, TableInv, Present
      <4> QED
        BY <4>1, <4>2
    <3> QED
      BY <3>1, <3>2 DEF Kernel, DequeueStop, GroupStop, Release, Program, Call, Exit, Fork,
         Spawn, UserMode, At
  <2>4. ~DoneTgid(t) /\ ~WakeCaller(t) /\ ~Unclaim(t)
    BY <1>2 DEF DoneTgid, WakeCaller, Unclaim, Step, At, FinishedPC, LatePC
  <2>5. CASE CloneThread(t)
    <3>1. CASE Step(t, "loop", "done_pid") /\ ff' = [ff EXCEPT !.error_check = -1]
      <4>1. ff'.error_check = -1
        BY <3>1 DEF DisciplineInv, ExclusiveInv, TypeInv, TypeOK, Globals
      <4> QED
        BY <2>5, <3>1, <4>1, EndStep DEF PullBack
    <3>2. ASSUME NEW n \in Pid, UNCHANGED ff, FreshPid(n),
                 CopyProcess(n, t, tgid[t], real_parent[t], "new"),
                 loc' = [loc EXCEPT ![t].child = n],
                 pc' = [pc EXCEPT ![t] = "start", ![n] = "tail"]
          PROVE  Copying(w, t)'
      <4>1. At(t, "loop") /\ temp(t) # loc[t].parent_task /\ ~Exiting(temp(t))
        BY <2>5 DEF CloneThread
      <4> QED
        BY <2>5, <3>2, <4>1, MakeStep DEF PullBack
    <3> QED
      BY <2>5, <3>1, <3>2 DEF CloneThread
  <2>6. CASE DonePid(t)
    <3>1. pc[t] = "done_pid" /\ pc'[t] \in FinishedPC
      BY <2>6 DEF DonePid, Step, At, Goto, FinishedPC, LatePC, DisciplineInv, ExclusiveInv,
         TypeInv, TypeOK
    <3> QED
      BY <2>6, <3>1, FinishedStep DEF PullBack
  <2> HIDE DEF BaseInv
  <2> QED
    BY <2>2, <2>3, <2>4, <2>5, <2>6, EnterStep, ClaimStep, EndStep, SkipStep, StartStep
       DEF PullBack
<1> QED
  BY <1>1, <1>2

LEMMA TaskCopy ==
  ASSUME Disciplined, ReplicaInv, NEW t \in Pid,
         Handler(t) \/ PullBack(t) \/ Kernel(t) \/ Program(t)
  PROVE  CopyInv'
<1> USE DEF ReplicaInv, BaseInv
<1>0. Facts(t)
  BY TaskFacts
<1> SUFFICES ASSUME NEW w \in Pid, Awaits(w)' PROVE Copying(w, child(w))'
  BY DEF CopyInv
<1>1. pc'[w] \in WaitingPC \cup {"cont"} /\ child(w)' # Outside /\ tgid'[w] = w
  BY DEF Awaits
<1>2. ASSUME Awaits(w), child(w)' = child(w), t = w => WaitForClone(t)
      PROVE  Copying(w, child(w))'
  <2>1. PICK c : c = child(w) /\ Copying(w, c) /\ c \in Pid
    BY <1>2 DEF CopyInv, Copying
  <2>2. Copying(w, c)'
    BY <1>0, <1>2, <2>1, OtherStep, OwnStep DEF ReplicaInv
  <2> QED
    BY <1>2, <2>1, <2>2
<1>3. CASE t # w
  <2>1. pc[w] \in WaitingPC \cup {"cont"}
    BY <1>0, <1>1, <1>3 DEF Facts, Footprint, Untouched, Made, Started, Woken, WaitingPC
  <2>2. life[w] = "alive"
    BY <2>1 DEF DisciplineInv, ExclusiveInv, TableInv, Present, WaitingPC
  <2>3. child(w)' = child(w) /\ tgid[w] = w
    BY <1>0, <1>1, <1>3, <2>2 DEF Facts, Frame, child
  <2> QED
    BY <1>1, <1>2, <1>3, <2>1, <2>3 DEF Awaits
<1>4. CASE t = w
  <2>1. LeaderClone(t) \/ WaitForClone(t)
    <3>1. InHandler(t)' /\ pc'[t] \in WaitingPC \cup {"cont"}
      BY <1>1, <1>4 DEF WaitingPC, InHandler, HandlerPC
    <3>2. ~PullBack(t)
      BY <3>1 DEF PullBack, EnterPullBack, TestClone, Claim, EndLoop, SkipExiting,
         CloneThread, StartThread, DonePid, DoneTgid, WakeCaller, Unclaim, Step, At, Goto,
         WaitingPC, DisciplineInv, ExclusiveInv, TypeInv, TypeOK, FreshPid
    <3>3. ~Program(t) /\ ~Kernel(t)
      <4>1. ASSUME Program(t) \/ Kernel(t) PROVE pc[t] = "user"
        BY <4>1 DEF Program, Call, Exit, Fork, Spawn, Kernel, DequeueStop, GroupStop,
           Release, UserMode, At, DisciplineInv, ExclusiveInv, TableInv, Present
      <4>2. Call(t) => pc'[t] = "track_tgid"
        BY DEF Call, Goto, DisciplineInv, ExclusiveInv, TypeInv, TypeOK
      <4>3. ASSUME Program(t) \/ Kernel(t) PROVE ~InHandler(t)' \/ Call(t)
        BY <4>1, <4>3, <1>0 DEF Facts, Footprint, InHandler, HandlerPC
      <4> QED
        BY <3>1, <4>2, <4>3 DEF WaitingPC
    <3> QED
      BY <3>1, <3>2, <3>3 DEF Handler, TrackTgid, ScanThreads, KillStop, FullforkWait,
         WaitInterrupted, WaitFailed, Unhook, InitWaitQueue, Continue, UntrackPid,
         UntrackTgid, Step, At, Goto, WaitingPC, DisciplineInv, ExclusiveInv, TypeInv, TypeOK
  <2>2. CASE WaitForClone(t)
    <3>1. child(t)' = child(t) /\ UNCHANGED tgid /\ pc[t] = "await"
      BY <2>2 DEF WaitForClone, Step, At, child, DisciplineInv, ExclusiveInv, TypeInv, TypeOK,
         Locals, kernel, taskVars
    <3> QED
      BY <1>1, <1>2, <1>4, <2>2, <3>1 DEF Awaits, WaitingPC
  <2>3. CASE LeaderClone(t)
    <3>1. CASE Step(t, "fork", "cont") /\ loc' = [loc EXCEPT ![t].err = -1]
      <4>1. pc[t] = "fork" /\ child(t)' = child(t)
        BY <3>1 DEF Step, At, child, DisciplineInv, ExclusiveInv, TypeInv, TypeOK, Locals
      <4>2. child(t) = Outside
        BY <4>1 DEF DisciplineInv, BuilderInv, EarlyIds, EarlyPC
      <4> QED
        BY <1>1, <1>4, <4>1, <4>2
    <3>2. ASSUME NEW c \in Pid, At(t, "fork"), FreshPid(c), CopyProcess(c, t, c, t, "alive"),
                 loc' = [loc EXCEPT ![t].child = c],
                 pc' = [pc EXCEPT ![t] = "await", ![c] = "tail"]
          PROVE  Copying(t, child(t))'
      <4>1. tgid[t] = t /\ child(t)' = c /\ UNCHANGED ff
        BY <1>0, <1>1, <1>4, <2>3, <3>2 DEF Facts, Frame, At, child, LeaderClone,
           DisciplineInv, ExclusiveInv, TypeInv, TypeOK, Locals
      <4>2. Copying(t, c)'
        BY <3>2, <4>1, ForkStep
      <4> QED
        BY <4>1, <4>2
    <3> QED
      BY <1>4, <2>3, <3>1, <3>2 DEF LeaderClone
  <2> QED
    BY <2>1, <2>2, <2>3
<1> QED
  BY <1>3, <1>4

-----------------------------------------------------------------------------
LEMMA TaskFlag ==
  ASSUME ReplicaInv, NEW t \in Pid, Facts(t),
         Handler(t) \/ PullBack(t) \/ Kernel(t) \/ Program(t)
  PROVE  FlagOwned'
<1> USE DEF ReplicaInv, BaseInv, DisciplineInv, ExclusiveInv, TypeInv, TypeOK, Globals
<1>1. ASSUME NEW d \in Pid, d # t, Working(d) PROVE Working(d)'
  BY <1>1 DEF Facts, Footprint, Untouched, Made, Started, Woken, Working, Building, BuildPC,
     DonePC, TableInv, Present
<1>2. ASSUME ff'.clone => ff.clone, Working(t) => Working(t)' PROVE FlagOwned'
  BY <1>1, <1>2 DEF FlagOwned
<1>3. ASSUME Working(t)' PROVE FlagOwned'
  BY <1>3 DEF FlagOwned
<1>4. CASE Handler(t)
  <2>1. ~Working(t) /\ ff'.clone = ff.clone
    BY <1>4 DEF Handler, TrackTgid, ScanThreads, KillStop, FullforkWait, WaitInterrupted,
       WaitFailed, Unhook, InitWaitQueue, LeaderClone, WaitForClone, Continue, UntrackPid,
       UntrackTgid, Step, At, Working, Building, BuildPC, DonePC
  <2> QED
    BY <1>2, <2>1
<1>5. CASE Kernel(t) \/ Program(t)
  <2>1. ~Working(t) /\ ff'.clone = ff.clone
    BY <1>5 DEF Kernel, DequeueStop, GroupStop, Release, Program, Call, Exit, Fork, Spawn,
       UserMode, At, Working, Building, BuildPC, DonePC, TableInv, Present
  <2> QED
    BY <1>2, <2>1
<1>6. CASE Unclaim(t)
  BY <1>6 DEF Unclaim, FlagOwned
<1>7. CASE EnterPullBack(t) \/ TestClone(t)
  BY <1>2, <1>7 DEF EnterPullBack, TestClone, Step, At, Working, Building, BuildPC, DonePC
<1>8. CASE PullBack(t) /\ ~Unclaim(t) /\ ~EnterPullBack(t) /\ ~TestClone(t)
  <2>1. pc'[t] \in {"loop", "start"} \cup DonePC
    BY <1>8 DEF PullBack, Claim, EndLoop, SkipExiting, CloneThread, StartThread, DonePid,
       DoneTgid, WakeCaller, Step, At, Goto, FreshPid, DonePC
  <2> QED
    BY <1>3, <2>1 DEF Working, Building, BuildPC
<1> QED
  BY <1>4, <1>5, <1>6, <1>7, <1>8 DEF PullBack

(* Who has been late stays so.                                             *)
LEMMA TaskTimely ==
  ASSUME Disciplined, BaseInv, NEW t \in Pid, Facts(t), Timely',
         Handler(t) \/ PullBack(t) \/ Kernel(t) \/ Program(t)
  PROVE  Timely
<1> USE DEF BaseInv, DisciplineInv, ExclusiveInv, TypeInv, TypeOK
<1> SUFFICES ASSUME NEW n \in Pid, life[n] # "free", Late(n) PROVE FALSE
  BY DEF Timely
<1>1. life'[n] # "free" /\ tgid'[n] = tgid[n] /\ tgid[n] # n
  BY DEF Facts, Frame, Late
<1>2. CASE Grows(n)
  <2>1. Grows(n)'
    BY <1>2, TaskGrows
  <2> QED
    BY <1>1, <2>1 DEF Timely, Late, Grows
<1>3. CASE pc[n] = "claim"
  <2>1. CASE n # t
    <3>1. pc'[n] = "claim"
      BY <1>3, <2>1 DEF Facts, Footprint, Untouched, Made, Started, Woken, TableInv, Present
    <3> QED
      BY <1>1, <3>1 DEF Timely, Late
  <2>2. CASE n = t
    <3>1. life[t] = "alive"
      BY <1>3, <2>2 DEF TableInv, Present
    <3>2. ~Handler(t) /\ ~Kernel(t) /\ ~Program(t)
      BY <1>3, <2>2, <3>1 DEF Handler, TrackTgid, ScanThreads, KillStop, FullforkWait,
         WaitInterrupted, WaitFailed, Unhook, InitWaitQueue, LeaderClone, WaitForClone,
         Continue, UntrackPid, UntrackTgid, Step, At, Kernel, DequeueStop, GroupStop,
         Release, Program, Call, Exit, Fork, Spawn, UserMode
    <3>3. pc'[t] = "loop"
      BY <1>3, <2>2, <3>2 DEF PullBack, EnterPullBack, TestClone, Claim, EndLoop, SkipExiting,
         CloneThread, StartThread, DonePid, DoneTgid, WakeCaller, Unclaim, Step, At, Goto
    <3>4. GrownInv'
      BY TaskGrown DEF Facts
    <3>5. Grows(t)'
      BY <3>3, <3>4 DEF GrownInv, BuildersPC, BuildPC
    <3> QED
      BY <1>1, <2>2, <3>5 DEF Timely, Late, Grows
  <2> QED
    BY <2>1, <2>2
<1> QED
  BY <1>2, <1>3 DEF Late, Grows

LEMMA TaskDistinct ==
  ASSUME Disciplined, ReplicaInv, NEW t \in Pid, Facts(t), Timely',
         Handler(t) \/ PullBack(t) \/ Kernel(t) \/ Program(t)
  PROVE  Distinct'
<1> USE DEF ReplicaInv, BaseInv
<1>0. Timely /\ Distinct
  BY TaskTimely
<1>1. ASSUME NEW u \in Pid, Woke(u)'
      PROVE  \/ Woke(u) /\ regs'[u] = regs[u] /\ tgid'[u] = tgid[u] /\ ~Made(u)
             \/ Made(u) /\ life'[u] = "alive"
             \/ Started(t, u) /\ regs'[u] = regs[temp(t)] /\ tgid'[u] = tgid[u] /\ ~Made(u)
  BY <1>1 DEF Facts, Footprint, Untouched, Made, Started, Moved, Ended, Changes, Frame, Woke
<1>2. ASSUME NEW u \in Pid, Made(u), life'[u] = "alive"
      PROVE  \/ tgid'[u] = u
             \/ regs'[u] = u /\ pc[t] = "user" /\ tgid'[u] = tgid[t]
  BY <1>2 DEF Facts, Changes, Joined
<1>3. ASSUME NEW u \in Pid, NEW v \in Pid, Made(u), life'[u] = "alive", ~Made(v),
             Woke(v)', tgid'[u] = tgid'[v]
      PROVE  regs'[u] # regs'[v]
  <2>1. life[u] = "free" /\ life[v] # "free" /\ tgid'[v] = tgid[v]
    BY <1>1, <1>3 DEF Made, Woke, Started
  <2>2. CASE tgid'[u] = u
    BY <1>3, <2>1, <2>2 DEF DisciplineInv, ExclusiveInv, TableInv, LeadersTaken
  <2>3. CASE regs'[u] = u /\ pc[t] = "user"
    <3>1. regs'[v] = regs[v]
      BY <1>1, <1>3, <2>3 DEF Started, At
    <3> QED
      BY <2>1, <2>3, <3>1 DEF OrderInv, ContextsTaken
  <2> QED
    BY <1>2, <1>3, <2>2, <2>3
<1>4. ASSUME NEW u \in Pid, NEW v \in Pid, Made(u), Made(v) PROVE u = v
  <2>1. FreshPid(u) /\ FreshPid(v) /\ u \in Nat /\ v \in Nat
    BY <1>4, BootAssumption DEF Facts, Changes, Joined, Pid
  <2>2. ~(u < v) /\ ~(v < u)
    BY <2>1 DEF FreshPid, Pid
  <2> QED
    BY <2>1, <2>2
<1>5. ASSUME NEW u \in Pid, NEW v \in Pid, Started(t, u), regs'[u] = regs[temp(t)],
             Woke(v), regs'[v] = regs[v], tgid[u] = tgid[v]
      PROVE  regs'[u] # regs'[v]
  <2>1. pc[t] = "start" /\ child(t) = u
    BY <1>5 DEF Started, At
  <2>2. PICK w \in Pid : Awaits(w) /\ Copying(w, t)
    <3>1. Leads(t)
      BY <1>0, <2>1 DEF Timely, Late, GrownInv, Grows, BuildersPC, BuildPC, DisciplineInv,
         ExclusiveInv, TableInv, Present, Leads
    <3> QED
      BY <2>1, <3>1, CallerOfBuilder DEF Builds, Building, BuildPC
  <2>3. /\ tgid[w] = w /\ temp(t) \in Pid /\ tgid[temp(t)] = w /\ life[temp(t)] # "free"
        /\ temp(t) # w /\ ~Exiting(temp(t)) /\ tgid[u] = t /\ t # w /\ AtWork(t)
    BY <2>1, <2>2, LoopVars DEF Pointing
  <2>4. Woke(temp(t))
    BY <2>2, <2>3, NoNewOriginal, AwaitsFrozen DEF Woke
  <2>5. CASE v = t
    <3>1. regs[t] = regs[w] /\ Woke(w)
      BY <2>2, AwaitsFrozen DEF Copying, Woke
    <3> QED
      BY <1>0, <1>5, <2>3, <2>4, <2>5, <3>1 DEF Distinct
  <2>6. CASE v # t
    <3>1. v \in Copies(t)
      BY <1>5, <2>3, <2>6 DEF Copies, Woke
    <3>2. PICK x \in Copied(w, t) : regs[v] = regs[x]
      BY <2>2, <2>3, <3>1 DEF Copying
    <3>3. x \in Visited(w, t)
      BY <2>1, <3>2 DEF Copied
    <3>4. x \in Pid /\ tgid[x] = w /\ x # temp(t)
      BY <2>3, <3>3 DEF Visited, Threads, Group, Pid
    <3>5. Woke(x)
      BY <2>2, <2>3, <3>3, <3>4, NoNewOriginal, AwaitsFrozen DEF Visited, Threads, Group, Woke
    <3> QED
      BY <1>0, <1>5, <2>3, <2>4, <3>2, <3>4, <3>5 DEF Distinct
  <2> QED
    BY <2>5, <2>6
<1>6. ASSUME NEW u \in Pid, NEW v \in Pid, Started(t, u), Started(t, v) PROVE u = v
  BY <1>6 DEF Started
<1> SUFFICES ASSUME NEW u \in Pid, NEW v \in Pid, u # v, tgid'[u] = tgid'[v], Woke(u)',
                    Woke(v)'
             PROVE  regs'[u] # regs'[v]
  BY DEF Distinct
<1>7. CASE Made(u) \/ Made(v)
  BY <1>1, <1>3, <1>4, <1>7
<1>8. CASE ~Made(u) /\ ~Made(v)
  <2>1. tgid'[u] = tgid[u] /\ tgid'[v] = tgid[v]
    BY <1>1, <1>8
  <2>2. CASE Started(t, u) /\ regs'[u] = regs[temp(t)]
    BY <1>1, <1>5, <1>6, <1>8, <2>1, <2>2
  <2>3. CASE Started(t, v) /\ regs'[v] = regs[temp(t)]
    BY <1>1, <1>5, <1>6, <1>8, <2>1, <2>3
  <2>4. CASE Woke(u) /\ Woke(v) /\ regs'[u] = regs[u] /\ regs'[v] = regs[v]
    BY <1>0, <2>1, <2>4 DEF Distinct
  <2> QED
    BY <1>1, <1>8, <2>2, <2>3, <2>4
<1> QED
  BY <1>7, <1>8

LEMMA InitReplica == Init => ReplicaInv
<1> SUFFICES ASSUME Init PROVE ReplicaInv
  OBVIOUS
<1>1. /\ \A t \in Pid : /\ pc[t] = "user" /\ tgid[t] = Boot[t]
                        /\ life[t] = IF Boot[t] = Outside THEN "free" ELSE "alive"
                        /\ Boot[t] # Outside => regs[t] = t
      /\ ~ff.clone
  BY DEF Init, TaskInit, FreshModule
<1>2. OrderInv
  <2>1. PidsInOrder
    <3> SUFFICES ASSUME NEW t \in Pid, life[t] # "free", NEW u \in 1 .. t
                 PROVE  life[u] # "free"
      BY DEF PidsInOrder
    <3>1. u \in Pid /\ Boot[t] # Outside
      BY <1>1, BootAssumption DEF Pid
    <3> QED
      BY <1>1, <3>1, BootAssumption
  <2>2. LeadFirst /\ ContextsTaken
    BY <1>1, BootAssumption DEF LeadFirst, ContextsTaken
  <2> QED
    BY <2>1, <2>2 DEF OrderInv
<1>3. FlagOwned /\ Distinct /\ CopyInv /\ NoOrphanThread
  BY <1>1 DEF FlagOwned, Distinct, Woke, CopyInv, Awaits, WaitingPC, NoOrphanThread
<1>4. Pointing /\ Aside
  BY <1>1 DEF Pointing, Aside, InHandler, HandlerPC
<1>5. GrownInv
  BY BootAssumption DEF Init, TaskInit, GrownInv, BuildersPC, BuildPC, DonePC, PPid
<1> QED
  BY <1>2, <1>3, <1>4, <1>5, InitDiscipline DEF ReplicaInv, BaseInv

LEMMA NextReplica ==
  ASSUME Disciplined, ReplicaInv, [Next]_vars
  PROVE  ReplicaInv'
<1> USE DEF ReplicaInv, BaseInv
<1>1. DisciplineInv' /\ NoOrphanThread' /\ GrownInv'
  BY NextDiscipline, NextNoOrphan, NextGrown DEF DisciplineInv, ExclusiveInv
<1>2. /\ Pointing' /\ Aside' /\ OrderInv' /\ FlagOwned' /\ CopyInv'
      /\ Timely' => Distinct'
  <2>1. CASE InitModule \/ CleanupModule
    <3>1. /\ UNCHANGED <<kernel, pc, loc>> /\ (ff'.clone => ff.clone)
          /\ \A t \in Pid : ~InModule(t)
      <4>1. CASE InitModule
        BY <4>1 DEF InitModule, FreshModule, DisciplineInv, BuilderInv, InUse
      <4>2. CASE CleanupModule
        BY <4>2 DEF CleanupModule, DisciplineInv, ExclusiveInv, TypeInv, TypeOK, Globals
      <4> QED
        BY <2>1, <4>1, <4>2
    <3>2. \A t \in Pid : ~Awaits(t)' /\ (Working(t)' <=> Working(t)) /\ ~InHandler(t)'
      BY <3>1 DEF Awaits, WaitingPC, InModule, HandlerPC, InHandler, Working, Building
    <3>3. UNCHANGED <<tgid, real_parent, life, regs, pc, loc>>
      BY <3>1 DEF kernel, taskVars
    <3>4. Pointing' /\ Aside' /\ (Timely' => Distinct')
      BY <3>2, <3>3 DEF Pointing, Aside, temp, child, Timely, Late, Distinct, Woke
    <3> QED
      BY <3>1, <3>2, <3>3, <3>4 DEF OrderInv, PidsInOrder, LeadFirst, ContextsTaken,
         FlagOwned, CopyInv
  <2>2. CASE UNCHANGED vars
    <3> USE <2>2 DEF vars, kernel, taskVars
    <3>1. OrderInv' /\ FlagOwned' /\ (Timely' => Distinct')
      BY DEF OrderInv, PidsInOrder, LeadFirst, ContextsTaken, Distinct, Woke, FlagOwned,
         Working, Building, Timely, Late
    <3>2. Pointing' /\ Aside'
      BY DEF Pointing, Aside, temp, child, InHandler, Joining, PPid
    <3>3. CopyInv'
      BY DEF CopyInv, Awaits, child, Copying, AtWork, Builds, Building, CallOf, LoopInv, temp,
         Exiting, Group, Copies, Copied, Visited, Threads, Complete, Woke
    <3> QED
      BY <3>1, <3>2, <3>3
  <2>3. ASSUME NEW t \in Pid, Handler(t) \/ PullBack(t) \/ Kernel(t) \/ Program(t)
        PROVE  /\ Pointing' /\ Aside' /\ OrderInv' /\ FlagOwned' /\ CopyInv'
               /\ Timely' => Distinct'
    <3>1. Facts(t)
      BY <2>3, TaskFacts
    <3>2. At(t, "start") => life[temp(t)] # "free"
      BY DEF At, Pointing
    <3>3. OrderInv'
      BY <3>1, <3>2, TaskOrder DEF Facts, DisciplineInv, ExclusiveInv
    <3>4. Pointing' /\ Aside'
      BY <1>1, <2>3, <3>1, TaskPointing, TaskAside DEF Facts
    <3> QED
      BY <2>3, <3>1, <3>3, <3>4, TaskFlag, TaskDistinct, TaskCopy
  <2> QED
    BY <2>1, <2>2, <2>3 DEF Next, Rest
<1> QED
  BY <1>1, <1>2

-----------------------------------------------------------------------------
(* As many contexts as threads, if no two are the same.                    *)
LEMMA ContextCount ==
  ASSUME NEW G, G \subseteq Pid, \A m, n \in G : regs[m] = regs[n] => m = n
  PROVE  Cardinality({regs[u] : u \in G}) = Cardinality(G)
<1> DEFINE S == {regs[u] : u \in G}
           f == [u \in G |-> regs[u]]
<1>1. IsFiniteSet(G)
  <2>1. IsFiniteSet(1 .. MaxPid)
    BY BootAssumption, FS_Interval
  <2> QED
    BY <2>1, FS_Subset DEF Pid
<1>2. f \in Surjection(G, S)
  BY Fun_IsSurj
<1>3. f \in Injection(G, S)
  BY Fun_IsInj
<1> QED
  BY <1>1, <1>2, <1>3, FS_Surjection

LEMMA ReplicaAtEnd ==
  ASSUME ReplicaInv
  PROVE  CloneIsReplica
<1> SUFFICES ASSUME NEW t \in Pid, pc[t] = "cont", child(t) # Outside
             PROVE  LET original == {u \in Group(tgid[t]) : ~Exiting(u)}
                        copy     == Members(child(t))
                        of(G)    == {regs[u] : u \in G}
                    IN  /\ of(copy) \subseteq of(original)
                        /\ loc[t].err = 0 => of(copy) = of(original)
                        /\ NoneLate => Cardinality(of(copy)) = Cardinality(copy)
  BY DEF CloneIsReplica
<1> DEFINE c == child(t)
           O == {u \in Group(tgid[t]) : ~Exiting(u)}
           C == Members(c)
<1> USE DEF ReplicaInv, BaseInv
<1>1. tgid[t] = t /\ pc[c] \in FinishedPC /\ c \in Pid
  BY DEF DisciplineInv, BuilderInv, Answered
<1>2. Awaits(t) /\ Copying(t, c)
  BY <1>1 DEF Awaits, CopyInv
<1>3. O = Threads(t) /\ Copied(t, c) = Threads(t) \ {t}
  BY <1>1 DEF Threads, Copied, FinishedPC, LatePC
<1>4. t \in O /\ c \in C /\ regs[c] = regs[t]
  <2>1. life[t] = "alive"
    BY <1>1, <1>2, AwaitsFrozen
  <2>2. life[c] # "free" /\ tgid[c] = c /\ regs[c] = regs[t]
    BY <1>2 DEF Copying, Woke
  <2> QED
    BY <1>1, <2>1, <2>2 DEF Group, Exiting, Members
<1>5. Copies(c) \subseteq C /\ C \subseteq Pid /\ \A n \in C : tgid[n] = c /\ life[n] # "free"
  BY DEF Copies, Members, Woke
<1>6. \A n \in C : \E u \in O : regs[n] = regs[u]
  BY <1>2, <1>3, <1>5 DEF Copying
<1>7. loc[t].err = 0 => \A u \in O : \E n \in C : regs[n] = regs[u]
  BY <1>2, <1>3, <1>4, <1>5 DEF Copying, Complete
<1>8. ASSUME NoneLate PROVE Cardinality({regs[u] : u \in C}) = Cardinality(C)
  <2>1. Distinct
    BY <1>8 DEF NoneLate, Timely
  <2>2. ASSUME NEW n \in C PROVE life[n] # "new"
    <3> SUFFICES ASSUME life[n] = "new" PROVE FALSE
      OBVIOUS
    <3>1. PICK d \in Pid : pc[d] = "start" /\ child(d) = n
      BY <1>5 DEF NoOrphanThread, At
    <3>2. tgid[d] = c /\ d # c
      BY <1>1, <1>5, <3>1 DEF Pointing, FinishedPC, LatePC
    <3>3. Grows(d)
      BY <3>1 DEF GrownInv, BuildersPC, BuildPC
    <3> QED
      BY <1>8, <3>2, <3>3 DEF NoneLate, Late, Grows
  <2>3. \A n \in C : Woke(n)
    BY <1>5, <2>2 DEF Woke
  <2>4. \A m, n \in C : regs[m] = regs[n] => m = n
    BY <1>5, <2>1, <2>3 DEF Distinct
  <2> QED
    BY <1>5, <2>4, ContextCount
<1>9. {regs[u] : u \in C} \subseteq {regs[u] : u \in O}
  BY <1>6
<1>10. loc[t].err = 0 => {regs[u] : u \in C} = {regs[u] : u \in O}
  BY <1>6, <1>7
<1> QED
  BY <1>8, <1>9, <1>10

(* A thread that my_pull_back has made gets the registers of the thread it *)
(* copies before wake_up_new_task, and no thread is copied twice, whatever *)
(* processes fork, create threads, end or make the system call meanwhile,  *)
(* until a thread of a copy is delayed between the two tests of            *)
(* my_pull_back and builds too.                                            *)
THEOREM ContextsDistinct ==
  ASSUME Disciplined
  PROVE  Spec => []DistinctContexts
<1>1. ReplicaInv => DistinctContexts
  BY DEF ReplicaInv, Distinct, Woke, DistinctContexts, OneThreadEach, NoneLate, Timely
<1>2. ReplicaInv /\ [Next]_vars => ReplicaInv'
  BY NextReplica
<1> QED
  BY <1>1, <1>2, InitReplica, PTL DEF Spec

(* What the full fork is for: when the caller is about to resume its       *)
(* siblings, the copy has a thread only for threads that are live in the   *)
(* caller's process, none of which has come, gone or run since the wait;   *)
(* one for each unless kernel_clone failed on the way, and then error_check*)
(* tells; and no two for the same unless one of its own threads built too. *)
THEOREM TheCloneIsAReplica ==
  ASSUME Disciplined
  PROVE  Spec => []CloneIsReplica
<1>1. ReplicaInv => CloneIsReplica
  BY ReplicaAtEnd
<1>2. ReplicaInv /\ [Next]_vars => ReplicaInv'
  BY NextReplica
<1> QED
  BY <1>1, <1>2, InitReplica, PTL DEF Spec

-----------------------------------------------------------------------------
(* The refinement of SnapshotCall.  Each step of a handler that changes its*)
(* phase is the step of the call of that name; whatever else happens is the*)
(* life of the processes, which leaves a frozen one and a copy being handed*)
(* over alone.                                                             *)

(* A pid is given its group when it is taken, for good.                    *)
Unborn == \A t \in Pid : life[t] = "free" => tgid[t] = Outside

SnapshotInv == ReplicaInv /\ Unborn

LEMMA TaskUnborn ==
  ASSUME TypeInv, TableInv, Unborn, NEW t \in Pid, Frame(t),
         Handler(t) \/ PullBack(t) \/ Kernel(t) \/ Program(t)
  PROVE  Unborn'
<1> USE DEF TypeInv, TypeOK, TaskTypeOK
<1>1. ASSUME UNCHANGED tgid PROVE Unborn'
  BY <1>1 DEF Unborn, Frame
<1>2. ASSUME NEW c \in Pid, life'[c] # "free", \A u \in Pid \ {c} : tgid'[u] = tgid[u]
      PROVE  Unborn'
  BY <1>2 DEF Unborn, Frame
<1>3. CASE LeaderClone(t)
  BY <1>1, <1>2, <1>3 DEF LeaderClone, CopyProcess, taskVars
<1>4. CASE CloneThread(t)
  BY <1>1, <1>2, <1>4 DEF CloneThread, CopyProcess, taskVars
<1>5. CASE Fork(t)
  BY <1>2, <1>5 DEF Fork, CopyProcess
<1>6. CASE Spawn(t)
  BY <1>2, <1>6 DEF Spawn, NewThread
<1>7. CASE Handler(t) /\ ~LeaderClone(t)
  BY <1>1, <1>7 DEF Handler, TrackTgid, ScanThreads, KillStop, FullforkWait,
     WaitInterrupted, WaitFailed, Unhook, InitWaitQueue, WaitForClone, Continue,
     UntrackPid, UntrackTgid, kernel, taskVars
<1>8. CASE PullBack(t) /\ ~CloneThread(t)
  BY <1>1, <1>8 DEF PullBack, EnterPullBack, TestClone, Claim, EndLoop, SkipExiting,
     StartThread, WakeWithRegs, DonePid, DoneTgid, WakeCaller, Unclaim, kernel, taskVars
<1>9. CASE Kernel(t) \/ Call(t) \/ Exit(t)
  BY <1>1, <1>9 DEF Kernel, DequeueStop, GroupStop, Release, ReleaseTask, Call, Exit,
     TaskExit, kernel, taskVars
<1> QED
  BY <1>3, <1>4, <1>5, <1>6, <1>7, <1>8, <1>9 DEF Program

-----------------------------------------------------------------------------
(* While a caller is past its wait and has not sent SIGCONT, its process   *)
(* keeps its threads, and they keep their contexts.                        *)
LEMMA FrozenKept ==
  ASSUME BaseInv, NEW t \in Pid, Facts(t),
         NEW w \in Pid, pc[w] \in FrozenPC, NEW p \in Pid, tgid[w] = p
  PROVE  Contexts(p)' = Contexts(p)
<1> USE DEF Facts, BaseInv
<1>1. /\ InHandler(w) /\ life[w] = "alive" /\ Still(w) /\ life[p] # "free"
      /\ \A u \in Pid : InHandler(u) => u = w
  <2>1. InHandler(w) /\ Holds(w)
    BY FrozenInHandler DEF Holds
  <2>2. life[w] = "alive"
    BY DEF FrozenPC, PastPC, DisciplineInv, ExclusiveInv, TableInv, Present
  <2> QED
    BY <2>1, <2>2 DEF DisciplineInv, ExclusiveInv, FreezeInv, Whole, KinInv, Serial,
       TableInv, LeadersTaken
<1>2. ASSUME NEW u \in Pid, tgid[u] = p PROVE life[u] # "new"
  BY <1>1, <1>2, NoNewOriginal
<1>3. ASSUME NEW u \in Pid, u \in Threads(p)
      PROVE  u \in Threads(p)' /\ regs'[u] = regs[u]
  <2>1. tgid[u] = p /\ life[u] = "alive"
    BY <1>2, <1>3 DEF Threads, Group, Exiting
  <2>2. regs'[u] = regs[u] /\ tgid'[u] = p
    BY <2>1 DEF Changes, Frame, Started
  <2>3. life'[u] = "alive"
    <3>1. CASE u # t
      BY <2>1, <3>1 DEF Frame
    <3>2. CASE u = t
      <4> SUFFICES ASSUME life'[t] # life[t] PROVE FALSE
        BY <2>1, <3>2
      <4>1. jobctl[t] # "stopped" /\ Ended(t)
        BY <2>1, <3>2 DEF Changes, Footprint, Moved
      <4>2. t \in Siblings(w)
        BY <1>1, <2>1, <3>2, <4>1 DEF Siblings, Group, Ended, InHandler, HandlerPC
      <4> QED
        BY <1>1, <2>1, <3>2, <4>1, <4>2 DEF Still, Exiting
    <3> QED
      BY <3>1, <3>2
  <2> QED
    BY <2>2, <2>3 DEF Threads, Group, Exiting
<1>4. ASSUME NEW u \in Pid, u \in Threads(p)' PROVE u \in Threads(p)
  <2>1. tgid'[u] = p /\ life'[u] \in {"new", "alive"}
    BY <1>4 DEF Threads, Group, Exiting
  <2>2. CASE life[u] = "free"
    <3>1. tgid'[u] # u
      BY <1>1, <2>1, <2>2
    <3>2. tgid'[u] = tgid[t] /\ life[t] = "alive" /\ ~SignalPending(t) /\ ~InHandler(t)
      BY <2>1, <2>2, <3>1 DEF Joins
    <3>3. t \in Siblings(w)
      BY <1>1, <2>1, <3>2 DEF Siblings, Group
    <3> QED
      BY <1>1, <3>2, <3>3 DEF Still, Exiting, SignalPending
  <2>3. CASE life[u] # "free"
    <3>1. tgid[u] = p
      BY <2>1, <2>3 DEF Frame
    <3>2. life[u] \in {"new", "alive"}
      BY <2>1, <2>3 DEF Footprint, Untouched, Made, Started, Moved, Ended
    <3> QED
      BY <3>1, <3>2 DEF Threads, Group, Exiting
  <2> QED
    BY <2>2, <2>3
<1>5. /\ Threads(p) \subseteq Pid /\ Threads(p)' \subseteq Pid
      /\ Contexts(p) = {regs[u] : u \in Threads(p)}
      /\ Contexts(p)' = {regs'[u] : u \in Threads(p)'}
  BY DEF Threads, Group, Contexts
<1> HIDE DEF Facts, BaseInv
<1> QED
  BY <1>3, <1>4, <1>5

-----------------------------------------------------------------------------
(* The phases by label.                                                    *)
BegunPC  == {"track_tgid", "scan", "kill", "wait", "wait_sleep", "resume"}
HeldPC   == {"unhook", "init_wq", "fork", "await", "asleep"}
ThawedPC == {"untrack_pid", "untrack_tgid"}
OutPC    == BuildPC \cup DonePC \cup {"tail", "tail_flag", "user"}

LEMMA PhaseNames ==
  ASSUME NEW t
  PROVE  /\ pc[t] \in BegunPC  => PhaseOf(t) = "begun"
         /\ pc[t] \in HeldPC   => PhaseOf(t) = "frozen"
         /\ pc[t] = "cont"     => PhaseOf(t) = "copied"
         /\ pc[t] \in ThawedPC => PhaseOf(t) = "thawed"
         /\ pc[t] \in OutPC    => PhaseOf(t) = "out"
BY DEF PhaseOf, BegunPC, HeldPC, ThawedPC, OutPC, BuildPC, DonePC

LEMMA NextPhaseNames ==
  ASSUME NEW t
  PROVE  /\ pc'[t] \in BegunPC  => PhaseOf(t)' = "begun"
         /\ pc'[t] \in HeldPC   => PhaseOf(t)' = "frozen"
         /\ pc'[t] = "cont"     => PhaseOf(t)' = "copied"
         /\ pc'[t] \in ThawedPC => PhaseOf(t)' = "thawed"
         /\ pc'[t] \in OutPC    => PhaseOf(t)' = "out"
BY DEF PhaseOf, BegunPC, HeldPC, ThawedPC, OutPC, BuildPC, DonePC

LEMMA PhaseCases ==
  ASSUME TypeInv, NEW t \in Pid
  PROVE  /\ pc[t] \in BegunPC \cup HeldPC \cup {"cont"} \cup ThawedPC \cup OutPC
         /\ PhaseOf(t) \in {"frozen", "copied"} => pc[t] \in FrozenPC
BY PhaseNames DEF TypeInv, TypeOK, PC, HandlerPC, BegunPC, HeldPC, ThawedPC, OutPC,
   FrozenPC, PastPC

(* A task moves no other task to another phase, and no answer changes but  *)
(* that of the task which takes the step.                                  *)
LEMMA OthersPhase ==
  ASSUME TypeInv, TableInv, NEW t \in Pid, Footprint(t), NEW u \in Pid, u # t
  PROVE  /\ PhaseOf(u)' = PhaseOf(u)
         /\ pc'[u] = "cont" <=> pc[u] = "cont"
<1>1. CASE pc'[u] = pc[u]
  BY <1>1 DEF PhaseOf
<1>2. CASE Woken(u)
  BY <1>2, PhaseNames, NextPhaseNames DEF Woken, BegunPC, HeldPC
<1>3. CASE Made(u)
  <2>1. pc[u] = "user" /\ pc'[u] = "tail"
    BY <1>3 DEF Made, TableInv, Present
  <2> QED
    BY <2>1, PhaseNames, NextPhaseNames DEF OutPC
<1> QED
  BY <1>1, <1>2, <1>3 DEF Footprint, Untouched, Started

(* A step of another task, or one within a phase, takes no answer back, and*)
(* leaves a copy as it is if the answer is that it is complete.            *)
LEMMA AnswerKept ==
  ASSUME BaseInv, CloneIsReplica, CloneIsReplica', NEW t \in Pid, Facts(t),
         Handler(t) \/ PullBack(t) \/ Kernel(t) \/ Program(t),
         NEW u \in Pid, u # t \/ PhaseOf(t)' = PhaseOf(t)
  PROVE  /\ ToldTo(u)' = ToldTo(u)
         /\ UNCHANGED taskVars => CopyOf(u)' = CopyOf(u)
         /\ CopyOf(u)' # CopyOf(u) =>
              ToldTo(u) = "failed" /\ CopyOf(u) \cup CopyOf(u)' \subseteq Contexts(tgid[u])
<1> USE DEF BaseInv, DisciplineInv, ExclusiveInv
<1>1. ASSUME u = t, pc[t] = "cont" PROVE FALSE
  <2>1. Continue(t)
    BY <1>1 DEF Handler, TrackTgid, ScanThreads, KillStop, FullforkWait, WaitInterrupted,
       WaitFailed, Unhook, InitWaitQueue, LeaderClone, WaitForClone, UntrackPid, UntrackTgid,
       PullBack, EnterPullBack, TestClone, Claim, EndLoop, SkipExiting, CloneThread,
       StartThread, DonePid, DoneTgid, WakeCaller, Unclaim, Kernel, DequeueStop, GroupStop,
       Release, Program, Call, Exit, Fork, Spawn, UserMode, Step, At, TableInv, Present
  <2>2. pc'[t] = "untrack_pid"
    BY <2>1 DEF Continue, Step, Goto, TypeInv, TypeOK
  <2> QED
    BY <1>1, <2>2, PhaseNames, NextPhaseNames DEF ThawedPC
<1>2. pc'[u] = "cont" <=> pc[u] = "cont"
  <2>1. CASE u # t
    BY <2>1, OthersPhase DEF Facts
  <2>2. CASE u = t
    <3>1. pc[t] # "cont" /\ pc[t] \in BegunPC \cup HeldPC \cup ThawedPC \cup OutPC
      BY <1>1, <2>2, PhaseCases
    <3>2. PhaseOf(t) # "copied"
      BY <3>1, PhaseNames
    <3> QED
      BY <2>2, <3>1, <3>2, NextPhaseNames
  <2> QED
    BY <2>1, <2>2
<1>3. CASE pc[u] # "cont"
  BY <1>2, <1>3 DEF CopyOf, ToldTo
<1>4. CASE pc[u] = "cont"
  <2>1. u # t /\ life[u] = "alive"
    BY <1>1, <1>4 DEF TableInv, Present
  <2>2. loc'[u] = loc[u] /\ tgid'[u] = tgid[u] /\ tgid[u] \in Pid
    BY <2>1 DEF Facts, Frame, TypeInv, Grouped
  <2>3. ToldTo(u)' = ToldTo(u)
    BY <1>2, <1>4, <2>2 DEF ToldTo
  <2>4. CASE child(u) = Outside
    BY <1>2, <1>4, <2>2, <2>3, <2>4 DEF CopyOf, child
  <2>5. CASE child(u) # Outside
    <3>1. PICK c : c = child(u)
      OBVIOUS
    <3>2. child(u)' = c /\ c # Outside
      BY <2>2, <2>5, <3>1 DEF child
    <3>3. CopyOf(u) = {regs[v] : v \in Members(c)}
          /\ CopyOf(u)' = {regs'[v] : v \in Members(c)'}
      BY <1>2, <1>4, <3>1, <3>2 DEF CopyOf
    <3>4. Contexts(tgid[u])' = Contexts(tgid[u])
      <4>1. PICK p \in Pid : p = tgid[u]
        BY <2>2
      <4>2. Contexts(p)' = Contexts(p)
        BY <1>4, <4>1, FrozenKept DEF FrozenPC, PastPC
      <4> QED
        BY <2>2, <4>1, <4>2
    <3>5. /\ CopyOf(u) \subseteq Contexts(tgid[u])
          /\ loc[u].err = 0 => CopyOf(u) = Contexts(tgid[u])
      BY <1>4, <3>1, <3>2, <3>3 DEF CloneIsReplica, Contexts
    <3>6. /\ CopyOf(u)' \subseteq Contexts(tgid[u])'
          /\ loc'[u].err = 0 => CopyOf(u)' = Contexts(tgid[u])'
      BY <1>2, <1>4, <3>2, <3>3 DEF CloneIsReplica, Contexts
    <3>7. loc[u].err \in {0, -1}
      BY DEF TypeInv, TypeOK, Locals
    <3>8. loc[u].err # 0 => ToldTo(u) = "failed"
      BY <1>4, <3>7 DEF ToldTo
    <3>9. UNCHANGED taskVars => CopyOf(u)' = CopyOf(u)
      BY <3>3 DEF Members, taskVars
    <3> QED
      BY <2>2, <2>3, <3>4, <3>5, <3>6, <3>8, <3>9
  <2> QED
    BY <2>4, <2>5
<1> QED
  BY <1>3, <1>4

-----------------------------------------------------------------------------
(* The steps of SnapshotCall.                                              *)

LEMMA LiveStep ==
  ASSUME Disciplined, SnapshotInv, ReplicaInv', CloneIsReplica, CloneIsReplica', NEW t \in Pid, Facts(t),
         Handler(t) \/ PullBack(t) \/ Kernel(t) \/ Program(t),
         PhaseOf(t)' = PhaseOf(t)
  PROVE  Snapshot!Live
<1> USE DEF SnapshotInv, ReplicaInv, BaseInv, DisciplineInv, ExclusiveInv
<1>1. ASSUME NEW p \in Pid, NEW w \in Pid, tgid[w] = p, PhaseOf(w) \in {"frozen", "copied"}
      PROVE  Contexts(p)' = Contexts(p)
  BY <1>1, PhaseCases, FrozenKept
<1>2. ASSUME NEW u \in Pid, tgid[u] # 0 PROVE tgid'[u] = tgid[u]
  BY <1>2 DEF Unborn, Outside, Facts, Frame
<1>3. ASSUME NEW u \in Pid
      PROVE  /\ PhaseOf(u)' = PhaseOf(u) /\ ToldTo(u)' = ToldTo(u)
             /\ CopyOf(u)' # CopyOf(u) =>
                  ToldTo(u) = "failed" /\ CopyOf(u) \cup CopyOf(u)' \subseteq Contexts(tgid[u])
             /\ tgid[u] \in Pid \cup {Outside}
  BY OthersPhase, AnswerKept DEF Facts, TypeInv, TypeOK, TaskTypeOK
<1>4. ASSUME NEW u \in Pid PROVE CopyOf(u)' \subseteq Pid
  <2>1. ContextsTaken'
    BY DEF OrderInv
  <2> QED
    BY <2>1 DEF ContextsTaken, CopyOf, Members
<1>5. ASSUME NEW u \in Pid PROVE tgid[u] = Outside => CopyOf(u)' = CopyOf(u)
  <2>1. ASSUME tgid[u] = Outside PROVE life[u] # "alive"
    BY <2>1 DEF TypeInv, Grouped, Pid, Outside
  <2>2. life[u] # "alive" => pc[u] # "cont"
    BY DEF TableInv, Present
  <2>3. ToldTo(u) = "failed" => pc[u] = "cont"
    BY DEF ToldTo
  <2> QED
    BY <1>3, <2>1, <2>2, <2>3
<1> HIDE DEF SnapshotInv, ReplicaInv, BaseInv, DisciplineInv, ExclusiveInv
<1> QED
  BY <1>1, <1>2, <1>3, <1>4, <1>5 DEF Snapshot!Live, Snapshot!Frozen

(* The frame of a step of the call: nobody but t moves on.                 *)
LEMMA PassStep ==
  ASSUME Disciplined, SnapshotInv, CloneIsReplica, CloneIsReplica', NEW t \in Pid, Facts(t),
         Handler(t) \/ PullBack(t) \/ Kernel(t) \/ Program(t),
         UNCHANGED taskVars, NEW from, NEW to, PhaseOf(t) = from, PhaseOf(t)' = to
  PROVE  /\ Snapshot!Pass(t, from, to)
         /\ \A u \in Pid \ {t} : CopyOf(u)' = CopyOf(u) /\ ToldTo(u)' = ToldTo(u)
<1> USE DEF SnapshotInv, ReplicaInv, BaseInv, DisciplineInv, ExclusiveInv
<1>1. \A u \in Pid \ {t} : PhaseOf(u)' = PhaseOf(u) /\ CopyOf(u)' = CopyOf(u)
                           /\ ToldTo(u)' = ToldTo(u)
  BY OthersPhase, AnswerKept DEF Facts
<1>2. \A p \in Pid : Contexts(p)' = Contexts(p)
  BY DEF Contexts, Group, Exiting, taskVars
<1> HIDE DEF SnapshotInv, ReplicaInv, BaseInv, DisciplineInv, ExclusiveInv
<1>3. [u \in Pid |-> PhaseOf(u)]' = [[u \in Pid |-> PhaseOf(u)] EXCEPT ![t] = to]
  BY <1>1
<1> QED
  BY <1>1, <1>2, <1>3 DEF Snapshot!Pass, taskVars

LEMMA QuietPass ==
  ASSUME Disciplined, SnapshotInv, CloneIsReplica, CloneIsReplica', NEW t \in Pid, Facts(t),
         Handler(t) \/ PullBack(t) \/ Kernel(t) \/ Program(t),
         UNCHANGED taskVars, NEW from, NEW to, PhaseOf(t) = from, PhaseOf(t)' = to,
         from # "copied", to # "copied"
  PROVE  /\ Snapshot!Pass(t, from, to)
         /\ UNCHANGED <<[u \in Pid |-> CopyOf(u)], [u \in Pid |-> ToldTo(u)]>>
<1>1. /\ Snapshot!Pass(t, from, to)
      /\ \A u \in Pid \ {t} : CopyOf(u)' = CopyOf(u) /\ ToldTo(u)' = ToldTo(u)
  BY PassStep
<1>2. pc[t] # "cont" /\ pc'[t] # "cont"
  BY PhaseNames, NextPhaseNames
<1>3. CopyOf(t)' = CopyOf(t) /\ ToldTo(t)' = ToldTo(t)
  BY <1>2 DEF CopyOf, ToldTo
<1> QED
  BY <1>1, <1>3

(* SIGCONT.                                                                *)
LEMMA ThawStep ==
  ASSUME Disciplined, SnapshotInv, CloneIsReplica, CloneIsReplica', NEW t \in Pid, Facts(t), Continue(t)
  PROVE  Snapshot!Thaw(t)
<1>1. pc[t] = "cont" /\ pc'[t] = "untrack_pid" /\ UNCHANGED taskVars
  BY DEF Continue, Step, Goto, At, SnapshotInv, ReplicaInv, BaseInv, DisciplineInv, ExclusiveInv,
     TypeInv, TypeOK
<1>2. PhaseOf(t) = "copied" /\ PhaseOf(t)' = "thawed"
  BY <1>1, PhaseNames, NextPhaseNames DEF ThawedPC
<1>3. /\ Snapshot!Pass(t, "copied", "thawed")
      /\ \A u \in Pid \ {t} : CopyOf(u)' = CopyOf(u) /\ ToldTo(u)' = ToldTo(u)
  BY <1>1, <1>2, PassStep DEF Handler
<1>4. CopyOf(t)' = {} /\ ToldTo(t)' = "none"
  BY <1>1 DEF CopyOf, ToldTo
<1> QED
  BY <1>3, <1>4 DEF Snapshot!Thaw

(* A caller that has no clone is told so.                                  *)
LEMMA FailedFork ==
  ASSUME SnapshotInv, NEW t \in Pid, Handler(t), pc[t] \in HeldPC, pc'[t] = "cont",
         child(t)' = Outside
  PROVE  loc'[t].err = -1
<1> USE DEF SnapshotInv, ReplicaInv, BaseInv, DisciplineInv, ExclusiveInv, TypeInv, TypeOK,
            Locals, child
<1>1. LeaderClone(t) \/ WaitForClone(t)
  BY DEF Handler, TrackTgid, ScanThreads, KillStop, FullforkWait, WaitInterrupted, WaitFailed,
     Unhook, InitWaitQueue, Continue, UntrackPid, UntrackTgid, Step, At, Goto, HeldPC
<1>2. CASE WaitForClone(t)
  <2>1. pc[t] = "await" /\ loc'[t].child = loc[t].child
    BY <1>2 DEF WaitForClone, Step, At
  <2> QED
    BY <2>1 DEF BuilderInv, Answered, WaitingPC, Pid, Outside
<1>3. CASE LeaderClone(t)
  <2>1. CASE loc' = [loc EXCEPT ![t].err = -1]
    BY <2>1
  <2>2. ASSUME NEW c \in Pid, loc' = [loc EXCEPT ![t].child = c] PROVE FALSE
    <3>1. loc'[t].child = c
      BY <2>2
    <3> QED
      BY <3>1 DEF Pid, Outside
  <2> QED
    BY <1>3, <2>1, <2>2 DEF LeaderClone
<1> QED
  BY <1>1, <1>2, <1>3

(* The caller has its answer: the copy is of the state of its process.     *)
LEMMA TakeCopyStep ==
  ASSUME Disciplined, SnapshotInv, ReplicaInv', CloneIsReplica, CloneIsReplica',
         NEW t \in Pid, Facts(t), Handler(t), UNCHANGED taskVars, pc[t] \in HeldPC, pc'[t] = "cont"
  PROVE  Snapshot!TakeCopy(t)
<1>1. PhaseOf(t) = "frozen" /\ PhaseOf(t)' = "copied"
  BY PhaseNames, NextPhaseNames
<1>2. /\ Snapshot!Pass(t, "frozen", "copied")
      /\ \A u \in Pid \ {t} : CopyOf(u)' = CopyOf(u) /\ ToldTo(u)' = ToldTo(u)
  BY <1>1, PassStep
<1>3. tgid[t] \in Pid /\ tgid'[t] = tgid[t]
  BY DEF taskVars, HeldPC, SnapshotInv, ReplicaInv, BaseInv, DisciplineInv, ExclusiveInv, TableInv,
     Present, TypeInv, Grouped
<1>4. /\ CopyOf(t)' \subseteq Contexts(tgid[t])
      /\ ToldTo(t)' \in {"ok", "failed"}
      /\ ToldTo(t)' = "ok" => CopyOf(t)' = Contexts(tgid[t])
  <2>0. loc'[t].err \in {0, -1}
    BY DEF ReplicaInv, BaseInv, DisciplineInv, ExclusiveInv, TypeInv, TypeOK, Locals
  <2>1. CASE child(t)' = Outside
    <3>1. loc'[t].err = -1
      BY <2>1, FailedFork
    <3> QED
      BY <2>1, <3>1 DEF CopyOf, ToldTo
  <2>2. ASSUME NEW c \in Pid, child(t)' = c
        PROVE  /\ CopyOf(t)' \subseteq Contexts(tgid[t])
               /\ ToldTo(t)' \in {"ok", "failed"}
               /\ ToldTo(t)' = "ok" => CopyOf(t)' = Contexts(tgid[t])
    <3>1. c # Outside /\ CopyOf(t)' = {regs'[u] : u \in Members(c)'}
      BY <2>2 DEF CopyOf, Pid, Outside
    <3>2. /\ CopyOf(t)' \subseteq Contexts(tgid[t])'
          /\ loc'[t].err = 0 => CopyOf(t)' = Contexts(tgid[t])'
      BY <2>2, <3>1 DEF CloneIsReplica, Contexts
    <3>3. Contexts(tgid[t])' = Contexts(tgid[t])
      BY DEF Contexts, Group, Exiting, taskVars
    <3>4. ToldTo(t)' = IF loc'[t].err < 0 THEN "failed" ELSE "ok"
      BY DEF ToldTo
    <3>5. ToldTo(t)' \in {"ok", "failed"} /\ (ToldTo(t)' = "ok" => loc'[t].err = 0)
      BY <2>0, <3>4
    <3> QED
      BY <3>1, <3>2, <3>3, <3>5
  <2>3. child(t)' \in Pid \cup {Outside}
    BY DEF child, ReplicaInv, BaseInv, DisciplineInv, ExclusiveInv, TypeInv, TypeOK, Locals
  <2> QED
    BY <2>1, <2>2, <2>3
<1> QED
  BY <1>2, <1>3, <1>4 DEF Snapshot!TakeCopy

(* Each step of a task is a step of SnapshotCall.                          *)
LEMMA TaskSnapshot ==
  ASSUME Disciplined, SnapshotInv, ReplicaInv', CloneIsReplica, CloneIsReplica',
         NEW t \in Pid, Handler(t) \/ PullBack(t) \/ Kernel(t) \/ Program(t)
  PROVE  Snapshot!Next
<1>0. Facts(t) /\ TypeInv /\ TableInv
  BY TaskFacts DEF SnapshotInv, ReplicaInv, BaseInv, DisciplineInv, ExclusiveInv
<1>1. PhaseOf(t)' = PhaseOf(t) => Snapshot!Next
  BY <1>0, LiveStep DEF Snapshot!Next
<1>2. ASSUME NEW from, NEW to, UNCHANGED taskVars, PhaseOf(t) = from, PhaseOf(t)' = to,
             from # "copied", to # "copied",
             <<from, to>> \in {<<"out", "begun">>, <<"begun", "frozen">>, <<"begun", "out">>,
                               <<"thawed", "out">>}
      PROVE  Snapshot!Next
  <2>1. /\ Snapshot!Pass(t, from, to)
        /\ UNCHANGED <<[u \in Pid |-> CopyOf(u)], [u \in Pid |-> ToldTo(u)]>>
    BY <1>0, <1>2, QuietPass
  <2>2. CASE from = "out" /\ to = "begun"
    BY <2>1, <2>2 DEF Snapshot!Begin, Snapshot!Next
  <2>3. CASE from = "begun" /\ to = "frozen"
    BY <2>1, <2>3 DEF Snapshot!Freeze, Snapshot!Next
  <2>4. CASE from = "begun" /\ to = "out"
    BY <2>1, <2>4 DEF Snapshot!GiveUp, Snapshot!Next
  <2>5. CASE from = "thawed" /\ to = "out"
    BY <2>1, <2>5 DEF Snapshot!Return, Snapshot!Next
  <2> QED
    BY <1>2, <2>2, <2>3, <2>4, <2>5
<1> USE PhaseNames, NextPhaseNames DEF TypeInv, TypeOK, BegunPC, HeldPC, ThawedPC, OutPC
<1>3. CASE Call(t)
  <2>1. pc[t] = "user" /\ pc'[t] = "track_tgid" /\ UNCHANGED taskVars
    BY <1>0, <1>3 DEF Call, UserMode, At, Goto, kernel
  <2> QED
    BY <1>2, <2>1
<1>4. CASE Handler(t)
  <2>1. CASE LeaderClone(t) /\ pc'[t] # "cont"
    <3>1. pc[t] = "fork" /\ pc'[t] = "await"
      BY <1>0, <2>1 DEF LeaderClone, Step, At, Goto, FreshPid
    <3> QED
      BY <1>1, <3>1
  <2>2. CASE Handler(t) /\ pc'[t] = "cont"
    <3>1. pc[t] \in HeldPC /\ UNCHANGED taskVars
      <4>1. CASE LeaderClone(t)
        BY <1>0, <2>2, <4>1 DEF LeaderClone, Step, At, FreshPid
      <4>2. CASE WaitForClone(t)
        BY <4>2 DEF WaitForClone, Step, At, kernel
      <4>3. CASE ScanThreads(t) \/ FullforkWait(t)
        BY <1>0, <2>2, <4>3 DEF ScanThreads, FullforkWait, Step, At, Goto
      <4>4. CASE TrackTgid(t) \/ KillStop(t) \/ WaitInterrupted(t) \/ WaitFailed(t)
        BY <1>0, <2>2, <4>4 DEF TrackTgid, KillStop, WaitInterrupted, WaitFailed, Step, Goto
      <4>5. CASE \/ Unhook(t) \/ InitWaitQueue(t) \/ Continue(t) \/ UntrackPid(t)
                 \/ UntrackTgid(t)
        BY <1>0, <2>2, <4>5 DEF Unhook, InitWaitQueue, Continue, UntrackPid, UntrackTgid,
           Step, Goto
      <4> QED
        BY <2>2, <4>1, <4>2, <4>3, <4>4, <4>5 DEF Handler
    <3> QED
      BY <1>0, <2>2, <3>1, TakeCopyStep DEF Snapshot!Next
  <2>3. CASE Continue(t)
    BY <1>0, <2>3, ThawStep DEF Snapshot!Next
  <2>4. CASE Handler(t) /\ ~LeaderClone(t) /\ pc'[t] # "cont" /\ ~Continue(t)
    <3>1. UNCHANGED taskVars /\ pc[t] # "cont"
      BY <2>4 DEF Handler, TrackTgid, ScanThreads, KillStop, FullforkWait,
         WaitInterrupted, WaitFailed, Unhook, InitWaitQueue, WaitForClone,
         UntrackPid, UntrackTgid, Step, At, kernel
    <3>2. <<PhaseOf(t), PhaseOf(t)'>> \in
            {<<"begun", "begun">>, <<"frozen", "frozen">>, <<"thawed", "thawed">>,
             <<"begun", "frozen">>, <<"begun", "out">>, <<"thawed", "out">>}
      BY <1>0, <2>4 DEF Handler, TrackTgid, ScanThreads, KillStop, FullforkWait,
         WaitInterrupted, WaitFailed, Unhook, InitWaitQueue, WaitForClone,
         UntrackPid, UntrackTgid, Step, At, Goto
    <3> QED
      BY <1>1, <1>2, <3>1, <3>2
  <2> QED
    BY <1>4, <2>1, <2>2, <2>3, <2>4
<1>5. CASE (PullBack(t) \/ Kernel(t) \/ Program(t)) /\ ~Call(t)
  <2>1. pc[t] \in OutPC /\ pc'[t] \in OutPC
    <3>1. CASE PullBack(t)
      BY <1>0, <3>1 DEF PullBack, EnterPullBack, TestClone, Claim, EndLoop, SkipExiting,
         CloneThread, StartThread, DonePid, DoneTgid, WakeCaller, Unclaim, Step, At, Goto,
         FreshPid, BuildPC, DonePC
    <3>2. CASE Kernel(t) \/ Exit(t)
      BY <1>0, <3>2 DEF Kernel, DequeueStop, GroupStop, Release, Exit, NotifyStop, UserMode,
         At, TableInv, Present
    <3>3. CASE Fork(t) \/ Spawn(t)
      BY <1>0, <3>3 DEF Fork, Spawn, UserMode, At, Goto, FreshPid
    <3> QED
      BY <1>5, <3>1, <3>2, <3>3 DEF Program
  <2> QED
    BY <1>1, <2>1
<1> QED
  BY <1>3, <1>4, <1>5

-----------------------------------------------------------------------------
LEMMA InitSnapshot == Init => SnapshotInv /\ Snapshot!Init
<1> SUFFICES ASSUME Init PROVE SnapshotInv /\ Snapshot!Init
  OBVIOUS
<1>1. /\ \A t \in Pid : /\ pc[t] = "user" /\ tgid[t] = Boot[t]
                        /\ life[t] = IF Boot[t] = Outside THEN "free" ELSE "alive"
                        /\ regs[t] = IF Boot[t] = Outside THEN Outside ELSE t
      /\ tgid = Boot
  BY DEF Init, TaskInit
<1>2. SnapshotInv
  BY <1>1, InitReplica DEF SnapshotInv, Unborn
<1>3. \A p \in Pid : Contexts(p) \subseteq Pid
  BY <1>1 DEF Contexts, Group
<1>4. \A t \in Pid : PhaseOf(t) = "out" /\ CopyOf(t) = {} /\ ToldTo(t) = "none"
  BY <1>1, PhaseNames DEF OutPC, CopyOf, ToldTo
<1>5. tgid \in [Pid -> Pid \cup {0}]
  BY <1>1, BootAssumption DEF Outside
<1> QED
  BY <1>2, <1>3, <1>4, <1>5 DEF Snapshot!Init

LEMMA NextSnapshot ==
  ASSUME Disciplined, SnapshotInv, [Next]_vars
  PROVE  SnapshotInv'
<1>1. ReplicaInv'
  BY NextReplica DEF SnapshotInv
<1>2. Unborn'
  <2>1. CASE UNCHANGED kernel
    BY <2>1 DEF SnapshotInv, Unborn, kernel, taskVars
  <2>2. ASSUME NEW t \in Pid, Handler(t) \/ PullBack(t) \/ Kernel(t) \/ Program(t)
        PROVE  Unborn'
    BY <2>2, TaskFootprint, TaskUnborn DEF SnapshotInv, ReplicaInv, BaseInv, DisciplineInv,
       ExclusiveInv
  <2> QED
    BY <2>1, <2>2 DEF Next, InitModule, CleanupModule, Rest, vars
<1> QED
  BY <1>1, <1>2 DEF SnapshotInv

(* insmod and rmmod are nothing to the processes.                          *)
LEMMA ModuleSnapshot ==
  ASSUME InitModule \/ CleanupModule
  PROVE  UNCHANGED Snapshot!vars
<1>1. UNCHANGED <<taskVars, pc, loc>>
  BY DEF InitModule, CleanupModule, kernel
<1>2. /\ \A p \in Pid : Contexts(p)' = Contexts(p)
      /\ \A t \in Pid : PhaseOf(t)' = PhaseOf(t)
  BY <1>1 DEF Contexts, Group, Exiting, PhaseOf, taskVars
<1>3. \A t \in Pid : CopyOf(t)' = CopyOf(t) /\ ToldTo(t)' = ToldTo(t)
  BY <1>1 DEF CopyOf, ToldTo, Members, child, taskVars
<1> QED
  BY <1>1, <1>2, <1>3 DEF Snapshot!vars, taskVars

LEMMA StutterSnapshot ==
  ASSUME UNCHANGED vars
  PROVE  UNCHANGED Snapshot!vars
<1>1. \A p \in Pid : Contexts(p)' = Contexts(p)
  BY DEF vars, kernel, taskVars, Contexts, Group, Exiting
<1>2. \A t \in Pid : /\ PhaseOf(t)' = PhaseOf(t) /\ CopyOf(t)' = CopyOf(t)
                     /\ ToldTo(t)' = ToldTo(t)
  BY DEF vars, kernel, taskVars, PhaseOf, CopyOf, ToldTo, Members, child
<1> QED
  BY <1>1, <1>2 DEF Snapshot!vars, vars, kernel, taskVars

(* The whole of fullfork.c, the stop with its hooks, the wait, the fork,   *)
(* the loop of my_pull_back, the wait queue and the two tracked ids, is    *)
(* for the processes that use it one step that copies one state of the     *)
(* caller, or says that it failed, between a freeze and a thaw.            *)
THEOREM FullForkIsASnapshot ==
  ASSUME Disciplined
  PROVE  Spec => ImplementsSnapshot
<1>1. SnapshotInv /\ [Next]_vars => SnapshotInv'
  BY NextSnapshot
<1>2. SnapshotInv /\ SnapshotInv' /\ CloneIsReplica /\ CloneIsReplica' /\ [Next]_vars
        => [Snapshot!Next]_(Snapshot!vars)
  <2> SUFFICES ASSUME SnapshotInv, SnapshotInv', CloneIsReplica, CloneIsReplica', [Next]_vars
               PROVE  Snapshot!Next \/ UNCHANGED Snapshot!vars
    OBVIOUS
  <2>1. ASSUME NEW t \in Pid, Handler(t) \/ PullBack(t) \/ Kernel(t) \/ Program(t)
        PROVE  Snapshot!Next
    BY <2>1, TaskSnapshot DEF SnapshotInv
  <2> QED
    BY <2>1, ModuleSnapshot, StutterSnapshot DEF Next, Rest
<1>3. Spec => []CloneIsReplica
  BY TheCloneIsAReplica
<1> QED
  BY <1>1, <1>2, <1>3, InitSnapshot, PTL DEF Spec, ImplementsSnapshot, Snapshot!Spec
=============================================================================
