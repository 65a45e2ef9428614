------------------------- MODULE FullForkBuilderProofs -------------------------
(***************************************************************************)
(* Who runs my_pull_back for a call, where calls are spaced and no thread  *)
(* forks while its process calls: the clone of the caller, and after it    *)
(* such of its threads as passed the first test of my_pull_back before it  *)
(* had finished and the second one after; the caller goes on only when the *)
(* clone is done; and neither of the two waits of the caller sleeps through*)
(* what it waits for.                                                      *)
(***************************************************************************)
EXTENDS FullForkProofs

(* Tasks of a calling process that also fork by themselves.                *)
ForkingCallers == {f \in Forkers : Boot[f] \in Callers}

(* What the code asks of its users and of the schedule without enforcing   *)
(* it.  A thread that a full fork has made does not create tasks itself:   *)
(* its parent is the caller, and so would be that of its threads.  In a    *)
(* process that calls, the leader may fork before and after, if no thread  *)
(* exits: a call that gave up would leave it tracked, and the next task it *)
(* forked would be taken for a leader's clone.                             *)
Disciplined ==
  /\ Spaced
  /\ \A t \in Forkers \cup Spawners : Boot[t] # Outside
  /\ \A f \in ForkingCallers :
       Boot[f] = f /\ \A u \in Exiters : Boot[u] \notin {f, Outside}

EarlyPC    == {"track_tgid", "scan", "kill", "wait", "wait_sleep", "resume", "unhook",
               "init_wq", "fork"}
WaitingPC  == {"await", "asleep"}
LatePC     == {"done_tgid", "wake", "unclaim"}
FinishedPC == LatePC \cup {"user"}

Working(c) == Building(c) \/ pc[c] \in DonePC
Builds(c)  == Building(c) \/ pc[c] = "done_pid"

(* A group leader, and one that my_pull_back has let in by its first test. *)
Leads(c)   == tgid[c] = c
Engaged(c) == Leads(c) /\ (Builds(c) \/ pc[c] = "tail_flag")

(* c is the task that the caller t has forked and waits for.               *)
CallOf(t, c) ==
  /\ pc[t] \in WaitingPC /\ child(t) = c
  /\ life[c] # "free" /\ real_parent[c] = t /\ tgid[c] = c /\ tgid[t] = t
  /\ ff.tracked_pid = t

(* Calls are made one at a time.                                           *)
Serial == \A t, u \in Pid : InHandler(t) /\ InHandler(u) => t = u

Orphaned == \A t \in Pid : Boot[t] # Outside => real_parent[t] = Outside

ParentsTaken ==
  \A t \in Pid : life[t] # "free" /\ real_parent[t] # Outside =>
    life[real_parent[t]] # "free"

KinInv == Serial /\ Orphaned /\ ParentsTaken

InUse   == \A t \in Pid : InModule(t) => ff.loaded
Tracked == ff.tracked_pid \in Callers \cup {-1}

EarlyIds == \A t \in Pid : pc[t] \in EarlyPC => /\ ff.tracked_pid = t
                                              /\ child(t) = Outside

(* A leader at work is alone at work, and its flag stands.                 *)
OneBuilder == \A c, d \in Pid : Working(c) /\ Working(d) /\ Leads(c) => c = d

Claimed == \A c \in Pid : pc[c] \in {"loop", "start"} \cup DonePC /\ Leads(c) => ff.clone

BuildsForCall == \A c \in Pid : Engaged(c) => \E t \in Pid : CallOf(t, c)

(* A thread let in by the first test is held by the second one as long as  *)
(* its leader is at work; a thread that builds is past that.               *)
ThreadsHeld ==
  \A c \in Pid : pc[c] = "tail_flag" /\ ~Leads(c) => ff.clone \/ ff.tracked_pid = -1

LateUntracked ==
  \A c \in Pid : pc[c] \in LatePC \/ (Working(c) /\ ~Leads(c)) => ff.tracked_pid = -1

(* Whoever my_pull_back would let build is the child of the caller.        *)
TailOfCall ==
  \A c \in Pid : /\ pc[c] = "tail" /\ ff.loaded /\ (~ff.clone \/ Leads(c))
                 /\ PPid(c) = ff.tracked_pid
              => \E t \in Pid : CallOf(t, c)

Answered ==
  \A t \in Pid :
    /\ pc[t] \in WaitingPC => child(t) \in Pid
    /\ \/ pc[t] \in WaitingPC /\ ff.tracked_pid = -1
       \/ pc[t] = "cont" /\ child(t) # Outside
       => /\ tgid[t] = t
          /\ child(t) \in Pid /\ life[child(t)] # "free" /\ pc[child(t)] \in FinishedPC

BuilderInv ==
  /\ InUse /\ Tracked /\ EarlyIds /\ OneBuilder /\ Claimed /\ BuildsForCall
  /\ ThreadsHeld /\ LateUntracked /\ TailOfCall /\ Answered

-----------------------------------------------------------------------------
(* Who is whose child.  A task passes to another parent only if its own is *)
(* released, and then to a thread of the same group.                       *)

Kin(t) ==
  \A u \in Pid :
    /\ life[u] # "free" =>
         \/ real_parent'[u] = real_parent[u]
         \/ /\ real_parent[u] = t /\ life[t] = "exiting"
            /\ real_parent'[u] \in Siblings(t)
    /\ life[u] = "free" /\ life'[u] # "free" =>
         real_parent'[u] \in {t, real_parent[t]} /\ life[t] = "alive"

LEMMA TaskKin ==
  ASSUME TypeInv, TableInv, NEW t \in Pid,
         Handler(t) \/ PullBack(t) \/ Kernel(t) \/ Program(t)
  PROVE  Kin(t)
<1> USE DEF TypeInv, TypeOK, TaskTypeOK
<1>0. ASSUME UNCHANGED real_parent, \A u \in Pid : life[u] = "free" => life'[u] = "free"
      PROVE  Kin(t)
  BY <1>0 DEF Kin
<1>1. CASE LeaderClone(t)
  BY <1>0, <1>1 DEF LeaderClone, CopyProcess, At, FreshPid, Kin, taskVars
<1>2. CASE CloneThread(t)
  BY <1>0, <1>2 DEF CloneThread, CopyProcess, At, FreshPid, Kin, taskVars
<1>3. CASE Fork(t)
  BY <1>3 DEF Fork, CopyProcess, UserMode, At, FreshPid, Kin
<1>4. CASE Spawn(t)
  BY <1>4 DEF Spawn, NewThread, UserMode, At, FreshPid, Kin
<1>5. CASE StartThread(t)
  <2>1. life[child(t)] = "new"
    BY <1>5 DEF StartThread, Step, At, TableInv, Starting
  <2> QED
    BY <1>0, <1>5, <2>1 DEF StartThread, WakeWithRegs
<1>6. CASE Release(t)
  BY <1>6 DEF Release, ReleaseTask, Kin
<1>7. CASE Handler(t) /\ ~LeaderClone(t)
  BY <1>0, <1>7 DEF Handler, TrackTgid, ScanThreads, KillStop, FullforkWait,
     WaitInterrupted, WaitFailed, Unhook, InitWaitQueue, WaitForClone, Continue,
     UntrackPid, UntrackTgid, kernel, taskVars
<1>8. CASE PullBack(t) /\ ~CloneThread(t) /\ ~StartThread(t)
  BY <1>0, <1>8 DEF PullBack, EnterPullBack, TestClone, Claim, EndLoop, SkipExiting,
     DonePid, DoneTgid, WakeCaller, Unclaim, kernel, taskVars
<1>9. CASE Call(t) \/ DequeueStop(t) \/ GroupStop(t) \/ Exit(t)
  BY <1>0, <1>9 DEF Call, DequeueStop, GroupStop, Exit, TaskExit, At, kernel, taskVars
<1> QED
  BY <1>1, <1>2, <1>3, <1>4, <1>5, <1>6, <1>7, <1>8, <1>9 DEF Kernel, Program

(* task_ppid_nr() of a task never changes.                                 *)
LEMMA PPidKept ==
  ASSUME TypeInv, KinInv, NEW t \in Pid, Frame(t), Kin(t), NEW u \in Pid,
         life[u] # "free"
  PROVE  PPid(u)' = PPid(u)
<1>1. CASE real_parent'[u] = real_parent[u]
  BY <1>1 DEF PPid, KinInv, ParentsTaken, Frame, TypeInv, TypeOK, TaskTypeOK, Pid, Outside
<1>2. CASE real_parent[u] = t /\ life[t] = "exiting" /\ real_parent'[u] \in Siblings(t)
  <2>1. PICK v \in Pid : v = real_parent'[u] /\ tgid[v] = tgid[t] /\ life[v] # "free"
    BY <1>2 DEF Siblings, Group
  <2> QED
    BY <1>2, <2>1 DEF PPid, Frame, Pid, Outside
<1> QED
  BY <1>1, <1>2 DEF Kin

LEMMA TaskKinInv ==
  ASSUME Spaced, TypeInv, TableInv, Settled, KinInv, NEW t \in Pid,
         Footprint(t), Frame(t), Kin(t)
  PROVE  KinInv'
<1> USE DEF KinInv
<1>1. Serial'
  <2>1. \A u \in Pid \ {t} : InHandler(u)' => InHandler(u)
    BY DEF Footprint, Untouched, Made, Started, Woken, InHandler, HandlerPC
  <2>2. Call(t) => \A u \in Pid : ~InHandler(u)
    BY DEF Call, InHandler, HandlerPC
  <2> QED
    BY <2>1, <2>2 DEF Footprint, Serial
<1>2. Orphaned'
  BY DEF Orphaned, Settled, Kin, Pid, Outside
<1>3. ParentsTaken'
  <2> SUFFICES ASSUME NEW u \in Pid, life'[u] # "free", real_parent'[u] # Outside
               PROVE  life'[real_parent'[u]] # "free"
    BY DEF ParentsTaken
  <2>1. CASE life[u] # "free" /\ real_parent'[u] = real_parent[u]
    BY <2>1 DEF ParentsTaken, Frame, TypeInv, TypeOK, TaskTypeOK
  <2>2. CASE real_parent'[u] \in Siblings(t)
    BY <2>2 DEF Siblings, Group, Frame
  <2>3. CASE real_parent'[u] \in {t, real_parent[t]} /\ life[t] = "alive"
    BY <2>3 DEF ParentsTaken, Frame, TypeInv, TypeOK, TaskTypeOK
  <2> QED
    BY <2>1, <2>2, <2>3 DEF Kin
<1> QED
  BY <1>1, <1>2, <1>3

-----------------------------------------------------------------------------
(* What a step of t does to the ids and the flag, and where it takes t:    *)
(* enough to know about a step to see that BuilderInv is kept.             *)

AllOut == \A u \in Pid : pc[u] = "user"

IdsMove(t) ==
  /\ ff'.loaded = ff.loaded
  /\ ff'.tracked_pid \in Callers \cup {-1}
  /\ \/ ff'.tracked_pid = ff.tracked_pid
     \/ ff'.tracked_pid = -1 /\ \A u \in Pid : pc[u] \notin EarlyPC
     \/ AllOut /\ ff'.tracked_pid = t
  /\ ff'.tracked_pid # ff.tracked_pid =>
       ~Engaged(t)' /\ \A d \in Pid : Engaged(d) => d = t
  /\ \A u \in Pid : /\ ff.tracked_pid # -1 /\ ff'.tracked_pid = -1
                    /\ u # t /\ pc[u] \in WaitingPC
       => child(u) = t /\ pc'[t] \in LatePC /\ tgid[u] = u
  /\ ff.clone /\ ~ff'.clone => /\ ff.tracked_pid = -1 /\ ff'.tracked_pid = -1
                               /\ \A d \in Pid \ {t} : Leads(d) => ~Working(d)

GoesOn(t) ==
  /\ InModule(t)' => ff.loaded
  /\ pc'[t] = "tail_flag" => UNCHANGED ff /\ (Leads(t) \/ ff.clone)
  /\ pc'[t] \in EarlyPC => ff'.tracked_pid = t /\ child(t)' = Outside
  /\ Working(t)' => Working(t) \/ \A d \in Pid : Working(d) => ~Leads(d) /\ ~Leads(t)
  /\ pc'[t] \in {"loop", "start"} \cup DonePC /\ Leads(t) => ff'.clone
  /\ Engaged(t)' => \E u \in Pid : CallOf(u, t)
  /\ pc'[t] \in LatePC \/ (Working(t)' /\ ~Leads(t)) => ff'.tracked_pid = -1
  /\ pc'[t] = "tail" => FALSE
  /\ pc[t] \in FinishedPC => pc'[t] \in FinishedPC \/ AllOut
  /\ pc[t] \in WaitingPC /\ ff.tracked_pid # -1 =>
       pc'[t] \in WaitingPC /\ child(t)' = child(t)

AnswersTo(t) ==
  /\ pc'[t] \in WaitingPC => child(t)' \in Pid
  /\ \/ pc'[t] \in WaitingPC /\ ff'.tracked_pid = -1
     \/ pc'[t] = "cont" /\ child(t)' # Outside
     => /\ child(t)' \in Pid \ {t} /\ life[child(t)'] # "free" /\ pc[child(t)'] \in FinishedPC
        /\ tgid[t] = t

MakesOwn(t) ==
  \A u \in Pid : /\ Made(u) /\ ff.loaded /\ (~ff'.clone \/ tgid'[u] = u)
                 /\ PPid(u)' = ff'.tracked_pid
              => CallOf(t, u)'

Local(t) == IdsMove(t) /\ GoesOn(t) /\ AnswersTo(t) /\ MakesOwn(t)

LEMMA PPidType ==
  ASSUME TypeInv, NEW c \in Pid PROVE PPid(c) # -1
BY DEF PPid, TypeInv, TypeOK, TaskTypeOK, Pid, Outside

LEMMA CallKept ==
  ASSUME TypeInv, TableInv, KinInv, NEW t \in Pid, Footprint(t), Frame(t), Kin(t),
         Local(t), NEW u \in Pid, NEW c \in Pid, CallOf(u, c),
         ff'.tracked_pid = ff.tracked_pid
  PROVE  CallOf(u, c)'
<1>1. life[u] = "alive" /\ ff.tracked_pid # -1
  BY DEF CallOf, WaitingPC, TableInv, Present, Pid
<1>2. pc'[u] \in WaitingPC /\ child(u)' = child(u)
  BY <1>1 DEF Local, GoesOn, Footprint, Untouched, Made, Started, Woken, Frame, CallOf,
     WaitingPC, child
<1>3. /\ life'[c] # "free" /\ tgid'[c] = tgid[c] /\ tgid'[u] = tgid[u]
      /\ real_parent'[c] = real_parent[c]
  BY <1>1 DEF CallOf, Frame, Kin
<1> QED
  BY <1>2, <1>3 DEF CallOf

LEMMA LocalBuilder ==
  ASSUME TypeInv, TableInv, KinInv, BuilderInv, NEW t \in Pid, Footprint(t), Frame(t),
         Kin(t), Local(t)
  PROVE  BuilderInv'
<1> USE DEF BuilderInv, Local
<1>1. ASSUME NEW u \in Pid, u # t
      PROVE  \/ pc'[u] = pc[u]
             \/ Woken(u)
             \/ Made(u) /\ pc'[u] = "tail"
  BY <1>1 DEF Footprint, Untouched, Made, Started
<1>2. ASSUME NEW u \in Pid, u # t, pc[u] \notin {"user", "tail"}
      PROVE  child(u)' = child(u)
  BY <1>2 DEF TableInv, Present, Frame, child
<1>0. \A u \in Pid : life[u] # "free" => tgid'[u] = tgid[u]
  BY DEF Frame
<1>10. ASSUME NEW u \in Pid, pc'[u] \notin {"user", "tail"} PROVE life[u] # "free"
  <2>1. CASE u = t
    BY <2>1 DEF Footprint, Moved, Ended
  <2>2. CASE u # t
    <3>1. pc[u] \notin {"user", "tail"}
      BY <1>1, <1>10, <2>2 DEF Woken
    <3> QED
      BY <3>1 DEF TableInv, Present
  <2> QED
    BY <2>1, <2>2
<1>11. ASSUME NEW u \in Pid, pc'[u] \notin {"user", "tail"} PROVE Leads(u)' <=> Leads(u)
  BY <1>0, <1>10, <1>11 DEF Leads
<1>3. InUse' /\ Tracked'
  BY <1>1 DEF Woken, InUse, Tracked, IdsMove, GoesOn, InModule, HandlerPC, BuildPC, DonePC
<1>4. EarlyIds'
  <2> SUFFICES ASSUME NEW u \in Pid, pc'[u] \in EarlyPC
               PROVE  ff'.tracked_pid = u /\ child(u)' = Outside
    BY DEF EarlyIds
  <2>1. CASE u # t
    <3>1. pc[u] \in EarlyPC
      BY <1>1, <2>1 DEF EarlyPC, Woken
    <3>2. child(u)' = child(u) /\ ff.tracked_pid = u /\ child(u) = Outside
      BY <1>2, <2>1, <3>1 DEF EarlyIds, EarlyPC
    <3>3. pc[u] # "user"
      BY <3>1 DEF EarlyPC
    <3> QED
      BY <3>1, <3>2, <3>3 DEF IdsMove, AllOut
  <2> QED
    BY <2>1 DEF GoesOn
<1>5. OneBuilder' /\ Claimed'
  <2>1. \A u \in Pid \ {t} : /\ Working(u)' => Working(u)
                             /\ pc'[u] \in {"loop", "start"} \cup DonePC => pc'[u] = pc[u]
    BY <1>1 DEF Woken, Working, Building, BuildPC, DonePC
  <2>4. \A u \in Pid : Working(u)' => (Leads(u)' <=> Leads(u))
    BY <1>11 DEF Working, Building, BuildPC, DonePC
  <2>2. OneBuilder'
    BY <2>1, <2>4 DEF OneBuilder, GoesOn
  <2>3. Claimed'
    BY <2>1, <2>4 DEF Claimed, GoesOn, IdsMove, Working, Building, BuildPC
  <2> QED
    BY <2>2, <2>3
<1>6. BuildsForCall'
  <2> SUFFICES ASSUME NEW c \in Pid, Engaged(c)' PROVE \E u \in Pid : CallOf(u, c)'
    BY DEF BuildsForCall
  <2>1. c # t => Engaged(c)
    BY <1>1, <1>11 DEF Woken, Engaged, Builds, Building, BuildPC
  <2>2. \E u \in Pid : CallOf(u, c)
    BY <2>1 DEF BuildsForCall, GoesOn
  <2>3. ff'.tracked_pid = ff.tracked_pid
    BY <2>1 DEF IdsMove
  <2> QED
    BY <2>2, <2>3, CallKept
<1>7. LateUntracked'
  <2> SUFFICES ASSUME NEW c \in Pid, pc'[c] \in LatePC \/ (Working(c)' /\ ~Leads(c)')
               PROVE  ff'.tracked_pid = -1
    BY DEF LateUntracked
  <2>1. Leads(c)' <=> Leads(c)
    BY <1>11 DEF LatePC, Working, Building, BuildPC, DonePC
  <2>2. CASE c = t
    BY <2>1, <2>2 DEF GoesOn
  <2>3. CASE c # t
    <3>1. pc[c] \in LatePC \/ (Working(c) /\ ~Leads(c))
      BY <1>1, <2>1, <2>3 DEF Woken, LatePC, Working, Building, BuildPC, DonePC
    <3>2. ff.tracked_pid = -1 /\ ~AllOut
      BY <3>1 DEF LateUntracked, AllOut, LatePC, Working, Building, BuildPC, DonePC
    <3> QED
      BY <3>2 DEF IdsMove
  <2> QED
    BY <2>2, <2>3
<1>12. ThreadsHeld'
  <2> SUFFICES ASSUME NEW c \in Pid, pc'[c] = "tail_flag", ~Leads(c)'
               PROVE  ff'.clone \/ ff'.tracked_pid = -1
    BY DEF ThreadsHeld
  <2>1. ~Leads(c)
    BY <1>11
  <2>2. CASE c = t
    BY <2>1, <2>2 DEF GoesOn
  <2>3. CASE c # t
    <3>1. pc[c] = "tail_flag"
      BY <1>1, <2>3 DEF Woken
    <3>2. ff.clone \/ ff.tracked_pid = -1
      BY <2>1, <3>1 DEF ThreadsHeld
    <3> QED
      BY <3>1, <3>2 DEF IdsMove, AllOut
  <2> QED
    BY <2>2, <2>3
<1>8. TailOfCall'
  <2> SUFFICES ASSUME NEW c \in Pid, pc'[c] = "tail", ff'.loaded,
                      ~ff'.clone \/ Leads(c)', PPid(c)' = ff'.tracked_pid
               PROVE  \E u \in Pid : CallOf(u, c)'
    BY DEF TailOfCall
  <2>1. c # t /\ ff.loaded
    BY DEF GoesOn, IdsMove
  <2>2. CASE Made(c)
    BY <2>1, <2>2 DEF MakesOwn, Leads
  <2>3. CASE ~Made(c)
    <3>1. pc[c] = "tail" /\ life[c] # "free"
      BY <1>1, <2>1, <2>3 DEF Woken, TableInv, Present
    <3>2. PPid(c)' = PPid(c) /\ (Leads(c)' <=> Leads(c))
      BY <1>0, <3>1, PPidKept DEF Leads
    <3>3. ff'.tracked_pid = ff.tracked_pid /\ (~ff.clone \/ Leads(c))
      BY <3>1, <3>2, PPidType DEF IdsMove, AllOut
    <3> QED
      BY <2>1, <3>1, <3>2, <3>3, CallKept DEF TailOfCall
  <2> QED
    BY <2>2, <2>3
<1>9. Answered'
  <2>1. ASSUME NEW u \in Pid, u # t, pc'[u] \in WaitingPC
        PROVE  pc[u] \in WaitingPC /\ child(u)' = child(u) /\ child(u) \in Pid
    <3>1. pc[u] \in WaitingPC
      BY <1>1, <2>1 DEF WaitingPC, Footprint, Untouched, Made, Started, Woken
    <3> QED
      BY <1>2, <2>1, <3>1 DEF Answered, WaitingPC
  <2>2. ASSUME NEW c \in Pid, life[c] # "free", pc[c] \in FinishedPC, ~AllOut
        PROVE  life'[c] # "free" /\ pc'[c] \in FinishedPC
    BY <1>1, <2>2 DEF Woken, Frame, FinishedPC, LatePC, Made, GoesOn
  <2>3. ASSUME NEW u \in Pid, u # t, pc'[u] \in WaitingPC, ff'.tracked_pid = -1
        PROVE  life'[child(u)] # "free" /\ pc'[child(u)] \in FinishedPC /\ tgid[u] = u
    <3>1. CASE ff.tracked_pid = -1
      BY <2>1, <2>2, <2>3, <3>1 DEF Answered, AllOut, WaitingPC
    <3>2. CASE ff.tracked_pid # -1
      <4>1. child(u) = t /\ pc'[t] \in LatePC /\ tgid[u] = u
        BY <2>1, <2>3, <3>2 DEF IdsMove
      <4> QED
        BY <4>1 DEF FinishedPC, Footprint, Moved, Ended
    <3> QED
      BY <3>1, <3>2
  <2>4. ASSUME NEW u \in Pid, u # t, pc'[u] = "cont", child(u)' # Outside
        PROVE  /\ child(u)' \in Pid /\ life'[child(u)'] # "free"
               /\ pc'[child(u)'] \in FinishedPC /\ tgid[u] = u
    <3>1. pc[u] = "cont" /\ child(u)' = child(u)
      BY <1>1, <1>2, <2>4 DEF Woken
    <3> QED
      BY <2>2, <2>4, <3>1 DEF Answered, AllOut
  <2>5. /\ pc'[t] \in WaitingPC => child(t)' \in Pid
        /\ \/ pc'[t] \in WaitingPC /\ ff'.tracked_pid = -1
           \/ pc'[t] = "cont" /\ child(t)' # Outside
           => /\ child(t)' \in Pid /\ life'[child(t)'] # "free"
              /\ pc'[child(t)'] \in FinishedPC /\ tgid[t] = t
    <3>1. ASSUME NEW c \in Pid \ {t}, life[c] # "free", pc[c] \in FinishedPC
          PROVE  life'[c] # "free" /\ pc'[c] \in FinishedPC
      BY <1>1, <3>1 DEF Woken, Frame, FinishedPC, LatePC, Made
    <3> QED
      BY <3>1 DEF AnswersTo
  <2>6. \A u \in Pid : pc'[u] \in WaitingPC \cup {"cont"} => tgid'[u] = tgid[u]
    <3> SUFFICES ASSUME NEW u \in Pid, pc'[u] \in WaitingPC \cup {"cont"}
                 PROVE  life[u] # "free"
      BY DEF Frame
    <3>1. CASE u = t
      BY <3>1 DEF Footprint, Moved, Ended
    <3>2. CASE u # t
      <4>1. pc[u] \notin {"user", "tail"}
        BY <1>1, <3>2 DEF Woken, WaitingPC
      <4> QED
        BY <4>1 DEF TableInv, Present
    <3> QED
      BY <3>1, <3>2
  <2> QED
    BY <2>1, <2>3, <2>4, <2>5, <2>6 DEF Answered
<1> QED
  BY <1>3, <1>4, <1>5, <1>6, <1>7, <1>8, <1>9, <1>12

-----------------------------------------------------------------------------
(* The steps, one by one.                                                  *)

SameIds ==
  /\ ff'.tracked_pid = ff.tracked_pid /\ ff'.clone = ff.clone /\ ff'.loaded = ff.loaded
NoneMade == \A u \in Pid : life[u] = "free" => life'[u] = "free"

(* Only those exit that may.                                               *)
ExitersOnly == \A t \in Pid : Exiting(t) => t \in Exiters

(* As long as f is tracked its call is under way and has not failed.       *)
Steadfast(f) ==
  /\ pc[f] \in (EarlyPC \ {"resume"}) \cup WaitingPC \cup {"cont", "untrack_pid"}
  /\ pc[f] \in {"scan", "kill", "wait", "wait_sleep"} => ff.tracked_tgid = f
  /\ pc[f] \in {"kill", "wait", "wait_sleep"} =>
       ff.hooks /\ temp(f) \in Pid /\ life[temp(f)] # "free" /\ tgid[temp(f)] = f
  /\ pc[f] \in {"wait", "wait_sleep"} => jobctl[f] \in {"none", "owed"}

LoyalInv ==
  ExitersOnly /\ \A f \in ForkingCallers : ff.tracked_pid = f => Steadfast(f)

(* What the lemmas below assume of the state.                              *)
DisciplineInv == ExclusiveInv /\ KinInv /\ BuilderInv /\ LoyalInv

(* A step within the handler that leaves the ids alone.                    *)
LEMMA QuietLocal ==
  ASSUME DisciplineInv, NEW t \in Pid, SameIds, NoneMade, InHandler(t),
         child(t)' = child(t), InHandler(t)' \/ pc'[t] = "user",
         pc'[t] \in EarlyPC => pc[t] \in EarlyPC,
         pc'[t] \in WaitingPC => pc[t] \in WaitingPC,
         pc'[t] = "cont" => pc[t] = "fork" \/ (pc[t] \in WaitingPC /\ ff.tracked_pid = -1),
         pc[t] \in WaitingPC /\ ff.tracked_pid # -1 => pc'[t] \in WaitingPC
  PROVE  Local(t)
<1> USE DEF DisciplineInv, BuilderInv, SameIds
<1>1. IdsMove(t)
  BY DEF IdsMove, Tracked
<1>2. GoesOn(t)
  <2>1. ff.loaded
    BY DEF InUse, InModule, InHandler
  <2>2. ~Working(t)' /\ ~Engaged(t)' /\ pc'[t] \notin LatePC \cup DonePC \cup
          {"loop", "start", "tail_flag", "tail"} /\ pc[t] \notin FinishedPC
    BY DEF InHandler, HandlerPC, Working, Engaged, Builds, Building, BuildPC, DonePC, LatePC,
       FinishedPC
  <2>3. pc'[t] \in EarlyPC => ff'.tracked_pid = t /\ child(t)' = Outside
    BY DEF EarlyIds
  <2> QED
    BY <2>1, <2>2, <2>3 DEF GoesOn
<1>3. AnswersTo(t)
  <2>1. pc[t] \notin FinishedPC
    BY DEF InHandler, HandlerPC, FinishedPC, LatePC
  <2>2. pc[t] = "fork" => child(t) = Outside
    BY DEF EarlyIds, EarlyPC
  <2> QED
    BY <2>1, <2>2 DEF Answered, AnswersTo, WaitingPC
<1>4. MakesOwn(t)
  BY DEF MakesOwn, Made, NoneMade
<1> QED
  BY <1>1, <1>2, <1>3, <1>4 DEF Local

LEMMA LeaderLocal ==
  ASSUME DisciplineInv, NEW t \in Pid, NEW c \in Pid, At(t, "fork"), FreshPid(c),
         CopyProcess(c, t, c, t, "alive"), loc' = [loc EXCEPT ![t].child = c],
         pc' = [pc EXCEPT ![t] = "await", ![c] = "tail"], UNCHANGED ff
  PROVE  Local(t)
<1> USE DEF DisciplineInv, BuilderInv
<1>1. /\ pc[t] = "fork" /\ life[t] = "alive" /\ life[c] = "free" /\ c # t
      /\ pc'[t] = "await" /\ child(t)' = c /\ life'[c] = "alive"
      /\ tgid'[c] = c /\ tgid'[t] = tgid[t] /\ real_parent'[c] = t
      /\ \A u \in Pid \ {c} : life'[u] = life[u]
  BY DEF At, FreshPid, CopyProcess, child, ExclusiveInv, TypeInv, TypeOK, TaskTypeOK, Locals
<1>2. ff.tracked_pid = t /\ ff.loaded
  BY <1>1 DEF EarlyIds, EarlyPC, InUse, InModule, HandlerPC
<1>3. IdsMove(t)
  BY DEF IdsMove, Tracked
<1>4. GoesOn(t)
  BY <1>1, <1>2 DEF GoesOn, EarlyPC, Working, Engaged, Builds, Building, BuildPC, DonePC,
     LatePC, FinishedPC, WaitingPC
<1>5. AnswersTo(t)
  BY <1>1, <1>2 DEF AnswersTo, Pid
<1>6. MakesOwn(t)
  <2> SUFFICES ASSUME NEW u \in Pid, Made(u), PPid(u)' = ff'.tracked_pid
               PROVE  CallOf(t, u)'
    BY DEF MakesOwn
  <2>1. u = c
    BY <1>1 DEF Made
  <2>2. PPid(c)' = tgid[t]
    BY <1>1 DEF PPid, Pid, Outside
  <2> QED
    BY <1>1, <1>2, <2>1, <2>2 DEF CallOf, WaitingPC
<1> QED
  BY <1>3, <1>4, <1>5, <1>6 DEF Local

LEMMA UntrackLocal ==
  ASSUME DisciplineInv, NEW t \in Pid, UntrackPid(t)
  PROVE  Local(t)
<1> USE DEF DisciplineInv, BuilderInv
<1>1. /\ pc[t] = "untrack_pid" /\ pc'[t] = "untrack_tgid" /\ UNCHANGED <<life, loc>>
      /\ ff'.tracked_pid = -1 /\ ff'.clone = ff.clone /\ ff'.loaded = ff.loaded
  BY DEF UntrackPid, Step, At, Goto, kernel, taskVars, ExclusiveInv, TypeInv, TypeOK, Globals
<1>2. \A u \in Pid : u # t => ~InHandler(u)
  BY <1>1 DEF KinInv, Serial, InHandler, HandlerPC
<1>3. \A u \in Pid : pc[u] \notin EarlyPC \cup WaitingPC /\ ~Engaged(u)
  <2>1. \A u \in Pid : pc[u] \notin EarlyPC \cup WaitingPC
    BY <1>1, <1>2 DEF InHandler, HandlerPC, EarlyPC, WaitingPC
  <2> QED
    BY <2>1 DEF BuildsForCall, CallOf
<1>4. IdsMove(t) /\ GoesOn(t) /\ AnswersTo(t) /\ MakesOwn(t)
  <2>1. ff.loaded
    BY <1>1 DEF InUse, InModule, HandlerPC
  <2>2. IdsMove(t)
    BY <1>1, <1>3 DEF IdsMove, Engaged, Builds, Building, BuildPC
  <2>3. GoesOn(t)
    BY <1>1, <2>1 DEF GoesOn, EarlyPC, Working, Engaged, Builds, Building, BuildPC, DonePC,
       LatePC, FinishedPC, WaitingPC
  <2> QED
    BY <1>1, <2>2, <2>3 DEF AnswersTo, MakesOwn, Made, WaitingPC
<1> QED
  BY <1>4 DEF Local

LEMMA HandlerLocal ==
  ASSUME DisciplineInv, NEW t \in Pid, Handler(t)
  PROVE  Local(t)
<1> USE DEF DisciplineInv, ExclusiveInv, TypeInv, TypeOK
<1>0. ASSUME NEW l, NEW m, Step(t, l, m), SameIds, UNCHANGED life, child(t)' = child(t),
             l \in HandlerPC, m \in HandlerPC \cup {"user"}, m \in EarlyPC => l \in EarlyPC,
             m \in WaitingPC => l \in WaitingPC,
             m = "cont" => l = "fork" \/ (l \in WaitingPC /\ ff.tracked_pid = -1),
             l \in WaitingPC /\ ff.tracked_pid # -1 => m \in WaitingPC
      PROVE  Local(t)
  <2>1. pc[t] = l /\ pc'[t] = m
    BY <1>0 DEF Step, At, Goto
  <2> QED
    BY <1>0, <2>1, QuietLocal DEF InHandler, NoneMade
<1>1. CASE TrackTgid(t)
  BY <1>0, <1>1 DEF TrackTgid, SameIds, Globals, child, kernel, taskVars, HandlerPC,
     EarlyPC, WaitingPC
<1>2. CASE ScanThreads(t)
  <2>1. child(t)' = child(t)
    BY <1>2 DEF ScanThreads, child, Locals
  <2> QED
    BY <1>0, <1>2, <2>1 DEF ScanThreads, SameIds, Globals, kernel, taskVars, HandlerPC,
       EarlyPC, WaitingPC
<1>3. CASE KillStop(t)
  BY <1>0, <1>3 DEF KillStop, SameIds, child, taskVars, HandlerPC, EarlyPC, WaitingPC
<1>4. CASE FullforkWait(t)
  BY <1>0, <1>4 DEF FullforkWait, Step, SameIds, child, kernel, taskVars, HandlerPC,
     EarlyPC, WaitingPC
<1>5. CASE WaitInterrupted(t)
  BY <1>0, <1>5 DEF WaitInterrupted, SameIds, child, kernel, taskVars, HandlerPC,
     EarlyPC, WaitingPC
<1>6. CASE WaitFailed(t)
  BY <1>0, <1>6 DEF WaitFailed, SameIds, child, taskVars, HandlerPC, EarlyPC, WaitingPC
<1>7. CASE Unhook(t)
  BY <1>0, <1>7 DEF Unhook, SameIds, Globals, child, taskVars, HandlerPC, EarlyPC,
     WaitingPC
<1>8. CASE InitWaitQueue(t)
  BY <1>0, <1>8 DEF InitWaitQueue, SameIds, Globals, child, kernel, taskVars, HandlerPC,
     EarlyPC, WaitingPC
<1>9. CASE LeaderClone(t)
  <2>1. CASE /\ Step(t, "fork", "cont") /\ UNCHANGED taskVars
             /\ loc' = [loc EXCEPT ![t].err = -1]
    <3>1. child(t)' = child(t)
      BY <2>1 DEF child, Locals
    <3> QED
      BY <1>0, <1>9, <2>1, <3>1 DEF LeaderClone, SameIds, taskVars, HandlerPC, EarlyPC,
         WaitingPC
  <2> QED
    BY <1>9, <2>1, LeaderLocal DEF LeaderClone
<1>10. CASE WaitForClone(t)
  <2>1. child(t)' = child(t)
    BY <1>10 DEF WaitForClone, child, Locals
  <2>2. SameIds /\ UNCHANGED life
    BY <1>10 DEF WaitForClone, SameIds, Globals, kernel, taskVars
  <2>3. \/ Step(t, "await", "cont") /\ ff.tracked_pid = -1
        \/ Step(t, "await", "asleep")
    BY <1>10 DEF WaitForClone
  <2> QED
    BY <1>0, <2>1, <2>2, <2>3 DEF HandlerPC, EarlyPC, WaitingPC
<1>11. CASE Continue(t)
  BY <1>0, <1>11 DEF Continue, SameIds, child, taskVars, HandlerPC, EarlyPC, WaitingPC
<1>12. CASE UntrackTgid(t)
  BY <1>0, <1>12 DEF UntrackTgid, SameIds, Globals, child, kernel, taskVars, HandlerPC,
     EarlyPC, WaitingPC
<1> QED
  BY <1>1, <1>2, <1>3, <1>4, <1>5, <1>6, <1>7, <1>8, <1>9, <1>10, <1>11, <1>12,
     UntrackLocal DEF Handler

(* A step of a building task that leaves it at work.  A leader has the flag*)
(* set; the tasks made are threads, whose parent is known.                 *)
LEMMA BuildLocal ==
  ASSUME DisciplineInv, NEW t \in Pid, ff'.tracked_pid = ff.tracked_pid,
         ff'.loaded = ff.loaded, ff.clone => ff'.clone, Leads(t) => ff'.clone, Working(t),
         pc'[t] \in {"loop", "start"} \cup DonePC, pc'[t] \in LatePC <=> pc[t] \in LatePC,
         \A u \in Pid : Made(u) => tgid'[u] # u /\ PPid(u)' # -1, tgid'[t] = tgid[t]
  PROVE  Local(t)
<1> USE DEF DisciplineInv, BuilderInv
<1>1. IdsMove(t)
  BY DEF IdsMove, Tracked
<1>2. GoesOn(t)
  <2>1. ff.loaded
    BY DEF InUse, InModule, Working, Building
  <2>2. pc'[t] \in LatePC \/ ~Leads(t) => ff'.tracked_pid = -1
    BY DEF LateUntracked
  <2>3. Engaged(t)' => \E u \in Pid : CallOf(u, t)
    BY DEF BuildsForCall, Engaged, Leads, Builds, Building, BuildPC, DonePC, LatePC, Working
  <2>4. pc'[t] \notin EarlyPC \cup {"tail", "tail_flag"} /\ pc[t] \notin WaitingPC
    BY DEF EarlyPC, WaitingPC, DonePC, Working, Building, BuildPC
  <2>5. pc[t] \in FinishedPC => pc'[t] \in FinishedPC
    BY DEF FinishedPC, DonePC, Working, Building, BuildPC
  <2> QED
    BY <2>1, <2>2, <2>3, <2>4, <2>5 DEF GoesOn
<1>3. AnswersTo(t)
  BY DEF AnswersTo, WaitingPC, DonePC
<1>4. MakesOwn(t)
  BY DEF MakesOwn, LateUntracked
<1> QED
  BY <1>1, <1>2, <1>3, <1>4 DEF Local

LEMMA EnterLocal ==
  ASSUME DisciplineInv, NEW t \in Pid, EnterPullBack(t)
  PROVE  Local(t)
<1> USE DEF DisciplineInv, BuilderInv
<1>1. /\ pc[t] = "tail" /\ UNCHANGED <<life, loc, tgid, ff>> /\ SameIds
      /\ \/ pc'[t] = "user"
         \/ pc'[t] = "tail_flag" /\ ff.loaded /\ PPid(t) = ff.tracked_pid
  BY DEF EnterPullBack, Step, At, Goto, kernel, taskVars, SameIds,
     ExclusiveInv, TypeInv, TypeOK
<1>2. IdsMove(t) /\ AnswersTo(t) /\ MakesOwn(t)
  BY <1>1 DEF IdsMove, Tracked, SameIds, AnswersTo, MakesOwn, Made, WaitingPC
<1>3. GoesOn(t)
  <2>1. CASE pc'[t] = "user"
    BY <1>1, <2>1 DEF GoesOn, InModule, HandlerPC, BuildPC, DonePC, EarlyPC, Working,
       Engaged, Builds, Building, LatePC, FinishedPC, WaitingPC
  <2>2. CASE pc'[t] = "tail_flag"
    <3>1. (ff.clone /\ ~Leads(t)) \/ \E u \in Pid : CallOf(u, t)
      BY <1>1, <2>2 DEF TailOfCall
    <3>2. Leads(t) \/ ff.clone
      BY <3>1 DEF CallOf, Leads
    <3>3. Engaged(t)' => \E u \in Pid : CallOf(u, t)
      BY <1>1, <3>1 DEF Engaged, Leads
    <3> QED
      BY <1>1, <2>2, <3>2, <3>3 DEF GoesOn, DonePC, EarlyPC, LatePC, FinishedPC, WaitingPC,
         Working, Building, BuildPC
  <2> QED
    BY <1>1, <2>1, <2>2
<1> QED
  BY <1>2, <1>3 DEF Local

(* The second test lets in the leader, alone, or a thread when no leader is*)
(* at work.                                                                *)
LEMMA TestLocal ==
  ASSUME DisciplineInv, NEW t \in Pid, TestClone(t)
  PROVE  Local(t)
<1> USE DEF DisciplineInv, BuilderInv
<1>1. /\ pc[t] = "tail_flag" /\ UNCHANGED <<life, loc, tgid>> /\ SameIds /\ ff.loaded
      /\ \/ pc'[t] = "user"
         \/ pc'[t] = "claim" /\ ~ff.clone
  BY DEF TestClone, Step, At, Goto, kernel, taskVars, SameIds, ExclusiveInv, TypeInv, TypeOK,
     InUse, InModule
<1>2. IdsMove(t) /\ AnswersTo(t) /\ MakesOwn(t)
  BY <1>1 DEF IdsMove, Tracked, SameIds, AnswersTo, MakesOwn, Made, WaitingPC
<1>3. GoesOn(t)
  <2>1. CASE pc'[t] = "user"
    BY <1>1, <2>1 DEF GoesOn, InModule, HandlerPC, BuildPC, DonePC, EarlyPC, Working,
       Engaged, Builds, Building, LatePC, FinishedPC, WaitingPC
  <2>2. CASE pc'[t] = "claim"
    <3>1. Leads(t) => \E u \in Pid : CallOf(u, t)
      BY <1>1 DEF BuildsForCall, Engaged
    <3>2. ~Leads(t) => ff.tracked_pid = -1
      BY <1>1, <2>2 DEF ThreadsHeld
    <3>3. \A d \in Pid : Working(d) => ~Leads(d) /\ ~Leads(t)
      <4> SUFFICES ASSUME NEW d \in Pid, Working(d), Leads(d) \/ Leads(t) PROVE FALSE
        OBVIOUS
      <4>1. CASE Leads(d)
        <5>1. pc[d] = "claim"
          BY <1>1, <2>2, <4>1 DEF Claimed, Working, Building, BuildPC
        <5>2. PICK v \in Pid : CallOf(v, d)
          BY <4>1, <5>1 DEF BuildsForCall, Engaged, Builds, Building, BuildPC
        <5>3. PICK u \in Pid : CallOf(u, t)
          BY <3>1, <3>2, <5>2 DEF CallOf, Pid
        <5>4. u = v
          BY <5>2, <5>3 DEF CallOf, KinInv, Serial, InHandler, HandlerPC, WaitingPC
        <5> QED
          BY <1>1, <5>1, <5>2, <5>3, <5>4 DEF CallOf
      <4>2. CASE ~Leads(d)
        <5>1. ff.tracked_pid = -1
          BY <4>2 DEF LateUntracked
        <5> QED
          BY <3>1, <4>2, <5>1 DEF CallOf, Pid
      <4> QED
        BY <4>1, <4>2
    <3>4. ff'.tracked_pid = -1 \/ Leads(t)
      BY <1>1, <3>2 DEF SameIds
    <3> QED
      BY <1>1, <2>2, <3>1, <3>3, <3>4 DEF GoesOn, DonePC, EarlyPC, LatePC, FinishedPC,
         WaitingPC, Engaged, Leads
  <2> QED
    BY <1>1, <2>1, <2>2
<1> QED
  BY <1>2, <1>3 DEF Local

LEMMA DonePidLocal ==
  ASSUME DisciplineInv, NEW t \in Pid, DonePid(t)
  PROVE  Local(t)
<1> USE DEF DisciplineInv, BuilderInv
<1>1. /\ pc[t] = "done_pid" /\ pc'[t] = "done_tgid" /\ UNCHANGED <<life, loc, tgid>>
      /\ ff'.tracked_pid = -1 /\ ff'.clone = ff.clone /\ ff'.loaded = ff.loaded
  BY DEF DonePid, Step, At, Goto, kernel, taskVars, ExclusiveInv, TypeInv, TypeOK, Globals
<1>2. ~Engaged(t)'
  BY <1>1 DEF Engaged, Builds, Building, BuildPC
<1>3. ASSUME ff.tracked_pid # -1
      PROVE  \A u \in Pid : /\ pc[u] \notin EarlyPC
                            /\ pc[u] \in WaitingPC => child(u) = t /\ tgid[u] = u
                            /\ Engaged(u) => u = t
  <2>1. Leads(t)
    BY <1>1, <1>3 DEF LateUntracked, Working, DonePC
  <2>2. PICK w \in Pid : CallOf(w, t)
    BY <1>1, <2>1 DEF BuildsForCall, Engaged, Builds
  <2>3. \A u \in Pid : InHandler(u) => u = w
    BY <2>2 DEF CallOf, KinInv, Serial, InHandler, HandlerPC, WaitingPC
  <2>4. ASSUME NEW u \in Pid, Engaged(u) PROVE u = t
    <3>1. PICK v \in Pid : CallOf(v, u)
      BY <2>4 DEF BuildsForCall
    <3>2. v = w
      BY <2>3, <3>1 DEF CallOf, InHandler, HandlerPC, WaitingPC
    <3> QED
      BY <2>2, <3>1, <3>2 DEF CallOf
  <2> QED
    BY <2>2, <2>3, <2>4 DEF CallOf, InHandler, HandlerPC, EarlyPC, WaitingPC
<1>4. IdsMove(t)
  BY <1>1, <1>2, <1>3 DEF IdsMove, Tracked, LatePC
<1>5. GoesOn(t)
  BY <1>1, <1>2 DEF GoesOn, InUse, InModule, DonePC, EarlyPC, Working, Building, BuildPC,
     LatePC, FinishedPC, WaitingPC, Claimed
<1>6. AnswersTo(t) /\ MakesOwn(t)
  BY <1>1 DEF AnswersTo, MakesOwn, Made, WaitingPC
<1> QED
  BY <1>4, <1>5, <1>6 DEF Local

LEMMA UnclaimLocal ==
  ASSUME DisciplineInv, NEW t \in Pid, Unclaim(t)
  PROVE  Local(t)
<1> USE DEF DisciplineInv, BuilderInv
<1>1. /\ pc[t] = "unclaim" /\ pc'[t] = "user" /\ UNCHANGED <<life, loc>>
      /\ ff'.tracked_pid = ff.tracked_pid /\ ff'.loaded = ff.loaded
  BY DEF Unclaim, Step, At, Goto, kernel, taskVars, ExclusiveInv, TypeInv, TypeOK, Globals
<1>2. ff.tracked_pid = -1
  BY <1>1 DEF LateUntracked, LatePC
<1>3. \A d \in Pid : Working(d) /\ Leads(d) => d = t
  BY <1>1 DEF OneBuilder, Working, DonePC
<1>4. IdsMove(t)
  BY <1>1, <1>2, <1>3 DEF IdsMove
<1>5. GoesOn(t)
  BY <1>1 DEF GoesOn, InModule, HandlerPC, DonePC, EarlyPC, Working, Engaged, Builds,
     Building, BuildPC, LatePC, FinishedPC, WaitingPC
<1>6. AnswersTo(t) /\ MakesOwn(t)
  BY <1>1 DEF AnswersTo, MakesOwn, Made, WaitingPC
<1> QED
  BY <1>4, <1>5, <1>6 DEF Local

LEMMA PullBackLocal ==
  ASSUME DisciplineInv, NEW t \in Pid, PullBack(t)
  PROVE  Local(t)
<1> USE DEF DisciplineInv, ExclusiveInv
<1>0. ASSUME ff'.tracked_pid = ff.tracked_pid, ff'.loaded = ff.loaded,
             ff.clone => ff'.clone, NEW l, pc[t] = l,
             l = "claim" => ff'.clone, l \in BuildPC \cup DonePC,
             pc'[t] \in {"loop", "start"} \cup DonePC, pc'[t] \in LatePC <=> l \in LatePC,
             \A u \in Pid : Made(u) => tgid'[u] # u /\ PPid(u)' # -1, tgid'[t] = tgid[t]
      PROVE  Local(t)
  <2>1. Leads(t) => ff'.clone
    BY <1>0 DEF BuilderInv, Claimed, BuildPC
  <2> QED
    BY <1>0, <2>1, BuildLocal DEF Working, Building
<1>9. ASSUME UNCHANGED <<tgid, life>> \/ StartThread(t)
      PROVE  (\A u \in Pid : Made(u) => tgid'[u] # u /\ PPid(u)' # -1) /\ tgid'[t] = tgid[t]
  <2>1. tgid' = tgid /\ \A u \in Pid : ~Made(u)
    <3>1. CASE StartThread(t)
      <4>1. life[child(t)] = "new"
        BY <3>1 DEF StartThread, Step, At, TableInv, Starting
      <4> QED
        BY <3>1, <4>1 DEF StartThread, WakeWithRegs, Made
    <3> QED
      BY <1>9, <3>1 DEF Made
  <2> QED
    BY <2>1
<1> USE DEF TypeInv, TypeOK, TaskTypeOK
<1>2. CASE Claim(t)
  BY <1>0, <1>2, <1>9 DEF Claim, Step, At, Goto, Globals, BuildPC, DonePC, LatePC, kernel,
     taskVars
<1>3. CASE EndLoop(t)
  BY <1>0, <1>3, <1>9 DEF EndLoop, Step, At, Goto, BuildPC, DonePC, LatePC, kernel, taskVars
<1>4. CASE SkipExiting(t)
  BY <1>0, <1>4, <1>9 DEF SkipExiting, At, BuildPC, DonePC, LatePC, kernel, taskVars
<1>5. CASE CloneThread(t)
  <2>1. /\ pc[t] = "loop" /\ pc'[t] \in {"done_pid", "start"}
        /\ ff'.tracked_pid = ff.tracked_pid /\ ff'.loaded = ff.loaded
        /\ ff'.clone = ff.clone
    <3>1. CASE Step(t, "loop", "done_pid") /\ ff' = [ff EXCEPT !.error_check = -1]
      BY <3>1 DEF Step, At, Goto, Globals
    <3>2. CASE UNCHANGED ff /\ ~SignalPending(t)
      BY <1>5, <3>2 DEF CloneThread, Step, At, FreshPid, Goto
    <3> QED
      BY <1>5, <3>1, <3>2 DEF CloneThread
  <2>2. (\A u \in Pid : Made(u) => tgid'[u] # u /\ PPid(u)' # -1) /\ tgid'[t] = tgid[t]
    <3>1. CASE UNCHANGED taskVars
      BY <1>9, <3>1 DEF taskVars
    <3>2. ASSUME NEW n \in Pid, At(t, "loop"), FreshPid(n),
                 CopyProcess(n, t, tgid[t], real_parent[t], "new")
          PROVE  (\A u \in Pid : Made(u) => tgid'[u] # u) /\ tgid'[t] = tgid[t]
      <4>1. tgid[t] # n
        BY <3>2 DEF At, FreshPid, TableInv, LeadersTaken
      <4> QED
        BY <3>2, <4>1 DEF At, FreshPid, CopyProcess, Made
    <3>3. \A u \in Pid : PPid(u)' # -1
      <4>1. TypeInv'
        BY <1>5, PullBackTypeInv DEF PullBack
      <4> QED
        BY <4>1 DEF PPid, Pid, Outside
    <3> QED
      BY <1>5, <3>1, <3>2, <3>3 DEF CloneThread
  <2> QED
    BY <1>0, <2>1, <2>2 DEF BuildPC, DonePC, LatePC
<1>6. CASE StartThread(t)
  BY <1>0, <1>6, <1>9 DEF StartThread, Step, At, Goto, BuildPC, DonePC, LatePC
<1>7. CASE DoneTgid(t)
  BY <1>0, <1>7, <1>9 DEF DoneTgid, Step, At, Goto, Globals, BuildPC, DonePC, LatePC, kernel,
     taskVars
<1>8. CASE WakeCaller(t)
  BY <1>0, <1>8, <1>9 DEF WakeCaller, At, Globals, BuildPC, DonePC, LatePC, kernel, taskVars
<1> QED
  BY <1>2, <1>3, <1>4, <1>5, <1>6, <1>7, <1>8, EnterLocal, TestLocal, DonePidLocal,
     UnclaimLocal DEF PullBack

(* A step in user mode that makes nobody.                                  *)
LEMMA UserLocal ==
  ASSUME DisciplineInv, NEW t \in Pid, SameIds, NoneMade, pc[t] = "user", pc'[t] = pc[t]
  PROVE  Local(t)
<1> USE DEF DisciplineInv, BuilderInv
<1>1. IdsMove(t) /\ AnswersTo(t) /\ MakesOwn(t)
  BY DEF IdsMove, Tracked, SameIds, AnswersTo, WaitingPC, MakesOwn, Made, NoneMade
<1>2. GoesOn(t)
  BY DEF GoesOn, InModule, HandlerPC, DonePC, EarlyPC, Working, Engaged, Builds, Building,
     BuildPC, LatePC, FinishedPC, WaitingPC
<1> QED
  BY <1>1, <1>2 DEF Local

(* The same when it makes c, whose parent process is not tracked.          *)
LEMMA MakeLocal ==
  ASSUME DisciplineInv, NEW t \in Pid, NEW c \in Pid, UNCHANGED ff, pc[t] = "user",
         pc'[t] = pc[t], \A u \in Pid : Made(u) => u = c, PPid(c)' # ff.tracked_pid
  PROVE  Local(t)
<1> USE DEF DisciplineInv, BuilderInv
<1>1. IdsMove(t) /\ AnswersTo(t) /\ MakesOwn(t)
  BY DEF IdsMove, Tracked, AnswersTo, WaitingPC, MakesOwn
<1>2. GoesOn(t)
  BY DEF GoesOn, InModule, HandlerPC, DonePC, EarlyPC, Working, Engaged, Builds, Building,
     BuildPC, LatePC, FinishedPC, WaitingPC
<1> QED
  BY <1>1, <1>2 DEF Local

LEMMA CallLocal ==
  ASSUME Disciplined, DisciplineInv, NEW t \in Pid, Call(t)
  PROVE  Local(t)
<1> USE DEF DisciplineInv, BuilderInv
<1>1. /\ AllOut /\ pc[t] = "user" /\ pc'[t] = "track_tgid" /\ t \in Callers /\ ff.loaded
      /\ UNCHANGED life
  BY DEF Call, UserMode, At, Goto, Disciplined, AllOut, kernel, taskVars,
     ExclusiveInv, TypeInv, TypeOK
<1>2. ff'.tracked_pid = t /\ ff'.clone = ff.clone /\ ff'.loaded = ff.loaded
  BY DEF Call, ExclusiveInv, TypeInv, TypeOK, Globals
<1>3. child(t)' = Outside
  BY DEF Call, child, ExclusiveInv, TypeInv, TypeOK, Locals
<1>4. \A u \in Pid : ~Builds(u) /\ ~Working(u) /\ pc[u] \notin EarlyPC \cup WaitingPC
  BY <1>1 DEF AllOut, Builds, Building, BuildPC, Working, DonePC, EarlyPC, WaitingPC
<1>5. IdsMove(t)
  BY <1>1, <1>2, <1>4 DEF IdsMove, Engaged, AllOut, Builds, Building, BuildPC, Pid
<1>6. GoesOn(t)
  BY <1>1, <1>2, <1>3, <1>4 DEF GoesOn, InModule, DonePC, EarlyPC, Working, Engaged, Builds,
     Building, BuildPC, LatePC, FinishedPC, WaitingPC
<1>7. AnswersTo(t) /\ MakesOwn(t)
  BY <1>1 DEF AnswersTo, WaitingPC, MakesOwn, Made
<1> QED
  BY <1>5, <1>6, <1>7 DEF Local

LEMMA ForkLocal ==
  ASSUME Disciplined, DisciplineInv, NEW t \in Pid, Fork(t)
  PROVE  Local(t)
<1> USE DEF DisciplineInv, ExclusiveInv, TypeInv, TypeOK, TaskTypeOK
<1>1. PICK c \in Pid : FreshPid(c) /\ CopyProcess(c, t, c, t, "alive") /\ Goto(c, "tail")
  BY DEF Fork
<1>2. /\ pc[t] = "user" /\ pc'[t] = pc[t] /\ UNCHANGED ff /\ life[t] = "alive"
      /\ \A u \in Pid : Made(u) => u = c
  BY <1>1 DEF Fork, UserMode, At, FreshPid, CopyProcess, Goto, Made
<1>3. PPid(c)' = tgid[t]
  BY <1>1, <1>2 DEF PPid, CopyProcess, FreshPid, Pid, Outside
<1>4. tgid[t] = Boot[t] /\ tgid[t] \in Pid /\ t \in Forkers
  BY <1>2 DEF Disciplined, Settled, Fork, Grouped
<1>5. tgid[t] # ff.tracked_pid
  <2>1. CASE t \in ForkingCallers
    <3>1. Boot[t] = t /\ ~Steadfast(t)
      BY <1>2, <2>1 DEF Disciplined, Steadfast, EarlyPC, WaitingPC
    <3> QED
      BY <1>4, <2>1, <3>1 DEF LoyalInv
  <2>2. CASE t \notin ForkingCallers
    BY <1>4, <2>2 DEF ForkingCallers, BuilderInv, Tracked, Pid
  <2> QED
    BY <2>1, <2>2
<1> QED
  BY <1>2, <1>3, <1>5, MakeLocal

LEMMA SpawnLocal ==
  ASSUME Disciplined, DisciplineInv, NEW t \in Pid, Spawn(t)
  PROVE  Local(t)
<1> USE DEF DisciplineInv, ExclusiveInv, TypeInv, TypeOK, TaskTypeOK
<1>1. PICK c \in Pid : FreshPid(c) /\ NewThread(c, t) /\ Goto(c, "tail")
  BY DEF Spawn
<1>2. /\ pc[t] = "user" /\ pc'[t] = pc[t] /\ UNCHANGED ff /\ life[t] = "alive"
      /\ \A u \in Pid : Made(u) => u = c
  BY <1>1 DEF Spawn, UserMode, At, FreshPid, NewThread, Goto, Made
<1>3. real_parent[t] = Outside
  BY DEF Disciplined, KinInv, Orphaned, Spawn
<1>4. PPid(c)' = Outside
  BY <1>1, <1>3 DEF PPid, NewThread
<1>5. ff.tracked_pid # Outside
  BY WorkloadAssumption DEF BuilderInv, Tracked, Outside, Pid
<1> QED
  BY <1>2, <1>4, <1>5, MakeLocal

LEMMA TaskLocal ==
  ASSUME Disciplined, DisciplineInv, NEW t \in Pid,
         Handler(t) \/ PullBack(t) \/ Kernel(t) \/ Program(t)
  PROVE  Local(t)
<1> USE DEF DisciplineInv, ExclusiveInv, TypeInv, TypeOK, TaskTypeOK
<1>1. CASE DequeueStop(t) \/ GroupStop(t)
  <2>1. pc[t] = "user" /\ pc'[t] = pc[t] /\ SameIds /\ NoneMade
    BY <1>1, NotifyWakes DEF DequeueStop, GroupStop, UserMode, At, Woken, SameIds, NoneMade,
       taskVars
  <2> QED
    BY <2>1, UserLocal
<1>2. CASE Exit(t)
  <2>1. pc[t] = "user" /\ pc'[t] = pc[t] /\ SameIds /\ NoneMade
    BY <1>2, NotifyWakes DEF Exit, TaskExit, At, Woken, SameIds, NoneMade
  <2> QED
    BY <2>1, UserLocal
<1>3. CASE Release(t)
  <2>1. pc[t] = "user" /\ pc'[t] = pc[t] /\ SameIds /\ NoneMade
    BY <1>3 DEF Release, ReleaseTask, TableInv, Present, SameIds, NoneMade
  <2> QED
    BY <2>1, UserLocal
<1> QED
  BY <1>1, <1>2, <1>3, HandlerLocal, PullBackLocal, CallLocal, ForkLocal, SpawnLocal
     DEF Kernel, Program

-----------------------------------------------------------------------------
(* The call of a leader that also forks does not fail, so that it is not   *)
(* tracked when it forks by itself.                                        *)
LEMMA EndsByExit ==
  ASSUME DisciplineInv, NEW t \in Pid, Footprint(t),
         Handler(t) \/ PullBack(t) \/ Kernel(t) \/ Program(t),
         NEW u \in Pid, ~Exiting(u), Exiting(u)'
  PROVE  u = t /\ Exit(t)
<1>1. u = t /\ Ended(t) /\ life[t] = "alive" /\ life'[t] # "alive"
  BY DEF Exiting, Footprint, Untouched, Made, Started, Moved, Ended
<1>2. ~Release(t)
  BY <1>1 DEF Release
<1>3. ~Handler(t) /\ ~PullBack(t)
  <2>1. Handler(t) => pc[t] # "user"
    BY DEF Handler, TrackTgid, ScanThreads, KillStop, FullforkWait, WaitInterrupted,
       WaitFailed, Unhook, InitWaitQueue, LeaderClone, WaitForClone, Continue,
       UntrackPid, UntrackTgid, Step, At
  <2>2. PullBack(t) => pc[t] # "user"
    BY DEF PullBack, EnterPullBack, TestClone, Claim, EndLoop, SkipExiting, CloneThread,
       StartThread, DonePid, DoneTgid, WakeCaller, Unclaim, Step, At
  <2> QED
    BY <1>1, <2>1, <2>2 DEF Ended
<1>4. ~DequeueStop(t) /\ ~GroupStop(t) /\ ~Call(t)
  <2>1. DequeueStop(t) \/ GroupStop(t) \/ Call(t) => life' = life
    BY DEF DequeueStop, GroupStop, Call, kernel, taskVars
  <2> QED
    BY <1>1, <2>1
<1>5. ~Fork(t) /\ ~Spawn(t)
  <2>1. ASSUME Fork(t) \/ Spawn(t) PROVE FALSE
    <3>1. PICK c \in Pid : FreshPid(c) /\ life' = [life EXCEPT ![c] = "alive"]
      BY <2>1 DEF Fork, Spawn, CopyProcess, NewThread
    <3> QED
      BY <1>1, <3>1 DEF FreshPid
  <2> QED
    BY <2>1
<1> QED
  BY <1>1, <1>2, <1>3, <1>4, <1>5 DEF Kernel, Program

LEMMA TaskExiters ==
  ASSUME DisciplineInv, NEW t \in Pid, Footprint(t),
         Handler(t) \/ PullBack(t) \/ Kernel(t) \/ Program(t)
  PROVE  ExitersOnly'
<1> SUFFICES ASSUME NEW u \in Pid, Exiting(u)' PROVE u \in Exiters
  BY DEF ExitersOnly
<1>1. CASE Exiting(u)
  BY <1>1 DEF DisciplineInv, LoyalInv, ExitersOnly
<1>2. CASE ~Exiting(u)
  BY <1>2, EndsByExit DEF Exit
<1> QED
  BY <1>1, <1>2

(* Nobody in the process of such a leader exits.                           *)
LEMMA NobodyExits ==
  ASSUME Disciplined, DisciplineInv, NEW f \in ForkingCallers, NEW u \in Pid,
         tgid[u] = f
  PROVE  ~Exiting(u)
<1>1. Boot[u] \in {f, Outside}
  BY DEF DisciplineInv, ExclusiveInv, Settled
<1> QED
  BY <1>1 DEF DisciplineInv, LoyalInv, ExitersOnly, Disciplined

(* The steps of its own call.                                              *)
LEMMA HandlerLoyal ==
  ASSUME Disciplined, DisciplineInv, NEW f \in ForkingCallers, f \in Pid, Handler(f),
         Steadfast(f), ff'.tracked_pid = f
  PROVE  Steadfast(f)'
<1> USE DEF DisciplineInv, ExclusiveInv, TypeInv, TypeOK
<1>0. ASSUME NEW l, NEW m, Step(f, l, m) PROVE pc[f] = l /\ pc'[f] = m
  BY <1>0 DEF Step, At, Goto
<1>1. tgid[f] = f /\ life[f] = "alive"
  BY DEF Disciplined, Settled, Steadfast, EarlyPC, WaitingPC, TableInv, Present, Pid, Outside
<1>2. CASE TrackTgid(f)
  <2>1. pc'[f] = "scan" /\ ff'.tracked_tgid = f
    BY <1>0, <1>1, <1>2 DEF TrackTgid, Globals
  <2> QED
    BY <2>1 DEF Steadfast, EarlyPC
<1>3. CASE ScanThreads(f)
  <2>1. pc[f] = "scan" /\ pc'[f] \in {"kill", "init_wq"} /\ UNCHANGED <<tgid, life>>
    BY <1>0, <1>3 DEF ScanThreads, kernel, taskVars
  <2>2. pc'[f] = "kill" => \E u \in Pid : FirstAlive(f, u) /\ temp(f)' = u
    BY <1>0, <1>3 DEF ScanThreads, Locals, temp
  <2>3. \A u \in Pid : FirstAlive(f, u) => life[u] # "free" /\ tgid[u] = f
    BY <1>1 DEF FirstAlive, Siblings, Group
  <2>4. pc'[f] = "kill" => ff'.hooks /\ ff'.tracked_tgid = ff.tracked_tgid
    BY <1>0, <1>3 DEF ScanThreads, Globals
  <2> QED
    BY <2>1, <2>2, <2>3, <2>4 DEF Steadfast, EarlyPC
<1>4. CASE KillStop(f)
  <2>1. pc[f] = "kill"
    BY <1>0, <1>4 DEF KillStop
  <2>2. /\ ff.hooks /\ ff.tracked_tgid = f
        /\ temp(f) \in Pid /\ life[temp(f)] # "free" /\ tgid[temp(f)] = f
    BY <2>1 DEF Steadfast
  <2>3. life[temp(f)] # "dead"
    BY <2>2, NobodyExits DEF Exiting
  <2>4. pc'[f] = "wait" /\ UNCHANGED <<ff, loc, tgid, life, jobctl>>
    BY <1>0, <1>4, <2>3 DEF KillStop, SendStop, taskVars
  <2>5. jobctl[f] = "none"
    <3>1. SUFFICES ASSUME jobctl[f] # "none" PROVE FALSE
      OBVIOUS
    <3>2. PICK u \in Pid : Stopper(u) /\ tgid[u] = tgid[f]
      BY <3>1 DEF StopInv, Owner
    <3>3. u = f
      BY <2>1, <3>2 DEF Stopper, StopperPC, KinInv, Serial, InHandler, HandlerPC
    <3> QED
      BY <2>1, <3>2, <3>3 DEF Stopper, StopperPC
  <2> QED
    BY <2>2, <2>4, <2>5 DEF Steadfast, EarlyPC, temp
<1>5. CASE FullforkWait(f)
  <2>1. /\ pc[f] = "wait" /\ UNCHANGED <<kernel, ff, loc>>
        /\ pc'[f] \in {"unhook", "resume", "wait_sleep"}
    BY <1>5 DEF FullforkWait, At, Goto
  <2>2. /\ ff.hooks /\ ff.tracked_tgid = f
        /\ temp(f) \in Pid /\ life[temp(f)] # "free" /\ tgid[temp(f)] = f
        /\ jobctl[f] \in {"none", "owed"}
    BY <2>1 DEF Steadfast
  <2>3. ~Exiting(temp(f))
    BY <2>2, NobodyExits
  <2>4. pc'[f] # "resume"
    <3>1. is_eligible_pid(f) /\ ~Interrupted(f) /\ life[temp(f)] # "dead"
      BY <1>1, <2>2, <2>3 DEF is_eligible_pid, Interrupted, Exiting
    <3> QED
      BY <1>5, <2>2, <3>1 DEF FullforkWait, At, Goto
  <2> QED
    BY <2>1, <2>2, <2>4 DEF Steadfast, EarlyPC, temp, kernel, taskVars, stopVars
<1>6. CASE WaitInterrupted(f)
  <2>1. pc[f] = "wait_sleep" /\ pc'[f] = "wait" /\ UNCHANGED <<kernel, ff, loc>>
    BY <1>0, <1>6 DEF WaitInterrupted
  <2> QED
    BY <2>1 DEF Steadfast, EarlyPC, temp, kernel, taskVars, stopVars
<1>7. CASE Unhook(f) \/ InitWaitQueue(f) \/ WaitForClone(f) \/ Continue(f) \/ LeaderClone(f)
  <2>1. pc'[f] \in {"init_wq", "fork", "await", "asleep", "cont", "untrack_pid"}
    <3>1. CASE Unhook(f) \/ InitWaitQueue(f) \/ WaitForClone(f) \/ Continue(f)
      BY <1>0, <3>1 DEF Unhook, InitWaitQueue, WaitForClone, Continue
    <3>2. CASE LeaderClone(f)
      BY <1>0, <3>2 DEF LeaderClone, At, FreshPid
    <3> QED
      BY <1>7, <3>1, <3>2
  <2> QED
    BY <2>1 DEF Steadfast, EarlyPC, WaitingPC
<1>8. ~WaitFailed(f) /\ ~UntrackTgid(f)
  BY <1>0 DEF WaitFailed, UntrackTgid, Steadfast, EarlyPC, WaitingPC
<1>9. ~UntrackPid(f)
  BY DEF UntrackPid, Globals, Pid
<1> QED
  BY <1>2, <1>3, <1>4, <1>5, <1>6, <1>7, <1>8, <1>9 DEF Handler

(* Nobody else touches the ids or its stop before it forks.                *)
LEMMA OthersQuiet ==
  ASSUME DisciplineInv, NEW f \in Pid, pc[f] \in EarlyPC, NEW t \in Pid \ {f},
         PullBack(t) \/ Kernel(t) \/ Program(t), ~Call(t)
  PROVE  UNCHANGED ff
<1> USE DEF DisciplineInv
<1>1. CASE PullBack(t)
  <2>1. ~Builds(t)
    <3>1. ASSUME Builds(t) PROVE FALSE
      <4>0. Leads(t)
        BY <3>1 DEF BuilderInv, LateUntracked, EarlyIds, Pid, Builds, Working, DonePC
      <4>1. PICK u \in Pid : CallOf(u, t)
        BY <3>1, <4>0 DEF BuilderInv, BuildsForCall, Engaged
      <4>2. u = f
        BY <4>1 DEF CallOf, WaitingPC, EarlyPC, KinInv, Serial, InHandler, HandlerPC
      <4> QED
        BY <4>1, <4>2 DEF CallOf, WaitingPC, EarlyPC
    <3> QED
      BY <3>1
  <2>2. pc[t] \notin LatePC
    BY DEF BuilderInv, LateUntracked, EarlyIds, Pid
  <2> QED
    BY <1>1, <2>1, <2>2 DEF PullBack, EnterPullBack, TestClone, Claim, EndLoop,
       SkipExiting, CloneThread, StartThread, DonePid, DoneTgid, WakeCaller, Unclaim, Step,
       At, Builds, Building, BuildPC, LatePC
<1>2. CASE Kernel(t) \/ Program(t)
  BY <1>2 DEF Kernel, DequeueStop, GroupStop, Release, Program, Exit, Fork, Spawn
<1> QED
  BY <1>1, <1>2

LEMMA OthersExempt ==
  ASSUME DisciplineInv, NEW f \in Pid, tgid[f] = f, Steadfast(f),
         pc[f] \in {"wait", "wait_sleep"}, NEW t \in Pid \ {f},
         PullBack(t) \/ Kernel(t) \/ Program(t)
  PROVE  jobctl'[f] \in {"none", "owed"}
<1> USE DEF DisciplineInv, ExclusiveInv, TypeInv, TypeOK, TaskTypeOK
<1>1. jobctl[f] \in {"none", "owed"} /\ ff.hooks /\ ff.tracked_tgid = f
  BY DEF Steadfast
<1>2. CASE DequeueStop(t)
  <2>1. f \in Exempt
    BY <1>1 DEF Exempt, group_leader
  <2>2. jobctl'[f] \in {jobctl[f], "owed"}
    BY <1>2, <2>1 DEF DequeueStop, DoSignalStop
  <2> QED
    BY <1>1, <2>2
<1>3. CASE GroupStop(t) \/ Exit(t)
  BY <1>1, <1>3 DEF GroupStop, StopHere, Exit, TaskExit
<1>4. CASE PullBack(t)
  BY <1>1, <1>4, PullBackFrame DEF stopVars
<1>5. CASE Release(t) \/ Fork(t) \/ Spawn(t) \/ Call(t)
  BY <1>1, <1>5 DEF Release, Fork, Spawn, Call, kernel, stopVars
<1> QED
  BY <1>2, <1>3, <1>4, <1>5 DEF Kernel, Program

LEMMA OthersLoyal ==
  ASSUME Disciplined, DisciplineInv, NEW f \in ForkingCallers, f \in Pid, Steadfast(f),
         NEW t \in Pid \ {f}, Handler(t) \/ PullBack(t) \/ Kernel(t) \/ Program(t),
         ~Call(t), Frame(t)
  PROVE  Steadfast(f)'
<1> USE DEF DisciplineInv, ExclusiveInv
<1>1. tgid[f] = f /\ life[f] = "alive" /\ InHandler(f)
  BY DEF Disciplined, Settled, Steadfast, EarlyPC, WaitingPC, TableInv, Present, Pid,
     Outside, InHandler, HandlerPC
<1>2. PullBack(t) \/ Kernel(t) \/ Program(t)
  <2>1. Handler(t) => InHandler(t)
    BY DEF Handler, TrackTgid, ScanThreads, KillStop, FullforkWait, WaitInterrupted,
       WaitFailed, Unhook, InitWaitQueue, LeaderClone, WaitForClone, Continue,
       UntrackPid, UntrackTgid, Step, At, InHandler, HandlerPC
  <2> QED
    BY <1>1, <2>1 DEF KinInv, Serial
<1>3. loc'[f] = loc[f] /\ (pc'[f] = pc[f] \/ Woken(f))
  BY <1>1 DEF Frame
<1>4. \A u \in Pid : life[u] # "free" => life'[u] # "free" /\ tgid'[u] = tgid[u]
  BY DEF Frame
<1>5. CASE pc[f] \in EarlyPC
  <2>1. UNCHANGED ff
    BY <1>2, <1>5, OthersQuiet
  <2>2. pc[f] \in {"wait", "wait_sleep"} => jobctl'[f] \in {"none", "owed"}
    BY <1>1, <1>2, OthersExempt
  <2>3. pc'[f] = pc[f] \/ (pc[f] = "wait_sleep" /\ pc'[f] = "wait")
    BY <1>3, <1>5 DEF Woken, EarlyPC
  <2> QED
    BY <1>3, <1>4, <2>1, <2>2, <2>3 DEF Steadfast, EarlyPC, temp
<1>6. CASE pc[f] \notin EarlyPC
  <2>1. pc'[f] \in WaitingPC \cup {"cont", "untrack_pid"}
    BY <1>3, <1>6 DEF Steadfast, Woken, EarlyPC, WaitingPC
  <2> QED
    BY <2>1 DEF Steadfast, WaitingPC
<1> QED
  BY <1>5, <1>6

LEMMA TaskLoyal ==
  ASSUME Disciplined, DisciplineInv, NEW t \in Pid, Footprint(t), Frame(t), Local(t),
         Handler(t) \/ PullBack(t) \/ Kernel(t) \/ Program(t)
  PROVE  LoyalInv'
<1>1. ExitersOnly'
  BY TaskExiters
<1>2. ASSUME NEW f \in ForkingCallers, ff'.tracked_pid = f PROVE Steadfast(f)'
  <2>1. f \in Pid
    BY WorkloadAssumption DEF ForkingCallers
  <2>2. CASE Call(t)
    <3>1. ff'.tracked_pid = t /\ pc'[t] = "track_tgid"
      BY <2>2 DEF Call, Goto, DisciplineInv, ExclusiveInv, TypeInv, TypeOK, Globals
    <3> QED
      BY <1>2, <3>1 DEF Steadfast, EarlyPC
  <2>3. CASE ~Call(t)
    <3>1. ff.tracked_pid = f
      <4>1. CASE AllOut /\ ff'.tracked_pid = t /\ ff'.tracked_pid # ff.tracked_pid
        <5>1. Handler(t) => pc[t] # "user"
          BY DEF Handler, TrackTgid, ScanThreads, KillStop, FullforkWait, WaitInterrupted,
             WaitFailed, Unhook, InitWaitQueue, LeaderClone, WaitForClone, Continue,
             UntrackPid, UntrackTgid, Step, At
        <5>2. PullBack(t) => pc[t] # "user"
          BY DEF PullBack, EnterPullBack, TestClone, Claim, EndLoop, SkipExiting,
             CloneThread, StartThread, DonePid, DoneTgid, WakeCaller, Unclaim, Step, At
        <5>3. Kernel(t) \/ Program(t) => UNCHANGED ff
          BY <2>3 DEF Kernel, DequeueStop, GroupStop, Release, Program, Exit, Fork, Spawn
        <5> QED
          BY <4>1, <5>1, <5>2, <5>3 DEF AllOut
      <4> QED
        BY <1>2, <2>1, <4>1 DEF Local, IdsMove, Pid
    <3>2. Steadfast(f)
      BY <3>1 DEF DisciplineInv, LoyalInv
    <3>3. CASE t = f
      <4>1. Handler(t)
        <5>1. InHandler(t)
          BY <3>2, <3>3 DEF Steadfast, EarlyPC, WaitingPC, InHandler, HandlerPC
        <5>2. ~PullBack(t)
          BY <5>1 DEF PullBack, EnterPullBack, TestClone, Claim, EndLoop, SkipExiting,
             CloneThread, StartThread, DonePid, DoneTgid, WakeCaller, Unclaim, Step, At,
             InHandler, HandlerPC
        <5>3. ~Kernel(t) /\ ~Program(t)
          BY <2>3, <5>1 DEF Kernel, DequeueStop, GroupStop, Release, Program, Exit, Fork,
             Spawn, At, UserMode, InHandler, HandlerPC, DisciplineInv, ExclusiveInv,
             TableInv, Present
        <5> QED
          BY <5>2, <5>3
      <4> QED
        BY <1>2, <2>1, <3>2, <3>3, <4>1, HandlerLoyal
    <3>4. CASE t # f
      BY <2>1, <2>3, <3>2, <3>4, OthersLoyal
    <3> QED
      BY <3>3, <3>4
  <2> QED
    BY <2>2, <2>3
<1> QED
  BY <1>1, <1>2 DEF LoyalInv

-----------------------------------------------------------------------------
LEMMA InitDiscipline == Init => DisciplineInv
<1> SUFFICES ASSUME Init PROVE DisciplineInv
  OBVIOUS
<1>1. /\ \A t \in Pid : pc[t] = "user" /\ real_parent[t] = Outside
      /\ ff.tracked_pid = -1
  BY DEF Init, TaskInit, FreshModule
<1>2. KinInv
  BY <1>1 DEF KinInv, Serial, Orphaned, ParentsTaken, InHandler, HandlerPC
<1>3. BuilderInv
  BY <1>1 DEF BuilderInv, InUse, InModule, Tracked, EarlyIds, OneBuilder, Claimed,
     BuildsForCall, Engaged, Builds, ThreadsHeld, LateUntracked, TailOfCall, Answered, Working,
     Building, HandlerPC, BuildPC, DonePC, EarlyPC, LatePC, WaitingPC
<1>4. LoyalInv
  BY <1>1, WorkloadAssumption DEF Init, TaskInit, LoyalInv, ExitersOnly, Exiting,
     ForkingCallers, Pid
<1> QED
  BY <1>2, <1>3, <1>4, InitExclusiveInv DEF DisciplineInv

(* insmod and rmmod change the ids and the flag while nobody is in.        *)
LEMMA ModuleBuilder ==
  ASSUME DisciplineInv, InitModule \/ CleanupModule
  PROVE  KinInv' /\ BuilderInv' /\ LoyalInv'
<1> USE DEF DisciplineInv
<1>1. /\ UNCHANGED <<kernel, pc, loc>> /\ ff'.tracked_pid = -1
      /\ \A t \in Pid : ~InModule(t)
  <2>1. CASE InitModule
    BY <2>1 DEF InitModule, FreshModule, BuilderInv, InUse
  <2>2. CASE CleanupModule
    BY <2>2 DEF CleanupModule, ExclusiveInv, TypeInv, TypeOK, Globals
  <2> QED
    BY <2>1, <2>2
<1>2. KinInv'
  BY <1>1 DEF KinInv, Serial, Orphaned, ParentsTaken, InHandler, kernel, taskVars
<1>3. \A t \in Pid : /\ pc[t] \notin HandlerPC \cup BuildPC \cup DonePC \cup {"tail_flag"}
                     /\ PPid(t)' # -1
  <2>1. ASSUME NEW t \in Pid PROVE PPid(t)' = PPid(t)
    BY <1>1 DEF PPid, kernel, taskVars
  <2> QED
    BY <1>1, <2>1, PPidType DEF InModule, ExclusiveInv
<1>4. BuilderInv'
  BY <1>1, <1>3 DEF BuilderInv, InUse, InModule, Tracked, EarlyIds, OneBuilder, Claimed,
     BuildsForCall, Engaged, Builds, ThreadsHeld, LateUntracked, TailOfCall, Answered, Working,
     Building, HandlerPC, BuildPC, DonePC, EarlyPC, LatePC, WaitingPC
<1>5. LoyalInv'
  BY <1>1, WorkloadAssumption DEF LoyalInv, ExitersOnly, Exiting, ForkingCallers, Pid,
     kernel, taskVars
<1> QED
  BY <1>2, <1>4, <1>5

LEMMA NextDiscipline ==
  ASSUME Disciplined, DisciplineInv, [Next]_vars
  PROVE  DisciplineInv'
<1>1. ExclusiveInv'
  BY NextExclusiveInv DEF Disciplined, OneCallerEach, DisciplineInv
<1>2. KinInv' /\ BuilderInv' /\ LoyalInv'
  <2>1. CASE InitModule \/ CleanupModule
    BY <2>1, ModuleBuilder
  <2>2. CASE UNCHANGED vars
    BY <2>2 DEF vars, kernel, taskVars, DisciplineInv, KinInv, Serial, Orphaned,
       ParentsTaken, InHandler, BuilderInv, InUse, InModule, Tracked, EarlyIds,
       child, OneBuilder, Claimed, BuildsForCall, CallOf, ThreadsHeld, LateUntracked,
       TailOfCall, PPid, Answered, Working, Leads, Engaged, Builds, Building, LoyalInv, ExitersOnly, Exiting, Steadfast, temp,
       stopVars
  <2>3. ASSUME NEW t \in Pid, Handler(t) \/ PullBack(t) \/ Kernel(t) \/ Program(t)
        PROVE  KinInv' /\ BuilderInv' /\ LoyalInv'
    BY <2>3, TaskFootprint, TaskKin, TaskKinInv, TaskLocal, LocalBuilder, TaskLoyal
       DEF DisciplineInv, ExclusiveInv, Disciplined
  <2> QED
    BY <2>1, <2>2, <2>3 DEF Next, Rest
<1> QED
  BY <1>1, <1>2 DEF DisciplineInv

(* Where a step in user mode takes the task.                               *)
LEMMA UserGoesTo ==
  ASSUME DisciplineInv, NEW t \in Pid, Kernel(t) \/ Program(t)
  PROVE  pc[t] = "user" /\ pc'[t] \in {"user", "track_tgid"}
<1> USE DEF DisciplineInv, ExclusiveInv, TypeInv, TypeOK
<1>1. pc[t] = "user"
  BY DEF Kernel, DequeueStop, GroupStop, Release, Program, Call, Exit, Fork, Spawn,
     UserMode, At, TableInv, Present
<1>2. CASE DequeueStop(t) \/ GroupStop(t) \/ Exit(t)
  BY <1>1, <1>2, NotifyWakes DEF DequeueStop, GroupStop, Exit, Woken
<1>3. CASE Release(t) \/ Call(t)
  BY <1>1, <1>3 DEF Release, Call, Goto
<1>4. CASE Fork(t) \/ Spawn(t)
  <2>1. PICK c \in Pid : FreshPid(c) /\ Goto(c, "tail")
    BY <1>4 DEF Fork, Spawn
  <2>2. c # t
    BY <1>4, <2>1 DEF Fork, Spawn, UserMode, At, FreshPid
  <2> QED
    BY <1>1, <2>1, <2>2 DEF Goto
<1> QED
  BY <1>1, <1>2, <1>3, <1>4 DEF Kernel, Program

(* A thread that a clone makes has a parent that is known, and its leader  *)
(* has set out to build; so has every task that does build.                *)
BuildersPC == BuildPC \cup DonePC

Grows(n) == loc[n].parent_task # Outside

GrownInv ==
  /\ \A n \in Pid : life[n] # "free" => tgid[tgid[n]] = tgid[n]
  /\ \A n \in Pid : pc[n] \in {"tail_flag"} \cup BuildersPC => PPid(n) # Outside
  /\ \A n \in Pid : pc[n] \in BuildersPC \ {"claim"} => Grows(n)
  /\ \A n \in Pid : life[n] # "free" /\ ~Leads(n) /\ PPid(n) # Outside => Grows(tgid[n])

LEMMA TaskGrows ==
  ASSUME DisciplineInv, GrownInv, NEW t \in Pid, NEW u \in Pid, Grows(u),
         Handler(t) \/ PullBack(t) \/ Kernel(t) \/ Program(t)
  PROVE  Grows(u)'
<1> USE DEF DisciplineInv, ExclusiveInv, TypeInv, TypeOK
<1>1. CASE Claim(t)
  <2>1. PICK v : loc' = [loc EXCEPT ![t].temp = v, ![t].parent_task = real_parent[t]]
    BY <1>1 DEF Claim
  <2>2. real_parent[t] # Outside
    BY <1>1 DEF Claim, Step, At, GrownInv, BuildersPC, BuildPC, PPid
  <2> QED
    BY <2>1, <2>2 DEF Grows, Locals
<1>2. CASE UNCHANGED loc
  BY <1>2 DEF Grows
<1>3. ASSUME NEW v, \/ loc' = [loc EXCEPT ![t].temp = v]
                     \/ loc' = [loc EXCEPT ![t].child = v]
                     \/ loc' = [loc EXCEPT ![t].err = v]
      PROVE  Grows(u)'
  BY <1>3 DEF Grows, Locals
<1>4. CASE Call(t)
  BY <1>4 DEF Call, Grows, Locals
<1>5. CASE Handler(t)
  BY <1>2, <1>3, <1>5 DEF Handler, TrackTgid, ScanThreads, KillStop, FullforkWait,
     WaitInterrupted, WaitFailed, Unhook, InitWaitQueue, LeaderClone, WaitForClone, Continue,
     UntrackPid, UntrackTgid
<1>6. CASE PullBack(t) /\ ~Claim(t)
  BY <1>2, <1>3, <1>6 DEF PullBack, EnterPullBack, TestClone, EndLoop, SkipExiting, Advance,
     CloneThread, StartThread, DonePid, DoneTgid, WakeCaller, Unclaim
<1>7. CASE Kernel(t) \/ Exit(t) \/ Fork(t) \/ Spawn(t)
  BY <1>2, <1>7 DEF Kernel, DequeueStop, GroupStop, Release, Exit, Fork, Spawn
<1> QED
  BY <1>1, <1>4, <1>5, <1>6, <1>7 DEF Program

(* Whom a step makes.                                                      *)
LEMMA TaskMakes ==
  ASSUME Disciplined, DisciplineInv, NEW t \in Pid, NEW n \in Pid, Made(n),
         Handler(t) \/ PullBack(t) \/ Kernel(t) \/ Program(t)
  PROVE  \/ tgid'[n] = n
         \/ PPid(n)' = Outside
         \/ pc[t] = "loop" /\ tgid'[n] = tgid[t]
<1> USE DEF DisciplineInv, ExclusiveInv, TypeInv, TypeOK, TaskTypeOK
<1>1. CASE UNCHANGED life
  BY <1>1 DEF Made
<1>2. CASE LeaderClone(t) \/ Fork(t)
  <2>1. CASE \E c \in Pid : FreshPid(c) /\ CopyProcess(c, t, c, t, "alive")
    BY <2>1 DEF CopyProcess, Made
  <2>2. CASE UNCHANGED taskVars
    BY <1>1, <2>2 DEF taskVars
  <2> QED
    BY <1>2, <2>1, <2>2 DEF LeaderClone, Fork
<1>3. CASE Spawn(t)
  <2>1. real_parent[t] = Outside
    BY <1>3 DEF Disciplined, KinInv, Orphaned, Spawn
  <2> QED
    BY <1>3, <2>1 DEF Spawn, NewThread, Made, PPid
<1>4. CASE CloneThread(t)
  <2>1. CASE UNCHANGED taskVars
    BY <1>1, <2>1 DEF taskVars
  <2>2. CASE \E c \in Pid : FreshPid(c) /\ CopyProcess(c, t, tgid[t], real_parent[t], "new")
    BY <1>4, <2>2 DEF CloneThread, CopyProcess, Made, At
  <2> QED
    BY <1>4, <2>1, <2>2 DEF CloneThread
<1>5. CASE StartThread(t)
  <2>1. life[child(t)] = "new"
    BY <1>5 DEF StartThread, Step, At, TableInv, Starting
  <2> QED
    BY <1>5, <2>1 DEF StartThread, WakeWithRegs, Made
<1>6. CASE Release(t)
  BY <1>6 DEF Release, ReleaseTask, Made
<1>7. CASE Exit(t)
  BY <1>7 DEF Exit, TaskExit, Made
<1>8. CASE Handler(t) /\ ~LeaderClone(t)
  BY <1>1, <1>8 DEF Handler, TrackTgid, ScanThreads, KillStop, FullforkWait,
     WaitInterrupted, WaitFailed, Unhook, InitWaitQueue, WaitForClone, Continue,
     UntrackPid, UntrackTgid, kernel, taskVars
<1>9. CASE PullBack(t) /\ ~CloneThread(t) /\ ~StartThread(t)
  BY <1>1, <1>9 DEF PullBack, EnterPullBack, TestClone, Claim, EndLoop, SkipExiting,
     DonePid, DoneTgid, WakeCaller, Unclaim, kernel, taskVars
<1>10. CASE Call(t) \/ DequeueStop(t) \/ GroupStop(t)
  BY <1>1, <1>10 DEF Call, DequeueStop, GroupStop, kernel, taskVars
<1> QED
  BY <1>2, <1>3, <1>4, <1>5, <1>6, <1>7, <1>8, <1>9, <1>10 DEF Kernel, Program

(* Whom a step lets in, or lets build.                                     *)
LEMMA TaskBuilds ==
  ASSUME DisciplineInv, NEW t \in Pid, Footprint(t),
         Handler(t) \/ PullBack(t) \/ Kernel(t) \/ Program(t),
         NEW u \in Pid, pc'[u] \in {"tail_flag"} \cup BuildersPC
  PROVE  /\ \/ pc[u] \in {"tail_flag"} \cup BuildersPC
            \/ u = t /\ pc[t] = "tail" /\ PPid(t) = ff.tracked_pid
         /\ pc'[u] \in BuildersPC \ {"claim"} =>
              pc[u] \in BuildersPC \ {"claim"} \/ (u = t /\ Claim(t))
<1> USE DEF DisciplineInv, ExclusiveInv, TypeInv, TypeOK
<1>1. CASE u # t
  <2>1. pc'[u] = pc[u] \/ Woken(u) \/ pc'[u] = "tail"
    BY <1>1 DEF Footprint, Untouched, Made, Started
  <2> QED
    BY <2>1 DEF Woken, BuildersPC, BuildPC, DonePC
<1>2. CASE u = t
  <2>1. CASE Handler(t)
    <3>1. pc'[t] \in HandlerPC \cup {"user"}
      <4>1. CASE LeaderClone(t)
        BY <4>1 DEF LeaderClone, Step, At, Goto, FreshPid, HandlerPC
      <4>2. CASE ~LeaderClone(t)
        BY <2>1, <4>2 DEF Handler, TrackTgid, ScanThreads, KillStop, FullforkWait,
           WaitInterrupted, WaitFailed, Unhook, InitWaitQueue, WaitForClone, Continue,
           UntrackPid, UntrackTgid, Step, At, Goto, HandlerPC
      <4> QED
        BY <4>1, <4>2
    <3> QED
      BY <1>2, <3>1 DEF HandlerPC, BuildersPC, BuildPC, DonePC
  <2>2. CASE EnterPullBack(t)
    BY <1>2, <2>2 DEF EnterPullBack, Step, At, Goto, BuildersPC, BuildPC, DonePC
  <2>3. CASE TestClone(t)
    BY <1>2, <2>3 DEF TestClone, Step, At, Goto, BuildersPC, BuildPC, DonePC
  <2>4. CASE Claim(t)
    BY <1>2, <2>4 DEF Claim, Step, At, BuildersPC, BuildPC, DonePC
  <2>5. CASE PullBack(t) /\ ~EnterPullBack(t) /\ ~TestClone(t) /\ ~Claim(t)
    <3>1. pc[t] \in BuildersPC \ {"claim"}
      BY <2>5 DEF PullBack, EndLoop, SkipExiting, CloneThread, StartThread, DonePid, DoneTgid,
         WakeCaller, Unclaim, Step, At, BuildersPC, BuildPC, DonePC
    <3> QED
      BY <1>2, <3>1
  <2>6. CASE Kernel(t) \/ Program(t)
    <3>1. pc'[t] \in {"user", "track_tgid"}
      BY <2>6, UserGoesTo
    <3> QED
      BY <1>2, <3>1 DEF BuildersPC, BuildPC, DonePC
  <2> QED
    BY <2>1, <2>2, <2>3, <2>4, <2>5, <2>6 DEF PullBack
<1> QED
  BY <1>1, <1>2

LEMMA TaskGrown ==
  ASSUME Disciplined, DisciplineInv, GrownInv, NEW t \in Pid, Footprint(t), Frame(t), Kin(t),
         Joins(t), Handler(t) \/ PullBack(t) \/ Kernel(t) \/ Program(t)
  PROVE  GrownInv'
<1> USE DEF DisciplineInv, ExclusiveInv, TypeInv, TypeOK, TaskTypeOK
<1>1. ASSUME NEW n \in Pid, pc'[n] \in {"tail_flag"} \cup BuildersPC
      PROVE  PPid(n)' # Outside
  <2>1. \/ pc[n] \in {"tail_flag"} \cup BuildersPC
        \/ n = t /\ pc[t] = "tail" /\ PPid(t) = ff.tracked_pid
    BY <1>1, TaskBuilds
  <2>2. life[n] # "free"
    BY <2>1 DEF TableInv, Present, BuildersPC, BuildPC, DonePC
  <2>3. PPid(n) # Outside
    BY <2>1, WorkloadAssumption DEF GrownInv, BuilderInv, Tracked, Pid, Outside
  <2> QED
    BY <2>2, <2>3, PPidKept
<1>2. ASSUME NEW n \in Pid, pc'[n] \in BuildersPC \ {"claim"} PROVE Grows(n)'
  <2>1. CASE pc[n] \in BuildersPC \ {"claim"}
    BY <2>1, TaskGrows DEF GrownInv
  <2>2. CASE n = t /\ Claim(t)
    <3>1. PICK v : loc' = [loc EXCEPT ![t].temp = v, ![t].parent_task = real_parent[t]]
      BY <2>2 DEF Claim
    <3>2. real_parent[t] # Outside
      BY <2>2 DEF Claim, Step, At, GrownInv, BuildersPC, BuildPC, PPid
    <3> QED
      BY <2>2, <3>1, <3>2 DEF Grows, Locals
  <2> QED
    BY <1>2, <2>1, <2>2, TaskBuilds
<1>3. ASSUME NEW n \in Pid, life'[n] # "free", ~Leads(n)', PPid(n)' # Outside
      PROVE  Grows(tgid[n])'
  <2>1. CASE life[n] # "free"
    <3>1. PPid(n)' = PPid(n) /\ tgid'[n] = tgid[n] /\ tgid[n] \in Pid
      BY <2>1, PPidKept DEF Frame, Grouped
    <3> QED
      BY <1>3, <2>1, <3>1, TaskGrows DEF GrownInv, Leads, Grows
  <2>2. CASE life[n] = "free"
    <3>1. Made(n)
      BY <1>3, <2>2 DEF Footprint, Untouched, Started, Moved, Ended
    <3>2. pc[t] = "loop" /\ tgid'[n] = tgid[t]
      BY <1>3, <3>1, TaskMakes DEF Leads
    <3>3. life[t] = "alive" /\ tgid[t] \in Pid
      BY <3>2 DEF TableInv, Present, Grouped
    <3>4. Grows(tgid[t])
      BY <3>2, <3>3 DEF GrownInv, Leads, BuildersPC, BuildPC, DonePC
    <3> QED
      BY <3>2, <3>3, <3>4, TaskGrows DEF Grows
  <2> QED
    BY <2>1, <2>2
<1>4. ASSUME NEW n \in Pid, life'[n] # "free" PROVE tgid'[tgid'[n]] = tgid'[n]
  <2>1. CASE life[n] # "free"
    BY <2>1 DEF Frame, GrownInv, TableInv, LeadersTaken, Grouped
  <2>2. CASE life[n] = "free"
    BY <1>4, <2>2 DEF Joins, Frame, GrownInv, TableInv, LeadersTaken, Grouped
  <2> QED
    BY <2>1, <2>2
<1> QED
  BY <1>1, <1>2, <1>3, <1>4 DEF GrownInv

LEMMA NextGrown ==
  ASSUME Disciplined, DisciplineInv, GrownInv, [Next]_vars
  PROVE  GrownInv'
<1>1. CASE InitModule \/ CleanupModule \/ UNCHANGED vars
  <2>1. UNCHANGED <<kernel, pc, loc>>
    BY <1>1 DEF InitModule, CleanupModule, vars
  <2> QED
    BY <2>1 DEF kernel, taskVars, GrownInv, Grows, Leads, PPid
<1>2. ASSUME NEW t \in Pid, Handler(t) \/ PullBack(t) \/ Kernel(t) \/ Program(t)
      PROVE  GrownInv'
  BY <1>2, TaskFootprint, TaskKin, TaskGrown DEF DisciplineInv, ExclusiveInv
<1> QED
  BY <1>1, <1>2 DEF Next, Rest

(* my_pull_back tells the leader's clone from every other new task by the  *)
(* id of its parent group alone (ppid == tracked_pid, then !clone); of all *)
(* the tasks that pass through it, those that other processes fork, the    *)
(* threads that the clone itself adds, those that programs create, the one *)
(* that goes on to build is the child that leader_clone forked, and its    *)
(* caller is still in the handler.  A thread of that child, between its two*)
(* tests when the child resets the flag, builds too, but never beside it.  *)
THEOREM CloneBuildsThenItsThreads ==
  ASSUME Disciplined
  PROVE  Spec => []BuildersTakeTurns
<1>1. DisciplineInv /\ GrownInv => BuildersTakeTurns
  <2> SUFFICES ASSUME DisciplineInv, GrownInv, NEW c \in Pid, Building(c)
               PROVE  \/ \E t \in Pid : InHandler(t) /\ child(t) = c
                      \/ /\ Late(c) /\ loc[tgid[c]].parent_task # Outside
                         /\ pc[tgid[c]] \notin BuildPC \cup DonePC
    BY DEF BuildersTakeTurns
  <2>1. CASE Leads(c)
    <3>1. PICK t \in Pid : CallOf(t, c)
      BY <2>1 DEF DisciplineInv, BuilderInv, BuildsForCall, Engaged, Builds
    <3> QED
      BY <3>1 DEF CallOf, WaitingPC, InHandler, HandlerPC
  <2>2. CASE ~Leads(c)
    <3>1. life[c] = "alive" /\ tgid[c] \in Pid /\ life[tgid[c]] # "free"
      BY DEF DisciplineInv, ExclusiveInv, TableInv, Present, LeadersTaken, Building, BuildPC,
         TypeInv, Grouped
    <3>2. Late(c) /\ Grows(tgid[c])
      BY <2>2, <3>1 DEF GrownInv, Late, Leads, Grows, Building, BuildersPC, BuildPC, DonePC
    <3>3. PICK p \in Pid : p = tgid[c]
      BY <3>1
    <3>4. Working(p) => ~Leads(p)
      BY <2>2, <3>3 DEF DisciplineInv, BuilderInv, OneBuilder, Working, Leads
    <3>5. ~Working(p)
      BY <3>1, <3>3, <3>4 DEF GrownInv, Leads, Building, BuildPC, DisciplineInv, ExclusiveInv
    <3> QED
      BY <3>2, <3>3, <3>5 DEF Grows, Working, Building
  <2> QED
    BY <2>1, <2>2
<1>2. Init => GrownInv
  BY BootAssumption DEF Init, TaskInit, GrownInv, BuildersPC, BuildPC, DonePC, PPid
<1>3. DisciplineInv /\ [Next]_vars => DisciplineInv'
  BY NextDiscipline
<1>4. DisciplineInv /\ GrownInv /\ [Next]_vars => GrownInv'
  BY NextGrown
<1> QED
  BY <1>1, <1>2, <1>3, <1>4, InitDiscipline, PTL DEF Spec

(* The caller leaves wait_event(wq1, tracked_pid == -1) only when its own  *)
(* clone has made all the threads that it makes.                           *)
THEOREM CallerWaitsForItsClone ==
  ASSUME Disciplined
  PROVE  Spec => []OwnCloneDone
<1>1. DisciplineInv => OwnCloneDone
  BY DEF DisciplineInv, BuilderInv, Answered, FinishedPC, LatePC, Building, BuildPC,
     OwnCloneDone
<1>2. DisciplineInv /\ [Next]_vars => DisciplineInv'
  BY NextDiscipline
<1> QED
  BY <1>1, <1>2, InitDiscipline, PTL DEF Spec

-----------------------------------------------------------------------------
(* The wake-up of the caller.  The flag is held by somebody; what a caller *)
(* waits for is on its way; and a caller that sleeps is in the queue, with *)
(* the wake-up still to come once tracked_pid has its answer.              *)
LoopPC == {"loop", "start"} \cup DonePC
TailPC == {"tail", "tail_flag"}

ClaimHeld == ff.clone => \E c \in Pid : pc[c] \in LoopPC

Underway ==
  \A t \in Pid : pc[t] \in WaitingPC /\ ff.tracked_pid # -1 =>
    CallOf(t, child(t)) /\ (pc[child(t)] \in TailPC \/ Builds(child(t)))

WakeDue ==
  \A t \in Pid : pc[t] = "asleep" =>
    t \in ff.wq1 /\ (ff.tracked_pid = -1 => pc[child(t)] \in {"done_tgid", "wake"})

WakeInv == ClaimHeld /\ Underway /\ WakeDue

(* The clone that a caller waits for finds the flag free.                  *)
LEMMA FlagIsFree ==
  ASSUME DisciplineInv, WakeInv, NEW t \in Pid, NEW c \in Pid, CallOf(t, c),
         pc[c] \in TailPC
  PROVE  ~ff.clone
<1> USE DEF DisciplineInv, BuilderInv
<1> SUFFICES ASSUME ff.clone PROVE FALSE
  OBVIOUS
<1>1. PICK d \in Pid : pc[d] \in LoopPC
  BY DEF WakeInv, ClaimHeld
<1>2. ff.tracked_pid # -1
  BY DEF CallOf, Pid
<1>3. Builds(d) /\ Leads(d)
  BY <1>1, <1>2 DEF LateUntracked, LatePC, LoopPC, DonePC, Builds, Working, Building, BuildPC
<1>4. PICK u \in Pid : CallOf(u, d)
  BY <1>3 DEF BuildsForCall, Engaged
<1>5. u = t
  BY <1>4 DEF CallOf, KinInv, Serial, InHandler, HandlerPC, WaitingPC
<1> QED
  BY <1>1, <1>4, <1>5 DEF CallOf, LoopPC, DonePC, TailPC

LEMMA WakeTells ==
  ASSUME DisciplineInv, WakeInv
  PROVE  NoLostWakeUp
<1> SUFFICES ASSUME NEW t \in Pid, pc[t] = "asleep"
             PROVE  /\ t \in ff.wq1 /\ ff.loaded
                    /\ \/ /\ ff.tracked_pid = t
                          /\ \/ /\ pc[child(t)] \in {"tail", "tail_flag"}
                                /\ PPid(child(t)) = t /\ ~ff.clone
                             \/ pc[child(t)] \in BuildPC \cup {"done_pid"}
                       \/ ff.tracked_pid = -1 /\ pc[child(t)] \in {"done_tgid", "wake"}
  BY DEF NoLostWakeUp
<1>1. t \in ff.wq1 /\ ff.loaded /\ pc[t] \in WaitingPC
  BY DEF DisciplineInv, BuilderInv, WakeInv, WakeDue, InUse, InModule, HandlerPC, WaitingPC
<1>2. CASE ff.tracked_pid = -1
  BY <1>1, <1>2 DEF WakeInv, WakeDue
<1>3. CASE ff.tracked_pid # -1
  <2>1. CallOf(t, child(t)) /\ child(t) \in Pid
    BY <1>1, <1>3 DEF DisciplineInv, BuilderInv, WakeInv, Underway, Answered
  <2>2. PPid(child(t)) = t
    BY <2>1 DEF CallOf, PPid, Pid, Outside
  <2>3. pc[child(t)] \in TailPC => ~ff.clone
    BY <2>1, FlagIsFree
  <2> QED
    BY <1>1, <1>3, <2>1, <2>2, <2>3 DEF WakeInv, Underway, CallOf, Builds, Building, TailPC
<1> QED
  BY <1>2, <1>3

(* The call is made by leaders: the id that is tracked is compared with the*)
(* ids of parent processes, and that of another thread would match nobody. *)
LeadersCall == \A t \in Callers : Boot[t] = t

(* What a step of t does to the queue and to whom the caller waits for.    *)
Onward(t) ==
  /\ ff'.clone => pc'[t] \in LoopPC \/ (ff.clone /\ pc[t] \notin LoopPC)
  /\ Builds(t) => Builds(t)' \/ pc'[t] = "done_tgid"
  /\ (\E u \in Pid : CallOf(u, t)) =>
       /\ pc[t] = "tail" => pc'[t] = "tail_flag"
       /\ pc[t] = "tail_flag" => pc'[t] = "claim"
  /\ pc'[t] \in WaitingPC =>
       \/ pc[t] \in WaitingPC /\ child(t)' = child(t) /\ ff'.tracked_pid = ff.tracked_pid
       \/ \E c \in Pid : child(t)' = c /\ Made(c) /\ CallOf(t, c)'
  /\ pc'[t] = "asleep" => ff.tracked_pid # -1 /\ t \in ff'.wq1
  /\ pc[t] = "done_tgid" => pc'[t] = "wake"
  /\ pc[t] = "wake" => \A u \in ff.wq1 : pc'[u] # "asleep"
  /\ \A u \in Pid \ {t} : u \in ff.wq1 /\ pc[u] = "asleep" /\ pc'[u] = "asleep"
                            => u \in ff'.wq1

LEMMA OnwardWake ==
  ASSUME DisciplineInv, WakeInv, NEW t \in Pid, Footprint(t), Frame(t), Kin(t),
         Local(t), Onward(t)
  PROVE  WakeInv'
<1> USE DEF DisciplineInv, ExclusiveInv, BuilderInv, WakeInv
<1>1. ASSUME NEW u \in Pid, u # t
      PROVE  \/ pc'[u] = pc[u]
             \/ Woken(u)
             \/ Made(u) /\ pc'[u] = "tail"
  BY <1>1 DEF Footprint, Untouched, Made, Started
<1>2. ASSUME NEW u \in Pid, u # t, pc[u] \notin {"user", "wait_sleep", "asleep"}
      PROVE  pc'[u] = pc[u]
  BY <1>1, <1>2 DEF Woken, Made, TableInv, Present
<1>3. ASSUME NEW u \in Pid, u # t, pc'[u] \in WaitingPC
      PROVE  /\ pc[u] \in WaitingPC /\ child(u)' = child(u) /\ child(u) \in Pid
             /\ pc'[u] = "asleep" => pc[u] = "asleep"
             /\ ff'.tracked_pid # -1 => ff'.tracked_pid = ff.tracked_pid
  <2>1. pc[u] \in WaitingPC /\ (pc'[u] = "asleep" => pc[u] = "asleep")
    BY <1>1, <1>3 DEF Woken, Made, WaitingPC
  <2>2. child(u)' = child(u) /\ child(u) \in Pid
    BY <1>3, <2>1 DEF Answered, WaitingPC, TableInv, Present, Frame, child
  <2>3. ff'.tracked_pid # -1 => ff'.tracked_pid = ff.tracked_pid
    BY <2>1 DEF Local, IdsMove, AllOut, WaitingPC
  <2> QED
    BY <2>1, <2>2, <2>3
<1>4. ClaimHeld'
  <2> SUFFICES ASSUME ff'.clone PROVE \E c \in Pid : pc'[c] \in LoopPC
    BY DEF ClaimHeld
  <2>1. CASE pc'[t] \in LoopPC
    BY <2>1
  <2>2. CASE ff.clone /\ pc[t] \notin LoopPC
    <3>1. PICK c \in Pid : pc[c] \in LoopPC
      BY <2>2 DEF ClaimHeld
    <3>2. pc'[c] = pc[c]
      BY <1>2, <2>2, <3>1 DEF LoopPC, DonePC
    <3> QED
      BY <3>1, <3>2
  <2> QED
    BY <2>1, <2>2 DEF Onward
<1>5. Underway'
  <2> SUFFICES ASSUME NEW u \in Pid, pc'[u] \in WaitingPC, ff'.tracked_pid # -1
               PROVE  /\ CallOf(u, child(u))'
                      /\ pc'[child(u)'] \in TailPC \/ Builds(child(u))'
    BY DEF Underway, TailPC
  <2>1. ASSUME pc[u] \in WaitingPC, child(u)' = child(u), ff'.tracked_pid = ff.tracked_pid
        PROVE  /\ CallOf(u, child(u))'
               /\ pc'[child(u)'] \in TailPC \/ Builds(child(u))'
    <3>1. PICK c \in Pid : c = child(u) /\ CallOf(u, c) /\ (pc[c] \in TailPC \/ Builds(c))
      BY <2>1 DEF Underway, Answered
    <3>2. CallOf(u, c)'
      BY <2>1, <3>1, CallKept
    <3>3. pc'[c] \in TailPC \/ Builds(c)'
      <4>1. CASE c # t
        BY <1>2, <3>1, <4>1 DEF Builds, Building, BuildPC, TailPC
      <4>2. CASE c = t /\ pc[t] \in TailPC
        BY <3>1, <4>2 DEF Onward, Builds, Building, BuildPC, TailPC
      <4>3. CASE c = t /\ Builds(t)
        <5>1. pc'[t] # "done_tgid"
          BY <2>1 DEF Local, GoesOn, LatePC
        <5> QED
          BY <4>3, <5>1 DEF Onward
      <4> QED
        BY <3>1, <4>1, <4>2, <4>3
    <3> QED
      BY <2>1, <3>1, <3>2, <3>3 DEF CallOf, Builds, Building, TailPC
  <2>2. CASE u # t
    BY <1>3, <2>1, <2>2
  <2>3. CASE u = t /\ \E c \in Pid : child(t)' = c /\ Made(c) /\ CallOf(t, c)'
    BY <2>3 DEF Made, TailPC
  <2> QED
    BY <2>1, <2>2, <2>3 DEF Onward
<1>6. WakeDue'
  <2> SUFFICES ASSUME NEW u \in Pid, pc'[u] = "asleep"
               PROVE  /\ u \in ff'.wq1
                      /\ ff'.tracked_pid = -1 => pc'[child(u)'] \in {"done_tgid", "wake"}
    BY DEF WakeDue
  <2>1. CASE u = t
    BY <2>1 DEF Onward, WaitingPC, CallOf, Pid
  <2>2. CASE u # t
    <3>1. /\ pc[u] = "asleep" /\ pc[u] \in WaitingPC /\ child(u)' = child(u)
          /\ child(u) \in Pid /\ u \in ff.wq1
      BY <1>3, <2>2 DEF WaitingPC, WakeDue
    <3>2. u \in ff'.wq1
      BY <2>2, <3>1 DEF Onward
    <3>3. ASSUME ff'.tracked_pid = -1 PROVE pc'[child(u)] \in {"done_tgid", "wake"}
      <4>1. CASE ff.tracked_pid = -1
        <5>1. pc[child(u)] \in {"done_tgid", "wake"}
          BY <3>1, <4>1 DEF WakeDue
        <5>2. CASE child(u) # t
          BY <1>2, <3>1, <5>1, <5>2
        <5>3. CASE child(u) = t
          BY <3>1, <5>1, <5>3 DEF Onward
        <5> QED
          BY <5>2, <5>3
      <4>2. CASE ff.tracked_pid # -1
        <5>1. child(u) = t /\ pc'[t] \in LatePC
          BY <2>2, <3>1, <3>3, <4>2 DEF Local, IdsMove
        <5>2. pc[t] \in TailPC \/ Builds(t)
          BY <3>1, <4>2, <5>1 DEF Underway
        <5>3. pc[t] \in TailPC => pc'[t] \in {"tail_flag", "claim"}
          BY <3>1, <4>2, <5>1 DEF Underway, Onward, TailPC
        <5> QED
          BY <5>1, <5>2, <5>3 DEF Onward, LatePC, Builds, Building, BuildPC
      <4> QED
        BY <4>1, <4>2
    <3> QED
      BY <3>1, <3>2, <3>3
  <2> QED
    BY <2>1, <2>2
<1> QED
  BY <1>4, <1>5, <1>6

(* The steps, one by one: those that leave t outside of all this first.    *)
LEMMA AsideOnward ==
  ASSUME DisciplineInv, NEW t \in Pid, ff'.clone = ff.clone, ff'.wq1 = ff.wq1,
         pc'[t] \notin WaitingPC,
         pc[t] \in HandlerPC \cup {"user"}
  PROVE  Onward(t)
BY DEF Onward, WaitingPC, LoopPC, DonePC, HandlerPC, Builds, Building, BuildPC

LEMMA LeaderOnward ==
  ASSUME LeadersCall, DisciplineInv, NEW t \in Pid, NEW c \in Pid, At(t, "fork"), FreshPid(c),
         CopyProcess(c, t, c, t, "alive"), loc' = [loc EXCEPT ![t].child = c],
         pc' = [pc EXCEPT ![t] = "await", ![c] = "tail"], UNCHANGED ff
  PROVE  Onward(t)
<1> USE DEF DisciplineInv, BuilderInv
<1>1. /\ pc[t] = "fork" /\ life[t] = "alive" /\ life[c] = "free" /\ c # t
      /\ pc'[t] = "await" /\ child(t)' = c /\ life'[c] = "alive" /\ pc'[c] = "tail"
      /\ tgid'[c] = c /\ tgid'[t] = tgid[t] /\ real_parent'[c] = t
  BY DEF At, FreshPid, CopyProcess, child, ExclusiveInv, TypeInv, TypeOK, TaskTypeOK, Locals
<1>2. ff.tracked_pid = t
  BY <1>1 DEF EarlyIds, EarlyPC
<1>3. tgid[t] = t
  <2>1. t \in Callers
    BY <1>1 DEF ExclusiveInv, CallersOnly, InHandler, HandlerPC
  <2> QED
    BY <1>1, <2>1 DEF LeadersCall, ExclusiveInv, Settled, Pid, Outside
<1>4. CallOf(t, c)' /\ Made(c)
  BY <1>1, <1>2, <1>3 DEF CallOf, Made, WaitingPC
<1> QED
  BY <1>1, <1>4 DEF Onward, WaitingPC, LoopPC, DonePC, Builds, Building, BuildPC

LEMMA HandlerOnward ==
  ASSUME LeadersCall, DisciplineInv, NEW t \in Pid, Handler(t)
  PROVE  Onward(t)
<1> USE DEF DisciplineInv, ExclusiveInv, TypeInv, TypeOK
<1>1. ASSUME NEW l, NEW m, Step(t, l, m) PROVE pc[t] = l /\ pc'[t] = m
  BY <1>1 DEF Step, At, Goto
<1>2. CASE InitWaitQueue(t)
  <2>1. pc[t] = "init_wq" /\ pc'[t] = "fork" /\ ff'.clone = ff.clone
    BY <1>1, <1>2 DEF InitWaitQueue, Globals
  <2>2. \A u \in Pid \ {t} : pc[u] # "asleep"
    BY <2>1 DEF KinInv, Serial, InHandler, HandlerPC
  <2> QED
    BY <2>1, <2>2 DEF Onward, WaitingPC, LoopPC, DonePC, Builds, Building, BuildPC
<1>3. CASE WaitForClone(t)
  <2>1. /\ pc[t] = "await" /\ pc'[t] \in {"cont", "asleep"} /\ child(t)' = child(t)
        /\ pc'[t] = "asleep" => ff.tracked_pid # -1
    BY <1>1, <1>3 DEF WaitForClone, child, Locals
  <2>2. /\ ff'.clone = ff.clone /\ ff'.tracked_pid = ff.tracked_pid
        /\ pc'[t] = "asleep" => t \in ff'.wq1
        /\ \A u \in Pid \ {t} : u \in ff.wq1 => u \in ff'.wq1
    BY <1>1, <1>3 DEF WaitForClone, Globals
  <2> QED
    BY <2>1, <2>2 DEF Onward, WaitingPC, LoopPC, DonePC, Builds, Building, BuildPC, child
<1>4. CASE LeaderClone(t)
  <2>1. CASE Step(t, "fork", "cont")
    BY <1>1, <1>4, <2>1, AsideOnward DEF LeaderClone, HandlerPC, WaitingPC
  <2> QED
    BY <1>4, <2>1, LeaderOnward DEF LeaderClone
<1>5. CASE Handler(t) /\ ~InitWaitQueue(t) /\ ~WaitForClone(t) /\ ~LeaderClone(t)
  <2>1. ff'.clone = ff.clone /\ ff'.wq1 = ff.wq1
    BY <1>5 DEF Handler, TrackTgid, ScanThreads, KillStop, FullforkWait, WaitInterrupted,
       WaitFailed, Unhook, Continue, UntrackPid, UntrackTgid, Globals
  <2>2. pc[t] \in HandlerPC /\ pc'[t] \notin WaitingPC
    BY <1>1, <1>5 DEF Handler, TrackTgid, ScanThreads, KillStop, FullforkWait,
       WaitInterrupted, WaitFailed, Unhook, Continue, UntrackPid, UntrackTgid, At, Goto,
       HandlerPC, WaitingPC
  <2> QED
    BY <2>1, <2>2, AsideOnward
<1> QED
  BY <1>2, <1>3, <1>4, <1>5

LEMMA PullBackOnward ==
  ASSUME DisciplineInv, WakeInv, NEW t \in Pid, PullBack(t)
  PROVE  Onward(t)
<1> USE DEF DisciplineInv, ExclusiveInv, TypeInv, TypeOK
<1>1. CASE EnterPullBack(t)
  <2>1. /\ pc[t] = "tail" /\ ff' = ff
        /\ pc'[t] = IF ~ff.loaded \/ PPid(t) # ff.tracked_pid THEN "user" ELSE "tail_flag"
    BY <1>1 DEF EnterPullBack, Step, At, Goto
  <2>2. ASSUME NEW u \in Pid, CallOf(u, t) PROVE pc'[t] = "tail_flag"
    <3>1. ff.loaded
      BY <2>2 DEF CallOf, BuilderInv, InUse, InModule, HandlerPC, WaitingPC
    <3>2. PPid(t) = u /\ ff.tracked_pid = u
      BY <2>2 DEF CallOf, PPid, Pid, Outside
    <3> QED
      BY <2>1, <3>1, <3>2
  <2> QED
    BY <2>1, <2>2 DEF Onward, WaitingPC, LoopPC, DonePC, Builds, Building, BuildPC
<1>2. CASE TestClone(t)
  <2>1. /\ pc[t] = "tail_flag" /\ ff' = ff
        /\ pc'[t] = IF ff.clone THEN "user" ELSE "claim"
    BY <1>2 DEF TestClone, Step, At, Goto
  <2>2. (\E u \in Pid : CallOf(u, t)) => ~ff.clone
    BY <2>1, FlagIsFree DEF TailPC
  <2> QED
    BY <2>1, <2>2 DEF Onward, WaitingPC, LoopPC, DonePC, Builds, Building, BuildPC
<1>3. CASE Claim(t) \/ EndLoop(t) \/ SkipExiting(t) \/ StartThread(t)
  <2>1. /\ pc[t] \in BuildPC /\ pc'[t] \in {"loop", "start", "done_pid"}
        /\ ff'.wq1 = ff.wq1
    BY <1>3 DEF Claim, EndLoop, SkipExiting, StartThread, Step, At, Goto, BuildPC, Globals
  <2> QED
    BY <2>1 DEF Onward, WaitingPC, LoopPC, DonePC, Builds, Building, BuildPC
<1>4. CASE CloneThread(t)
  <2>1. pc[t] = "loop" /\ pc'[t] \in {"start", "done_pid"}
    BY <1>4 DEF CloneThread, Step, At, Goto, FreshPid
  <2>2. ff'.wq1 = ff.wq1
    BY <1>4 DEF CloneThread, Globals
  <2> QED
    BY <2>1, <2>2 DEF Onward, WaitingPC, LoopPC, DonePC, Builds, Building, BuildPC
<1>5. CASE DonePid(t) \/ DoneTgid(t)
  <2>1. /\ \/ pc[t] = "done_pid" /\ pc'[t] = "done_tgid"
           \/ pc[t] = "done_tgid" /\ pc'[t] = "wake"
        /\ ff'.wq1 = ff.wq1
    BY <1>5 DEF DonePid, DoneTgid, Step, At, Goto, Globals
  <2> QED
    BY <2>1 DEF Onward, WaitingPC, LoopPC, DonePC, Builds, Building, BuildPC
<1>6. CASE WakeCaller(t)
  <2>1. /\ pc[t] = "wake" /\ pc'[t] = "unclaim"
        /\ \A u \in Pid : u \in ff.wq1 => pc'[u] # "asleep"
    BY <1>6 DEF WakeCaller, At
  <2>2. ff.wq1 \subseteq Pid
    BY DEF Globals
  <2> QED
    BY <2>1, <2>2 DEF Onward, WaitingPC, LoopPC, DonePC, Builds, Building, BuildPC
<1>7. CASE Unclaim(t)
  <2>1. pc[t] = "unclaim" /\ pc'[t] = "user" /\ ~ff'.clone /\ ff'.wq1 = ff.wq1
    BY <1>7 DEF Unclaim, Step, At, Goto, Globals
  <2> QED
    BY <2>1 DEF Onward, WaitingPC, Builds, Building, BuildPC
<1> QED
  BY <1>1, <1>2, <1>3, <1>4, <1>5, <1>6, <1>7 DEF PullBack

LEMMA UserOnward ==
  ASSUME DisciplineInv, NEW t \in Pid, Kernel(t) \/ Program(t)
  PROVE  Onward(t)
<1> USE DEF DisciplineInv, ExclusiveInv, TypeInv, TypeOK
<1>1. pc[t] = "user" /\ ff'.clone = ff.clone /\ ff'.wq1 = ff.wq1
  BY DEF Kernel, DequeueStop, GroupStop, Release, Program, Call, Exit, Fork, Spawn,
     UserMode, At, TableInv, Present, Globals
<1>2. pc'[t] \in {"user", "track_tgid"}
  BY UserGoesTo
<1> QED
  BY <1>1, <1>2, AsideOnward DEF WaitingPC

LEMMA NextWake ==
  ASSUME Disciplined, LeadersCall, DisciplineInv, WakeInv, [Next]_vars
  PROVE  WakeInv'
<1>1. CASE InitModule \/ CleanupModule
  <2>1. ~ff'.clone \/ ff'.clone = ff.clone
    BY <1>1 DEF InitModule, CleanupModule, FreshModule, DisciplineInv, ExclusiveInv,
       TypeInv, TypeOK, Globals
  <2>2. UNCHANGED pc /\ \A t \in Pid : ~InModule(t)
    BY <1>1 DEF InitModule, CleanupModule, DisciplineInv, BuilderInv, InUse
  <2> QED
    BY <2>1, <2>2 DEF WakeInv, ClaimHeld, Underway, WakeDue, InModule, HandlerPC, WaitingPC
<1>2. CASE UNCHANGED vars
  BY <1>2 DEF vars, kernel, taskVars, WakeInv, ClaimHeld, Underway, WakeDue, CallOf, child,
     Builds, Building
<1>3. ASSUME NEW t \in Pid, Handler(t) \/ PullBack(t) \/ Kernel(t) \/ Program(t)
      PROVE  WakeInv'
  <2>1. Footprint(t) /\ Frame(t) /\ Kin(t) /\ Local(t)
    BY <1>3, TaskFootprint, TaskKin, TaskLocal DEF DisciplineInv, ExclusiveInv
  <2>2. Onward(t)
    BY <1>3, HandlerOnward, PullBackOnward, UserOnward
  <2> QED
    BY <2>1, <2>2, OnwardWake
<1> QED
  BY <1>1, <1>2, <1>3 DEF Next, Rest

(* The caller is never left asleep: whatever fails and however the steps of*)
(* its wait and of the clone interleave, a clone that it waits for is let  *)
(* into my_pull_back (no flag of an earlier call keeps it out), gets to    *)
(* tracked_pid = -1 and only then to wake_up(&wq1), with the caller in the *)
(* queue.                                                                  *)
THEOREM WakeUpIsComing ==
  ASSUME Disciplined, LeadersCall
  PROVE  Spec => []NoLostWakeUp
<1>1. Init => WakeInv
  BY DEF Init, FreshModule, WakeInv, ClaimHeld, Underway, WakeDue, WaitingPC
<1>2. DisciplineInv /\ WakeInv => NoLostWakeUp
  BY WakeTells
<1>3. DisciplineInv /\ [Next]_vars => DisciplineInv'
  BY NextDiscipline
<1>4. DisciplineInv /\ WakeInv /\ [Next]_vars => WakeInv'
  BY NextWake
<1> QED
  BY <1>1, <1>2, <1>3, <1>4, InitDiscipline, PTL DEF Spec

-----------------------------------------------------------------------------
(* The stop that fullfork_wait() waits for.  Only a thread that can still  *)
(* stop is asked to.                                                       *)
PendingRun == \A u \in Pid : jobctl[u] = "pending" => ~Exiting(u)

StopPC == {"wait", "wait_sleep"}

(* The hooks stand, and the thread whose stop is waited for is another one *)
(* of the process.                                                         *)
Hooked(t) ==
  /\ ff.hooks /\ ff.tracked_tgid = tgid[t]
  /\ temp(t) \in Pid \ {t} /\ tgid[temp(t)] = tgid[t] /\ life[temp(t)] # "free"

(* Nobody has read the SIGSTOP; or it has been read and somebody has yet to*)
(* stop; or the stop is complete and the caller is awake.                  *)
Sent(p)  == /\ p \in sigstop \ stopped
            /\ \A u \in Pid : tgid[u] = p => jobctl[u] = "none"
Asked(p) == /\ p \notin sigstop \cup stopped
            /\ \E u \in Pid : tgid[u] = p /\ jobctl[u] = "pending"

StopDue(t) ==
  \/ Sent(tgid[t])
  \/ Asked(tgid[t])
  \/ pc[t] = "wait" /\ tgid[t] \in stopped

StopWait(t) ==
  /\ pc[t] = "scan" => ff.tracked_tgid = tgid[t]
  /\ pc[t] \in {"kill"} \cup StopPC => Hooked(t)
  /\ pc[t] \in StopPC => StopDue(t)

StopWaitInv == PendingRun /\ \A t \in Pid : StopWait(t)

(* While a caller waits for its stop no other task is in the handler, and  *)
(* none builds.                                                            *)
LEMMA StopAlone ==
  ASSUME DisciplineInv, NEW t \in Pid, pc[t] \in EarlyPC
  PROVE  /\ \A u \in Pid \ {t} : ~InHandler(u)
         /\ \A c \in Pid : ~Building(c)
<1> USE DEF DisciplineInv
<1>1. InHandler(t) /\ pc[t] \notin WaitingPC
  BY DEF EarlyPC, InHandler, HandlerPC, WaitingPC
<1>2. \A u \in Pid \ {t} : ~InHandler(u)
  BY <1>1 DEF KinInv, Serial
<1>3. ASSUME NEW c \in Pid, Building(c) PROVE FALSE
  <2>0. Leads(c)
    BY <1>3 DEF BuilderInv, LateUntracked, EarlyIds, Working, Pid
  <2>1. PICK u \in Pid : CallOf(u, c)
    BY <1>3, <2>0 DEF BuilderInv, BuildsForCall, Engaged, Builds
  <2>2. InHandler(u) /\ pc[u] \in WaitingPC
    BY <2>1 DEF CallOf, WaitingPC, InHandler, HandlerPC
  <2> QED
    BY <1>1, <1>2, <2>2
<1> QED
  BY <1>2, <1>3

LEMMA StopTells ==
  ASSUME DisciplineInv, NoOrphanThread, StopWaitInv
  PROVE  StopIsComing
<1> SUFFICES ASSUME NEW t \in Pid, pc[t] = "wait_sleep", ~Interrupted(t)
             PROVE  /\ ff.hooks /\ ff.tracked_tgid = tgid[t] /\ tgid[t] \notin stopped
                    /\ \/ /\ tgid[t] \in sigstop /\ temp(t) \in Siblings(t)
                          /\ life[temp(t)] = "alive" /\ jobctl[temp(t)] = "none"
                       \/ \E u \in Siblings(t) : life[u] = "alive" /\ jobctl[u] = "pending"
  BY DEF StopIsComing
<1>1. Hooked(t) /\ (Sent(tgid[t]) \/ Asked(tgid[t]))
  BY DEF StopWaitInv, StopWait, StopPC, StopDue
<1>2. \A u \in Pid : life[u] # "new"
  <2>1. \A c \in Pid : ~Building(c)
    BY StopAlone DEF EarlyPC
  <2> QED
    BY <2>1 DEF NoOrphanThread, At, Building, BuildPC
<1>3. \A u \in Pid : life[u] # "free" /\ ~Exiting(u) => life[u] = "alive"
  BY <1>2 DEF Exiting, DisciplineInv, ExclusiveInv, TypeInv, TypeOK, TaskTypeOK
<1>4. CASE Sent(tgid[t])
  <2>1. life[temp(t)] = "alive"
    BY <1>1, <1>3, <1>4 DEF Sent, Interrupted, Hooked
  <2> QED
    BY <1>1, <1>4, <2>1 DEF Sent, Hooked, Siblings, Group
<1>5. CASE Asked(tgid[t])
  <2>1. PICK u \in Pid : tgid[u] = tgid[t] /\ jobctl[u] = "pending"
    BY <1>5 DEF Asked
  <2>2. u # t /\ ~Exiting(u) /\ life[u] # "free"
    BY <2>1 DEF Interrupted, StopWaitInv, PendingRun, DisciplineInv, ExclusiveInv, StopInv
  <2>3. life[u] = "alive" /\ u \in Siblings(t)
    BY <1>3, <2>1, <2>2 DEF Siblings, Group
  <2> QED
    BY <1>1, <1>5, <2>1, <2>3 DEF Asked, Hooked
<1> QED
  BY <1>1, <1>4, <1>5

(* The steps of the caller itself.                                         *)
LEMMA HandlerStopWait ==
  ASSUME DisciplineInv, StopWaitInv, NEW t \in Pid, Handler(t)
  PROVE  StopWait(t)'
<1> USE DEF DisciplineInv, ExclusiveInv, TypeInv, TypeOK
<1>0. ASSUME NEW l, NEW m, Step(t, l, m) PROVE pc[t] = l /\ pc'[t] = m
  BY <1>0 DEF Step, At, Goto
<1>1. CASE TrackTgid(t)
  <2>1. pc'[t] = "scan" /\ ff'.tracked_tgid = tgid[t] /\ tgid' = tgid
    BY <1>0, <1>1 DEF TrackTgid, Globals, kernel, taskVars
  <2> QED
    BY <2>1 DEF StopWait, StopPC
<1>2. CASE ScanThreads(t)
  <2>1. pc[t] = "scan" /\ pc'[t] \in {"kill", "init_wq"} /\ UNCHANGED <<tgid, life>>
    BY <1>0, <1>2 DEF ScanThreads, kernel, taskVars
  <2>2. ff'.tracked_tgid = tgid[t]
    BY <1>2, <2>1 DEF ScanThreads, Globals, StopWaitInv, StopWait
  <2>3. pc'[t] = "kill" => ff'.hooks /\ \E u \in Pid : FirstAlive(t, u) /\ temp(t)' = u
    BY <1>0, <1>2 DEF ScanThreads, Globals, Locals, temp
  <2>4. \A u \in Pid : FirstAlive(t, u) => u # t /\ tgid[u] = tgid[t] /\ life[u] # "free"
    BY DEF FirstAlive, Siblings, Group
  <2> QED
    BY <2>1, <2>2, <2>3, <2>4 DEF StopWait, StopPC, Hooked
<1>3. CASE KillStop(t)
  <2>1. pc[t] = "kill" /\ pc'[t] \in {"user", "wait"} /\ UNCHANGED <<tgid, life, ff, loc>>
    BY <1>0, <1>3 DEF KillStop, taskVars
  <2>2. Hooked(t)
    BY <2>1 DEF StopWaitInv, StopWait
  <2>3. ~Owner(tgid[t])
    <3>1. \A u \in Pid : Stopper(u) => u = t
      BY <2>1, StopAlone DEF EarlyPC, Stopper, StopperPC, InHandler, HandlerPC
    <3> QED
      BY <2>1, <3>1 DEF Owner, Stopper, StopperPC
  <2>4. pc'[t] = "wait" => Sent(tgid[t])'
    <3>1. ASSUME pc'[t] = "wait" PROVE SendStop(tgid[t])
      BY <1>0, <1>3, <3>1 DEF KillStop
    <3> QED
      BY <2>1, <2>3, <3>1 DEF SendStop, Sent, StopInv, TaskTypeOK
  <2> QED
    BY <2>1, <2>2, <2>4 DEF StopWait, StopPC, StopDue, Hooked, temp
<1>4. CASE FullforkWait(t) \/ WaitInterrupted(t)
  <2>1. /\ pc[t] \in StopPC /\ UNCHANGED <<kernel, ff, loc>>
        /\ pc'[t] \in {"unhook", "resume", "wait_sleep", "wait"}
    BY <1>0, <1>4 DEF FullforkWait, WaitInterrupted, At, Goto, StopPC
  <2>2. UNCHANGED <<tgid, life, sigstop, stopped, jobctl>>
    BY <2>1 DEF kernel, taskVars, stopVars
  <2>3. Hooked(t) /\ StopDue(t)
    BY <2>1 DEF StopWaitInv, StopWait
  <2>4. pc'[t] = "wait_sleep" => tgid[t] \notin stopped
    BY <1>0, <1>4 DEF FullforkWait, WaitInterrupted, At, Goto
  <2>5. pc'[t] = "wait" => pc[t] = "wait_sleep"
    BY <1>0, <1>4 DEF FullforkWait, WaitInterrupted, At, Goto
  <2>6. Hooked(t)' /\ (Sent(tgid[t]) => Sent(tgid[t])') /\ (Asked(tgid[t]) => Asked(tgid[t])')
    BY <2>1, <2>2, <2>3 DEF Hooked, Sent, Asked, temp
  <2> QED
    BY <2>1, <2>2, <2>3, <2>4, <2>5, <2>6 DEF StopWait, StopDue, StopPC
<1>5. CASE \/ WaitFailed(t) \/ Unhook(t) \/ InitWaitQueue(t) \/ WaitForClone(t)
           \/ Continue(t) \/ UntrackPid(t) \/ UntrackTgid(t)
  <2>1. pc'[t] \notin {"scan", "kill"} \cup StopPC
    BY <1>0, <1>5 DEF WaitFailed, Unhook, InitWaitQueue, WaitForClone, Continue, UntrackPid,
       UntrackTgid, StopPC
  <2> QED
    BY <2>1 DEF StopWait
<1>6. CASE LeaderClone(t)
  <2>1. pc'[t] \in {"cont", "await"}
    BY <1>0, <1>6 DEF LeaderClone, At, FreshPid
  <2> QED
    BY <2>1 DEF StopWait, StopPC
<1> QED
  BY <1>1, <1>2, <1>3, <1>4, <1>5, <1>6 DEF Handler

(* The threads of the process stop or leave one by one: whoever completes  *)
(* the stop wakes the caller.                                              *)
LEMMA SiblingStops ==
  ASSUME DisciplineInv, NEW t \in Pid, pc[t] \in StopPC, Hooked(t), StopDue(t),
         NEW s \in Pid \ {t}, DequeueStop(s) \/ GroupStop(s) \/ Exit(s)
  PROVE  StopDue(t)'
<1> USE DEF DisciplineInv, ExclusiveInv, TypeInv, TypeOK, TaskTypeOK
<1>1. /\ UNCHANGED tgid /\ NotifyStop(s)
      /\ \A u \in Pid : tgid[u] # tgid[s] => jobctl'[u] = jobctl[u]
      /\ \A p : p # tgid[s] => /\ p \in sigstop' <=> p \in sigstop
                               /\ p \in stopped' <=> p \in stopped
  <2>1. CASE DequeueStop(s)
    BY <2>1 DEF DequeueStop, DoSignalStop, Siblings, Group, taskVars
  <2>2. CASE GroupStop(s)
    BY <2>2 DEF GroupStop, StopHere, taskVars
  <2>3. CASE Exit(s)
    BY <2>3 DEF Exit, TaskExit
  <2> QED
    BY <2>1, <2>2, <2>3
<1>2. /\ pc[t] = "wait" => pc'[t] = "wait"
      /\ tgid[s] = tgid[t] /\ stopped' # stopped => pc'[t] = "wait"
  BY <1>1 DEF NotifyStop, Hooked, is_eligible_pid, parent_changer, StopPC
<1>3. CASE tgid[s] # tgid[t]
  BY <1>1, <1>2, <1>3 DEF StopDue, Sent, Asked
<1>4. CASE tgid[s] = tgid[t] /\ pc[t] = "wait" /\ tgid[t] \in stopped
  <2>1. stopped \subseteq stopped'
    BY DEF DequeueStop, DoSignalStop, GroupStop, StopHere, Exit, TaskExit
  <2> QED
    BY <1>1, <1>2, <1>4, <2>1 DEF StopDue
<1>5. ASSUME tgid[s] = tgid[t], tgid[t] \notin stopped, tgid[t] \in stopped'
      PROVE  StopDue(t)'
  BY <1>1, <1>2, <1>5 DEF StopDue
<1>6. CASE tgid[s] = tgid[t] /\ Sent(tgid[t])
  <2>1. jobctl[s] = "none" /\ tgid[t] \notin stopped
    BY <1>6 DEF Sent
  <2>2. ~GroupStop(s)
    BY <2>1 DEF GroupStop
  <2>3. CASE DequeueStop(s)
    <3>1. tgid[t] \notin sigstop'
      BY <1>6, <2>3 DEF DequeueStop, DoSignalStop
    <3>2. CASE tgid[t] \notin stopped'
      <4>1. \E u \in Siblings(s) : jobctl'[u] = "pending"
        BY <1>6, <2>3, <3>2 DEF DequeueStop, DoSignalStop, Siblings
      <4> QED
        BY <1>1, <1>6, <3>1, <3>2, <4>1 DEF StopDue, Asked, Siblings, Group
    <3> QED
      BY <1>5, <1>6, <2>1, <3>2
  <2>4. CASE Exit(s)
    BY <1>1, <1>6, <2>1, <2>4 DEF Exit, TaskExit, StopDue, Sent
  <2> QED
    BY <2>2, <2>3, <2>4
<1>7. CASE tgid[s] = tgid[t] /\ Asked(tgid[t])
  <2>1. tgid[t] \notin stopped /\ ~DequeueStop(s)
    BY <1>7 DEF Asked, DequeueStop
  <2>2. sigstop' = sigstop
    BY <2>1 DEF GroupStop, StopHere, Exit, TaskExit
  <2>3. CASE tgid[t] \notin stopped'
    <3>1. \E u \in Pid \ {s} : tgid[u] = tgid[t] /\ jobctl[u] = "pending"
      <4>1. CASE LastToStop(s)
        <5>1. jobctl[s] # "pending"
          BY <1>7, <2>1, <2>3, <4>1 DEF GroupStop, StopHere, Exit, TaskExit
        <5> QED
          BY <1>7, <5>1 DEF Asked
      <4>2. CASE ~LastToStop(s)
        BY <1>7, <4>2 DEF LastToStop, Siblings, Group
      <4> QED
        BY <4>1, <4>2
    <3>2. \A u \in Pid \ {s} : jobctl'[u] = jobctl[u]
      BY <2>1 DEF GroupStop, StopHere, Exit, TaskExit
    <3> QED
      BY <1>1, <1>7, <2>2, <2>3, <3>1, <3>2 DEF StopDue, Asked
  <2> QED
    BY <1>5, <1>7, <2>1, <2>3
<1> QED
  BY <1>3, <1>4, <1>6, <1>7 DEF StopDue

(* The step of another task.                                               *)
LEMMA OthersStopWait ==
  ASSUME Disciplined, DisciplineInv, StopWaitInv, NEW t \in Pid, NEW s \in Pid \ {t},
         Footprint(s), Frame(s), Handler(s) \/ PullBack(s) \/ Kernel(s) \/ Program(s)
  PROVE  StopWait(t)'
<1> USE DEF DisciplineInv, ExclusiveInv, TypeInv, TypeOK
<1> SUFFICES ASSUME pc'[t] \in {"scan", "kill"} \cup StopPC PROVE StopWait(t)'
  BY DEF StopWait
<1>1. /\ pc'[t] = pc[t] \/ (pc[t] = "wait_sleep" /\ pc'[t] = "wait")
      /\ pc[t] \in {"scan", "kill"} \cup StopPC
  BY DEF Footprint, Untouched, Made, Started, Woken, StopPC
<1>2. pc[t] \in EarlyPC /\ pc[t] \notin {"user", "tail"}
  BY <1>1 DEF EarlyPC, StopPC
<1>3. life[t] = "alive" /\ loc'[t] = loc[t] /\ tgid'[t] = tgid[t]
  BY <1>2 DEF TableInv, Present, Frame
<1>4. \A u \in Pid : life[u] # "free" => life'[u] # "free" /\ tgid'[u] = tgid[u]
  BY DEF Frame
<1>5. PullBack(s) \/ Kernel(s) \/ Program(s)
  <2>1. Handler(s) => InHandler(s)
    BY DEF Handler, TrackTgid, ScanThreads, KillStop, FullforkWait, WaitInterrupted,
       WaitFailed, Unhook, InitWaitQueue, LeaderClone, WaitForClone, Continue,
       UntrackPid, UntrackTgid, Step, At, InHandler, HandlerPC
  <2> QED
    BY <1>2, <2>1, StopAlone
<1>6. ~Call(s)
  BY <1>2 DEF Call, Disciplined
<1>7. UNCHANGED ff
  BY <1>2, <1>5, <1>6, OthersQuiet
<1>8. pc'[t] = "scan" => ff'.tracked_tgid = tgid'[t]
  BY <1>1, <1>3, <1>7 DEF StopWaitInv, StopWait
<1>9. pc'[t] \in {"kill"} \cup StopPC => Hooked(t) /\ Hooked(t)'
  <2>1. pc'[t] \in {"kill"} \cup StopPC => Hooked(t)
    BY <1>1 DEF StopWaitInv, StopWait, StopPC
  <2>2. Hooked(t) => Hooked(t)'
    BY <1>3, <1>4, <1>7 DEF Hooked, temp
  <2> QED
    BY <2>1, <2>2
<1>10. ASSUME pc'[t] \in StopPC PROVE StopDue(t)'
  <2>1. pc[t] \in StopPC /\ Hooked(t) /\ StopDue(t)
    BY <1>1, <1>9, <1>10 DEF StopWaitInv, StopWait, StopPC
  <2>2. CASE DequeueStop(s) \/ GroupStop(s) \/ Exit(s)
    BY <2>1, <2>2, SiblingStops
  <2>3. CASE UNCHANGED stopVars
    <3>1. \A u \in Pid : jobctl[u] # "none" => life[u] # "free"
      BY DEF StopInv
    <3>2. UNCHANGED <<jobctl, sigstop, stopped>>
      BY <2>3 DEF stopVars
    <3>3. ASSUME Sent(tgid[t]) PROVE Sent(tgid[t])'
      BY <1>3, <1>4, <3>1, <3>2, <3>3 DEF Sent
    <3>4. ASSUME Asked(tgid[t]) PROVE Asked(tgid[t])'
      BY <1>3, <1>4, <3>1, <3>2, <3>4 DEF Asked
    <3> QED
      BY <1>1, <1>3, <2>1, <3>2, <3>3, <3>4 DEF StopDue
  <2>4. PullBack(s) => UNCHANGED stopVars
    BY PullBackFrame
  <2>5. Release(s) \/ Fork(s) \/ Spawn(s) => UNCHANGED stopVars
    BY DEF Release, Fork, Spawn
  <2> QED
    BY <1>5, <1>6, <2>2, <2>3, <2>4, <2>5 DEF Kernel, Program
<1> QED
  BY <1>8, <1>9, <1>10 DEF StopWait

LEMMA TaskPendingRun ==
  ASSUME DisciplineInv, PendingRun, NEW t \in Pid, Footprint(t),
         Handler(t) \/ PullBack(t) \/ Kernel(t) \/ Program(t)
  PROVE  PendingRun'
<1> USE DEF DisciplineInv, ExclusiveInv, TypeInv, TypeOK, TaskTypeOK
<1> SUFFICES ASSUME NEW u \in Pid, jobctl'[u] = "pending" PROVE ~Exiting(u)'
  BY DEF PendingRun
<1>1. ~Exiting(u)
  <2>1. jobctl[u] = "pending" \/ ~Exiting(u)
    <3>1. CASE DequeueStop(t)
      BY <3>1 DEF DequeueStop, DoSignalStop
    <3>2. CASE GroupStop(t) \/ Exit(t)
      BY <3>2 DEF GroupStop, StopHere, Exit, TaskExit
    <3>3. CASE KillStop(t) \/ WaitFailed(t) \/ Continue(t) \/ Unhook(t)
      BY <3>3 DEF KillStop, WaitFailed, Continue, Unhook, SendStop, SendCont,
         ClearStopPending, stopVars
    <3>4. CASE \/ TrackTgid(t) \/ ScanThreads(t) \/ FullforkWait(t) \/ WaitInterrupted(t)
               \/ InitWaitQueue(t) \/ LeaderClone(t) \/ WaitForClone(t) \/ UntrackPid(t)
               \/ UntrackTgid(t) \/ Release(t) \/ Call(t) \/ Fork(t) \/ Spawn(t)
      BY <3>4 DEF TrackTgid, ScanThreads, FullforkWait, WaitInterrupted, InitWaitQueue,
         LeaderClone, WaitForClone, UntrackPid, UntrackTgid, Release, Call, Fork, Spawn,
         kernel, stopVars
    <3>5. CASE PullBack(t)
      BY <3>5, PullBackFrame DEF stopVars
    <3> QED
      BY <3>1, <3>2, <3>3, <3>4, <3>5 DEF Handler, Kernel, Program
  <2> QED
    BY <2>1 DEF PendingRun
<1>2. Exiting(u)' => u = t /\ Exit(t)
  BY <1>1, EndsByExit
<1>3. Exit(t) => jobctl'[t] # "pending"
  BY DEF Exit, TaskExit
<1> QED
  BY <1>2, <1>3

LEMMA NextStopWait ==
  ASSUME Disciplined, DisciplineInv, StopWaitInv, [Next]_vars
  PROVE  StopWaitInv'
<1> USE DEF DisciplineInv, ExclusiveInv
<1>1. CASE InitModule \/ CleanupModule
  <2>1. UNCHANGED <<life, jobctl, pc>> /\ \A t \in Pid : ~InModule(t)
    BY <1>1 DEF InitModule, CleanupModule, BuilderInv, InUse, kernel, taskVars, stopVars
  <2> QED
    BY <2>1 DEF StopWaitInv, PendingRun, Exiting, StopWait, StopPC, InModule, HandlerPC
<1>2. CASE UNCHANGED vars
  BY <1>2 DEF vars, kernel, taskVars, stopVars, StopWaitInv, PendingRun, Exiting, StopWait,
     Hooked, StopDue, Sent, Asked, temp
<1>3. ASSUME NEW s \in Pid, Handler(s) \/ PullBack(s) \/ Kernel(s) \/ Program(s)
      PROVE  StopWaitInv'
  <2>1. Footprint(s) /\ Frame(s)
    BY <1>3, TaskFootprint
  <2>2. PendingRun'
    BY <1>3, <2>1, TaskPendingRun DEF StopWaitInv
  <2>3. \A t \in Pid \ {s} : StopWait(t)'
    BY <1>3, <2>1, OthersStopWait
  <2>4. StopWait(s)'
    <3>1. CASE Handler(s)
      BY <3>1, HandlerStopWait
    <3>2. CASE ~Handler(s)
      <4>1. pc'[s] \notin {"scan", "kill"} \cup StopPC
        <5>1. InHandler(s)' => InHandler(s) \/ Call(s)
          BY <2>1 DEF Footprint
        <5>2. Call(s) => pc'[s] = "track_tgid"
          BY DEF Call, Goto, TypeInv, TypeOK
        <5>3. ~InHandler(s)
          BY <1>3, <3>2 DEF PullBack, EnterPullBack, TestClone, Claim, EndLoop, SkipExiting,
             CloneThread, StartThread, DonePid, DoneTgid, WakeCaller, Unclaim, Step, At,
             Kernel, DequeueStop, GroupStop, Release, Program, Call, Exit, Fork, Spawn,
             UserMode, InHandler, HandlerPC, TableInv, Present
        <5> QED
          BY <5>1, <5>2, <5>3 DEF InHandler, HandlerPC, StopPC
      <4> QED
        BY <4>1 DEF StopWait
    <3> QED
      BY <3>1, <3>2
  <2> QED
    BY <2>2, <2>3, <2>4 DEF StopWaitInv
<1> QED
  BY <1>1, <1>2, <1>3 DEF Next, Rest

(* The caller is never left asleep in fullfork_wait() either.  The hooks   *)
(* change whom the stop counts and whom its completion notifies, and the   *)
(* kernel code is not told: a thread that has read the SIGSTOP, or has yet *)
(* to, is still able to stop, its stop counts, and the last one wakes the  *)
(* caller, which is not itself the one waited for.                         *)
THEOREM StopIsNotSleptThrough ==
  ASSUME Disciplined
  PROVE  Spec => []StopIsComing
<1>1. Init => NoOrphanThread /\ StopWaitInv
  BY BootAssumption DEF Init, TaskInit, NoOrphanThread, StopWaitInv, PendingRun, StopWait,
     StopPC
<1>2. DisciplineInv /\ NoOrphanThread /\ StopWaitInv => StopIsComing
  BY StopTells
<1>3. DisciplineInv /\ [Next]_vars => DisciplineInv'
  BY NextDiscipline
<1>4. DisciplineInv /\ NoOrphanThread /\ [Next]_vars => NoOrphanThread'
  BY NextNoOrphan DEF DisciplineInv, ExclusiveInv
<1>5. DisciplineInv /\ StopWaitInv /\ [Next]_vars => StopWaitInv'
  BY NextStopWait
<1> QED
  BY <1>1, <1>2, <1>3, <1>4, <1>5, InitDiscipline, PTL DEF Spec
=============================================================================
