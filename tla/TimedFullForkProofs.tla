-------------------------- MODULE TimedFullForkProofs --------------------------
(***************************************************************************)
(* The stamps of the timed module, where calls are spaced: the line of a   *)
(* call holds stamps of that call and of no other, although times[]        *)
(* outlives the calls, and every call prints one unless a thread has ended.*)
(***************************************************************************)
EXTENDS TimedFullFork, FullForkBuilderProofs

(* How many stamps a call has taken at each statement of the handler, one  *)
(* that stops nobody aside, which does not take the second and the third.  *)
Stage1 == {"track_tgid", "scan", "kill"}
Stage2 == {"wait", "wait_sleep", "resume", "unhook"}
Stage3 == {"init_wq", "fork"}
Stage4 == {"await", "asleep"}
Stage5 == {"cont", "untrack_pid", "untrack_tgid"}

Stage(t) == CASE pc[t] \in Stage1 -> 1
              [] pc[t] \in Stage2 -> 2
              [] pc[t] \in Stage3 -> 3
              [] pc[t] \in Stage4 -> 4
              [] pc[t] \in Stage5 -> 5
              [] OTHER            -> 0

(* The first k stamps are of one call, and the last one was read just now. *)
InOrder(k) == /\ times[k - 1] = now
              /\ \A i \in 1 .. k - 1 : times[i - 1] < times[i]

(* So far the call of t has stopped a sibling and forked, if it is past    *)
(* these statements.                                                       *)
Regular(t) == /\ Stage(t) \in 3 .. 5 => temp(t) # Outside
              /\ Stage(t) = 5 => child(t) # Outside

Entered == \A t \in Pid : /\ pc[t] \in {"track_tgid", "scan"} => temp(t) = Outside
                          /\ pc[t] \in EarlyPC => child(t) = Outside

ClockType ==
  /\ now \in Nat
  /\ times \in [Stamps -> 0 .. now]
  /\ lines \in Seq([stopped : BOOLEAN, forked : BOOLEAN, times : [Stamps -> Nat]])

(* Six stamps and one line for each call that is over, fewer for the one   *)
(* that is under way.                                                      *)
Counted ==
  /\ now =< 6 * calls /\ Len(lines) =< calls
  /\ \A t \in Pid : InHandler(t) => /\ now + 6 =< 6 * calls + Stage(t)
                                    /\ Len(lines) + 1 =< calls

Timed == \A t \in Pid : InHandler(t) /\ Regular(t) => InOrder(Stage(t))

SerialInv == ExclusiveInv /\ KinInv

TimedInv ==
  SerialInv /\ InUse /\ Entered /\ ClockType /\ Counted /\ Timed /\ LinesInOrder

-----------------------------------------------------------------------------
(* What the untimed module does is all that the timed one does.            *)
LEMMA TimedStep == TimedNext => [Next]_vars
BY DEF TimedNext, TimedInitModule, TimedCleanupModule, TimedHandler, TimedPullBack,
   Elsewhere, Next, Program

LEMMA NextSerial ==
  ASSUME Spaced, SerialInv, [Next]_vars
  PROVE  SerialInv'
<1>1. ExclusiveInv'
  BY NextExclusiveInv DEF SerialInv, OneCallerEach
<1>2. KinInv'
  <2>1. CASE InitModule \/ CleanupModule \/ UNCHANGED vars
    BY <2>1 DEF InitModule, CleanupModule, vars, kernel, taskVars, SerialInv, KinInv, Serial,
       Orphaned, ParentsTaken, InHandler
  <2>2. ASSUME NEW t \in Pid, Handler(t) \/ PullBack(t) \/ Kernel(t) \/ Program(t)
        PROVE  KinInv'
    BY <2>2, TaskFootprint, TaskKin, TaskKinInv DEF SerialInv, ExclusiveInv
  <2> QED
    BY <2>1, <2>2 DEF Next, Rest
<1> QED
  BY <1>1, <1>2 DEF SerialInv

LEMMA StageNames ==
  ASSUME NEW t \in Pid, TypeInv
  PROVE  /\ InHandler(t) <=> Stage(t) # 0
         /\ Stage(t) \in 0 .. 5
BY DEF Stage, Stage1, Stage2, Stage3, Stage4, Stage5, InHandler, HandlerPC

(* What a step of the handler does to the stage of its call, and the stamp *)
(* that it takes.                                                          *)
Taken(t) == IF pc'[t] = pc[t] THEN None ELSE StampOf(pc[t], pc'[t])

Lingers(t) == /\ Stage(t) # 0 /\ Stage(t)' = Stage(t) /\ Taken(t) = None
              /\ child(t)' = child(t) /\ (temp(t)' = temp(t) \/ Stage(t) = 1)

Proceeds(t) == /\ Stage(t) \in 1 .. 4 /\ Stage(t)' = Stage(t) + 1 /\ Taken(t) = Stage(t)
               /\ temp(t)' = temp(t) /\ (child(t)' = child(t) \/ Stage(t) = 3)

(* Nobody to stop, or no child.                                            *)
Skips(t) == /\ \/ Stage(t) = 1 /\ Stage(t)' = 3 /\ temp(t)' = Outside /\ Taken(t) = None
               \/ Stage(t) = 3 /\ Stage(t)' = 5 /\ child(t)' = Outside /\ Taken(t) = 4

Fails(t)    == Stage(t) # 0 /\ Stage(t)' = 0 /\ Taken(t) = None
Finishes(t) == /\ Stage(t) = 5 /\ Stage(t)' = 0 /\ Taken(t) = 5
               /\ child(t)' = child(t) /\ temp(t)' = temp(t)

LEMMA HandlerMoves ==
  ASSUME TypeInv, Entered, NEW t \in Pid, Handler(t)
  PROVE  Lingers(t) \/ Proceeds(t) \/ Skips(t) \/ Fails(t) \/ Finishes(t)
<1> USE DEF Stage, Stage1, Stage2, Stage3, Stage4, Stage5, Taken, StampOf, None
<1>0. ASSUME NEW l, NEW m, Step(t, l, m) PROVE pc[t] = l /\ pc'[t] = m
  BY <1>0 DEF Step, At, Goto, TypeInv, TypeOK
<1>1. CASE TrackTgid(t)
  <2>1. pc[t] = "track_tgid" /\ pc'[t] = "scan" /\ UNCHANGED loc
    BY <1>0, <1>1 DEF TrackTgid
  <2> QED
    BY <2>1 DEF Lingers, temp, child
<1>2. CASE ScanThreads(t)
  <2>1. pc[t] = "scan" /\ child(t)' = child(t)
    BY <1>0, <1>2 DEF ScanThreads, TypeInv, TypeOK, Locals, child
  <2>2. \/ pc'[t] = "kill"
        \/ pc'[t] = "init_wq" /\ UNCHANGED loc
    BY <1>0, <1>2 DEF ScanThreads
  <2> QED
    BY <2>1, <2>2 DEF Lingers, Skips, Entered, temp
<1>3. CASE KillStop(t)
  <2>1. pc[t] = "kill" /\ pc'[t] \in {"user", "wait"} /\ UNCHANGED loc
    BY <1>0, <1>3 DEF KillStop
  <2> QED
    BY <2>1 DEF Proceeds, Fails, temp, child
<1>4. CASE FullforkWait(t)
  <2>1. /\ pc[t] = "wait" /\ pc'[t] \in {"unhook", "resume", "wait_sleep"}
        /\ UNCHANGED loc
    BY <1>4 DEF FullforkWait, At, Goto, TypeInv, TypeOK
  <2> QED
    BY <2>1 DEF Lingers, temp, child
<1>5. CASE WaitInterrupted(t)
  <2>1. pc[t] = "wait_sleep" /\ pc'[t] = "wait" /\ UNCHANGED loc
    BY <1>0, <1>5 DEF WaitInterrupted
  <2> QED
    BY <2>1 DEF Lingers, temp, child
<1>6. CASE WaitFailed(t)
  <2>1. pc[t] = "resume" /\ pc'[t] = "user"
    BY <1>0, <1>6 DEF WaitFailed
  <2> QED
    BY <2>1 DEF Fails
<1>7. CASE Unhook(t)
  <2>1. pc[t] = "unhook" /\ pc'[t] = "init_wq" /\ UNCHANGED loc
    BY <1>0, <1>7 DEF Unhook
  <2> QED
    BY <2>1 DEF Proceeds, temp, child
<1>8. CASE InitWaitQueue(t)
  <2>1. pc[t] = "init_wq" /\ pc'[t] = "fork" /\ UNCHANGED loc
    BY <1>0, <1>8 DEF InitWaitQueue
  <2> QED
    BY <2>1 DEF Lingers, temp, child
<1>9. CASE LeaderClone(t)
  <2>1. CASE Step(t, "fork", "cont") /\ loc' = [loc EXCEPT ![t].err = -1]
    <3>1. pc[t] = "fork" /\ pc'[t] = "cont" /\ child(t)' = child(t)
      BY <1>0, <2>1 DEF TypeInv, TypeOK, Locals, child
    <3> QED
      BY <3>1 DEF Skips, Entered, EarlyPC, child
  <2>2. ASSUME NEW c \in Pid, At(t, "fork"), FreshPid(c),
               loc' = [loc EXCEPT ![t].child = c],
               pc' = [pc EXCEPT ![t] = "await", ![c] = "tail"]
        PROVE  Proceeds(t)
    <3>1. pc[t] = "fork" /\ pc'[t] = "await" /\ temp(t)' = temp(t)
      BY <2>2 DEF At, FreshPid, TypeInv, TypeOK, Locals, temp
    <3> QED
      BY <3>1 DEF Proceeds
  <2> QED
    BY <1>9, <2>1, <2>2 DEF LeaderClone
<1>10. CASE WaitForClone(t)
  <2>1. /\ pc[t] = "await" /\ pc'[t] \in {"cont", "asleep"}
        /\ temp(t)' = temp(t) /\ child(t)' = child(t)
    BY <1>0, <1>10 DEF WaitForClone, TypeInv, TypeOK, Locals, temp, child
  <2> QED
    BY <2>1 DEF Lingers, Proceeds, temp, child
<1>11. CASE Continue(t)
  <2>1. pc[t] = "cont" /\ pc'[t] = "untrack_pid" /\ UNCHANGED loc
    BY <1>0, <1>11 DEF Continue
  <2> QED
    BY <2>1 DEF Lingers, temp, child
<1>12. CASE UntrackPid(t)
  <2>1. pc[t] = "untrack_pid" /\ pc'[t] = "untrack_tgid" /\ UNCHANGED loc
    BY <1>0, <1>12 DEF UntrackPid
  <2> QED
    BY <2>1 DEF Lingers, temp, child
<1>13. CASE UntrackTgid(t)
  <2>1. pc[t] = "untrack_tgid" /\ pc'[t] = "user" /\ UNCHANGED loc
    BY <1>0, <1>13 DEF UntrackTgid
  <2> QED
    BY <2>1 DEF Finishes, temp, child
<1> QED
  BY <1>1, <1>2, <1>3, <1>4, <1>5, <1>6, <1>7, <1>8, <1>9, <1>10, <1>11, <1>12, <1>13
     DEF Handler

-----------------------------------------------------------------------------
(* The effect of a stamp on the clock, the times and the log.              *)
Line(t) == [stopped |-> temp(t) # Outside, forked |-> child(t) # Outside,
            times |-> times']

LEMMA StampEffect ==
  ASSUME ClockType, NEW t \in Pid, Stamp(t)
  PROVE  /\ Taken(t) = None => UNCHANGED clock
         /\ Taken(t) \in Stamps =>
              /\ now' = now + 1 /\ times' \in [Stamps -> 0 .. now']
              /\ times'[Taken(t)] = now'
              /\ \A j \in Stamps \ {Taken(t)} : times'[j] = times[j]
         /\ lines' = IF Taken(t) = 5 THEN Append(lines, Line(t)) ELSE lines
<1> DEFINE i == Taken(t)
<1>1. /\ now' = IF i = None THEN now ELSE now + 1
      /\ times' = [j \in Stamps |-> IF j = i THEN now' ELSE times[j]]
      /\ lines' = IF ~Reports(i) THEN lines ELSE Append(lines, Line(t))
  BY DEF Stamp, Taken, Line
<1> HIDE DEF i
<1>2. i = None => UNCHANGED clock
  <2>1. None \notin Stamps /\ ~Reports(None)
    BY DEF None, Stamps, Reports
  <2> QED
    BY <1>1, <2>1 DEF clock, ClockType
<1>3. i \in Stamps => now' = now + 1 /\ times'[i] = now'
  BY <1>1 DEF Stamps, None
<1>4. i \in Stamps => times' \in [Stamps -> 0 .. now']
  BY <1>1, <1>3 DEF ClockType
<1>5. \A j \in Stamps \ {i} : times'[j] = times[j]
  BY <1>1
<1> QED
  BY <1>1, <1>2, <1>3, <1>4, <1>5 DEF Reports, i

LEMMA StampType ==
  ASSUME ClockType, NEW t \in Pid, Stamp(t), Taken(t) \in Stamps \cup {None}
  PROVE  /\ ClockType'
         /\ Len(lines') = IF Taken(t) = 5 THEN Len(lines) + 1 ELSE Len(lines)
<1>1. now' \in Nat /\ times' \in [Stamps -> 0 .. now']
  BY StampEffect DEF ClockType, clock
<1> DEFINE Entry == [stopped : BOOLEAN, forked : BOOLEAN, times : [Stamps -> Nat]]
<1>2. Line(t) \in Entry
  BY <1>1 DEF Line
<1>3. lines \in Seq(Entry) /\ lines' = IF Taken(t) = 5 THEN Append(lines, Line(t)) ELSE lines
  BY StampEffect DEF ClockType
<1> HIDE DEF Entry
<1>4. /\ lines' \in Seq(Entry)
      /\ Len(lines') = IF Taken(t) = 5 THEN Len(lines) + 1 ELSE Len(lines)
  BY <1>2, <1>3
<1> QED
  BY <1>1, <1>4 DEF ClockType, Entry

(* A task whose step it is not stays in its call as it is.                 *)
LEMMA OthersStage ==
  ASSUME TypeInv, TableInv, NEW t \in Pid, Footprint(t), Frame(t),
         NEW u \in Pid \ {t}, InHandler(u)'
  PROVE  /\ InHandler(u) /\ Stage(u)' = Stage(u)
         /\ temp(u)' = temp(u) /\ child(u)' = child(u)
         /\ pc'[u] \in {"track_tgid", "scan"} => pc[u] = pc'[u]
         /\ pc'[u] \in EarlyPC => pc[u] \in EarlyPC
<1>1. life[u] = "alive" /\ (pc'[u] = pc[u] \/ Woken(u))
  BY DEF Footprint, Untouched, Made, Started, TableInv, Present, InHandler, HandlerPC,
     Woken
<1>2. loc'[u] = loc[u]
  BY <1>1 DEF Frame
<1>3. CASE pc'[u] = pc[u]
  BY <1>2, <1>3 DEF Stage, temp, child, InHandler
<1>4. CASE pc[u] = "wait_sleep" /\ pc'[u] = "wait"
  BY <1>2, <1>4 DEF Stage, Stage1, Stage2, Stage3, Stage4, Stage5, temp, child,
     InHandler, HandlerPC, EarlyPC
<1>5. CASE pc[u] = "asleep" /\ pc'[u] = "await"
  BY <1>2, <1>5 DEF Stage, Stage1, Stage2, Stage3, Stage4, Stage5, temp, child,
     InHandler, HandlerPC, EarlyPC
<1> QED
  BY <1>1, <1>3, <1>4, <1>5 DEF Woken

-----------------------------------------------------------------------------
(* A step that takes no stamp and moves no call from one stage to another. *)
LEMMA QuietTimed ==
  ASSUME TimedInv, UNCHANGED <<clock, calls>>,
         \A u \in Pid : InHandler(u)' =>
           /\ InHandler(u) /\ Stage(u)' = Stage(u)
           /\ temp(u)' = temp(u) /\ child(u)' = child(u)
  PROVE  ClockType' /\ Counted' /\ Timed' /\ LinesInOrder'
<1> USE DEF TimedInv, clock
<1>1. ClockType' /\ LinesInOrder'
  BY DEF ClockType, LinesInOrder
<1>2. Counted'
  BY DEF Counted
<1>3. \A u \in Pid : InHandler(u)' /\ Regular(u)' => Regular(u)
  BY DEF Regular
<1>4. \A k : InOrder(k) => InOrder(k)'
  BY DEF InOrder
<1>5. Timed'
  BY <1>3, <1>4 DEF Timed
<1> QED
  BY <1>1, <1>2, <1>5

LEMMA TaskEntered ==
  ASSUME TypeInv, TableInv, Entered, NEW t \in Pid, Footprint(t), Frame(t),
         Handler(t) \/ PullBack(t) \/ Kernel(t) \/ Program(t)
  PROVE  Entered'
<1>1. ASSUME NEW u \in Pid \ {t}
      PROVE  /\ pc'[u] \in {"track_tgid", "scan"} => temp(u)' = Outside
             /\ pc'[u] \in EarlyPC => child(u)' = Outside
  <2>1. CASE InHandler(u)'
    BY <2>1, OthersStage DEF Entered, EarlyPC
  <2>2. CASE ~InHandler(u)'
    BY <2>2 DEF InHandler, HandlerPC, EarlyPC
  <2> QED
    BY <2>1, <2>2
<1>2. /\ pc'[t] \in {"track_tgid", "scan"} => temp(t)' = Outside
      /\ pc'[t] \in EarlyPC => child(t)' = Outside
  <2>1. CASE Call(t)
    <3>1. temp(t)' = Outside /\ child(t)' = Outside
      BY <2>1 DEF Call, temp, child, TypeInv, TypeOK, Locals
    <3> QED
      BY <3>1
  <2>2. CASE ~Call(t) /\ ~Handler(t)
    <3>1. ~InHandler(t)' \/ InHandler(t)
      BY <2>2 DEF Footprint
    <3>2. ~InHandler(t)
      BY <2>2 DEF PullBack, EnterPullBack, TestClone, Claim, EndLoop, SkipExiting,
         CloneThread, StartThread, DonePid, DoneTgid, WakeCaller, Unclaim, Step, At,
         Kernel, DequeueStop, GroupStop, Release, Program, Exit, Fork, Spawn, UserMode,
         InHandler, HandlerPC, TableInv, Present
    <3> QED
      BY <3>1, <3>2 DEF InHandler, HandlerPC, EarlyPC
  <2>3. CASE Handler(t)
    <3>0. ASSUME NEW l, NEW m, Step(t, l, m) PROVE pc[t] = l /\ pc'[t] = m
      BY <3>0 DEF Step, At, Goto, TypeInv, TypeOK
    <3>1. CASE TrackTgid(t)
      BY <3>0, <3>1 DEF TrackTgid, Entered, EarlyPC, temp, child
    <3>2. CASE ScanThreads(t)
      <4>1. pc[t] = "scan" /\ child(t)' = child(t) /\ pc'[t] \in {"kill", "init_wq"}
        BY <3>0, <3>2 DEF ScanThreads, TypeInv, TypeOK, Locals, child
      <4> QED
        BY <4>1 DEF Entered, EarlyPC
    <3>3. CASE LeaderClone(t)
      <4>1. pc'[t] \in {"cont", "await"}
        BY <3>3 DEF LeaderClone, Step, At, Goto, FreshPid, TypeInv, TypeOK
      <4> QED
        BY <4>1 DEF EarlyPC
    <3>4. CASE KillStop(t) \/ WaitInterrupted(t) \/ WaitFailed(t) \/ Unhook(t)
               \/ InitWaitQueue(t) \/ Continue(t) \/ UntrackPid(t) \/ UntrackTgid(t)
      <4>1. UNCHANGED loc /\ pc[t] \in HandlerPC
        BY <3>0, <3>4 DEF KillStop, WaitInterrupted, WaitFailed, Unhook, InitWaitQueue,
           Continue, UntrackPid, UntrackTgid, HandlerPC
      <4>2. pc'[t] \in {"user", "wait", "init_wq", "fork", "untrack_pid", "untrack_tgid"}
        BY <3>0, <3>4 DEF KillStop, WaitInterrupted, WaitFailed, Unhook, InitWaitQueue,
           Continue, UntrackPid, UntrackTgid
      <4>3. pc'[t] \in {"wait", "init_wq", "fork"} => pc[t] \in EarlyPC
        BY <3>0, <3>4 DEF KillStop, WaitInterrupted, WaitFailed, Unhook, InitWaitQueue,
           Continue, UntrackPid, UntrackTgid, EarlyPC
      <4> QED
        BY <4>1, <4>2, <4>3 DEF Entered, EarlyPC, temp, child
    <3>5. CASE FullforkWait(t)
      <4>1. /\ pc[t] = "wait" /\ pc'[t] \in {"unhook", "resume", "wait_sleep"}
            /\ UNCHANGED loc
        BY <3>5 DEF FullforkWait, At, Goto, TypeInv, TypeOK
      <4> QED
        BY <4>1 DEF Entered, EarlyPC, temp, child
    <3>6. CASE WaitForClone(t)
      <4>1. pc'[t] \in {"cont", "asleep"}
        BY <3>0, <3>6 DEF WaitForClone
      <4> QED
        BY <4>1 DEF EarlyPC
    <3> QED
      BY <2>3, <3>1, <3>2, <3>3, <3>4, <3>5, <3>6 DEF Handler
  <2> QED
    BY <2>1, <2>2, <2>3
<1> QED
  BY <1>1, <1>2 DEF Entered

(* A task is in the text of the module only while that is loaded.          *)
LEMMA TaskInUse ==
  ASSUME TypeInv, TableInv, InUse, NEW t \in Pid, Footprint(t),
         Handler(t) \/ PullBack(t) \/ Kernel(t) \/ Program(t)
  PROVE  InUse' /\ ff'.loaded = ff.loaded
<1> USE DEF TypeInv, TypeOK, TableInv
<1>1. ff'.loaded = ff.loaded
  <2>1. CASE Handler(t)
    BY <2>1 DEF Handler, TrackTgid, ScanThreads, KillStop, FullforkWait,
       WaitInterrupted, WaitFailed, Unhook, InitWaitQueue, LeaderClone, WaitForClone,
       Continue, UntrackPid, UntrackTgid, Globals
  <2>2. CASE PullBack(t)
    BY <2>2 DEF PullBack, EnterPullBack, TestClone, Claim, EndLoop, SkipExiting,
       CloneThread, StartThread, DonePid, DoneTgid, WakeCaller, Unclaim, Globals
  <2>3. CASE Kernel(t) \/ Program(t)
    BY <2>3 DEF Kernel, DequeueStop, GroupStop, Release, Program, Call, Exit, Fork, Spawn,
       Globals
  <2> QED
    BY <2>1, <2>2, <2>3
<1>2. \A u \in Pid \ {t} : InModule(u)' => InModule(u)
  BY DEF Footprint, Untouched, Made, Started, Woken, InModule, HandlerPC, BuildPC, DonePC
<1>3. InModule(t)' => InModule(t) \/ ff.loaded
  <2>1. CASE Handler(t)
    BY <2>1 DEF Handler, TrackTgid, ScanThreads, KillStop, FullforkWait, WaitInterrupted,
       WaitFailed, Unhook, InitWaitQueue, LeaderClone, WaitForClone, Continue,
       UntrackPid, UntrackTgid, Step, At, InModule, HandlerPC
  <2>2. CASE PullBack(t) /\ ~EnterPullBack(t)
    BY <2>2 DEF PullBack, TestClone, Claim, EndLoop, SkipExiting, CloneThread, StartThread,
       DonePid, DoneTgid, WakeCaller, Unclaim, Step, At, InModule, BuildPC, DonePC
  <2>3. CASE EnterPullBack(t)
    BY <2>3 DEF EnterPullBack, Step, Goto, InModule, HandlerPC, BuildPC, DonePC
  <2>4. CASE Call(t)
    BY <2>4 DEF Call
  <2>5. CASE DequeueStop(t) \/ GroupStop(t) \/ Exit(t)
    BY <2>5, NotifyWakes DEF DequeueStop, GroupStop, Exit, UserMode, At, Woken, InModule
  <2>6. CASE Release(t)
    BY <2>6 DEF Release, InModule
  <2>7. CASE Fork(t) \/ Spawn(t)
    <3>1. PICK c \in Pid : FreshPid(c) /\ Goto(c, "tail")
      BY <2>7 DEF Fork, Spawn
    <3>2. pc'[t] = pc[t]
      BY <2>7, <3>1 DEF Fork, Spawn, UserMode, At, Goto, FreshPid
    <3> QED
      BY <3>2 DEF InModule
  <2> QED
    BY <2>1, <2>2, <2>3, <2>4, <2>5, <2>6, <2>7 DEF Kernel, Program
<1> QED
  BY <1>1, <1>2, <1>3 DEF InUse

(* The steps that take the stamps: a call begins, goes on and ends.        *)
LEMMA CallTimed ==
  ASSUME Spaced, TimedInv, NEW t \in Pid, Call(t), Stamp(t)
  PROVE  ClockType' /\ Counted' /\ Timed' /\ LinesInOrder'
<1> USE DEF TimedInv, SerialInv, ExclusiveInv
<1>1. /\ pc[t] = "user" /\ pc'[t] = "track_tgid" /\ calls' = calls + 1
      /\ \A u \in Pid \ {t} : pc'[u] = "user"
  BY DEF Call, UserMode, At, Goto, TypeInv, TypeOK
<1>2. \A u \in Pid \ {t} : ~InHandler(u)'
  BY <1>1 DEF InHandler, HandlerPC
<1>3. Stage(t)' = 1 /\ Taken(t) = 0
  BY <1>1 DEF Stage, Stage1, Stage2, Stage3, Stage4, Stage5, Taken, StampOf
<1>4. /\ now' = now + 1 /\ times'[0] = now' /\ UNCHANGED lines
      /\ ClockType' /\ now \in Nat /\ Len(lines) \in Nat
  BY <1>3, StampEffect, StampType DEF Stamps, ClockType
<1>5. Counted'
  <2>1. calls \in Nat
    BY WorkloadAssumption DEF TypeInv, TypeOK
  <2> QED
    BY <1>1, <1>2, <1>3, <1>4, <2>1 DEF Counted
<1>6. Timed'
  <2>1. InOrder(1)'
    BY <1>4 DEF InOrder
  <2> QED
    BY <1>2, <1>3, <2>1 DEF Timed
<1>7. LinesInOrder'
  BY <1>4 DEF LinesInOrder
<1> QED
  BY <1>4, <1>5, <1>6, <1>7

LEMMA HandlerTimed ==
  ASSUME TimedInv, NEW t \in Pid, Handler(t), Stamp(t)
  PROVE  ClockType' /\ Counted' /\ Timed' /\ LinesInOrder'
<1> USE DEF TimedInv, SerialInv, ExclusiveInv
<1>1. Lingers(t) \/ Proceeds(t) \/ Skips(t) \/ Fails(t) \/ Finishes(t)
  BY HandlerMoves
<1>2. /\ UNCHANGED calls /\ calls \in Nat
      /\ InHandler(t)
  <2>1. UNCHANGED calls
    BY DEF Handler, TrackTgid, ScanThreads, KillStop, FullforkWait, WaitInterrupted,
       WaitFailed, Unhook, InitWaitQueue, LeaderClone, WaitForClone, Continue,
       UntrackPid, UntrackTgid
  <2>2. calls \in Nat
    BY WorkloadAssumption DEF TypeInv, TypeOK
  <2>3. Stage(t) # 0
    BY <1>1 DEF Lingers, Proceeds, Skips, Fails, Finishes
  <2> QED
    BY <2>1, <2>2, <2>3, StageNames
<1>3. \A u \in Pid \ {t} : ~InHandler(u)'
  BY <1>2, TaskFootprint, OthersStage DEF KinInv, Serial
<1>4. InHandler(t)' <=> Stage(t)' # 0
  BY DEF Stage, Stage1, Stage2, Stage3, Stage4, Stage5, InHandler, HandlerPC
<1>5. /\ Taken(t) \in Stamps \cup {None} /\ Stage(t) \in 1 .. 5
      /\ now \in Nat /\ Len(lines) \in Nat /\ times \in [Stamps -> 0 .. now]
  BY <1>1, <1>2, StageNames DEF Lingers, Proceeds, Skips, Fails, Finishes, Stamps, ClockType
<1>6. /\ now + 6 =< 6 * calls + Stage(t) /\ Len(lines) + 1 =< calls
      /\ Regular(t) => InOrder(Stage(t))
  BY <1>2 DEF Counted, Timed
<1>7. ClockType'
  BY <1>5, StampType
<1>8. CASE Lingers(t) \/ Fails(t)
  <2>1. UNCHANGED clock
    BY <1>8, StampEffect DEF Lingers, Fails
  <2>2. Counted' /\ LinesInOrder'
    BY <1>2, <1>3, <1>4, <1>6, <1>8, <2>1 DEF Counted, LinesInOrder, Lingers, Fails, clock
  <2>3. Stage(t)' # 0 /\ Regular(t)' => Regular(t) /\ Stage(t)' = Stage(t)
    BY <1>8 DEF Lingers, Fails, Regular
  <2>4. \A k : InOrder(k) => InOrder(k)'
    BY <2>1 DEF InOrder, clock
  <2> QED
    BY <1>3, <1>4, <1>6, <1>7, <2>2, <2>3, <2>4 DEF Timed
<1>9. CASE Proceeds(t)
  <2> DEFINE k == Stage(t)
  <2>1. /\ k \in 1 .. 4 /\ Stage(t)' = k + 1 /\ now' = now + 1 /\ times'[k] = now'
        /\ \A j \in Stamps \ {k} : times'[j] = times[j]
        /\ UNCHANGED lines
    BY <1>9, StampEffect DEF Proceeds, Stamps
  <2>2. Counted' /\ LinesInOrder'
    BY <1>2, <1>3, <1>5, <1>6, <2>1 DEF Counted, LinesInOrder
  <2>3. Regular(t)' => Regular(t)
    BY <1>9, <2>1 DEF Proceeds, Regular
  <2>4. ASSUME InOrder(Stage(t)) PROVE InOrder(Stage(t))'
    <3>1. times'[Stage(t)' - 1] = now'
      BY <2>1
    <3>2. ASSUME NEW i \in 1 .. k PROVE times'[i - 1] < times'[i]
      <4>1. CASE i < k
        BY <1>5, <2>1, <2>4, <4>1 DEF InOrder, Stamps
      <4>2. CASE i = k
        <5>1. times'[k - 1] = times[k - 1] /\ times[k - 1] = now
          BY <2>1, <2>4 DEF InOrder, Stamps
        <5> QED
          BY <1>5, <2>1, <4>2, <5>1
      <4> QED
        BY <2>1, <4>1, <4>2
    <3> QED
      BY <2>1, <3>1, <3>2 DEF InOrder
  <2> QED
    BY <1>3, <1>6, <1>7, <2>1, <2>2, <2>3, <2>4 DEF Timed
<1>10. CASE Skips(t)
  <2>1. ~Regular(t)' /\ UNCHANGED lines
    BY <1>10, StampEffect DEF Skips, Regular, Stamps, None
  <2>2. now' \in {now, now + 1} /\ Stage(t)' = Stage(t) + 2
    BY <1>10, StampEffect DEF Skips, Stamps, None, clock
  <2>3. Counted' /\ LinesInOrder'
    BY <1>2, <1>3, <1>5, <1>6, <2>1, <2>2 DEF Counted, LinesInOrder
  <2> QED
    BY <1>3, <1>7, <2>1, <2>3 DEF Timed
<1>11. CASE Finishes(t)
  <2>1. /\ Stage(t) = 5 /\ Stage(t)' = 0 /\ now' = now + 1 /\ times'[5] = now'
        /\ \A j \in Stamps \ {5} : times'[j] = times[j]
        /\ lines' = Append(lines, Line(t)) /\ Len(lines') = Len(lines) + 1
    BY <1>11, StampEffect, StampType DEF Finishes, Stamps
  <2>2. Counted' /\ Timed'
    BY <1>2, <1>3, <1>4, <1>5, <1>6, <2>1 DEF Counted, Timed
  <2>3. ASSUME Line(t).stopped, Line(t).forked, NEW i \in 1 .. 5
        PROVE  times'[i - 1] < times'[i]
    <3>1. InOrder(5)
      BY <1>6, <2>1, <2>3 DEF Regular, Line
    <3> QED
      BY <1>5, <2>1, <3>1 DEF InOrder, Stamps
  <2>4. /\ \A n \in DOMAIN lines' : IF n = Len(lines) + 1 THEN lines'[n] = Line(t)
                                    ELSE n \in DOMAIN lines /\ lines'[n] = lines[n]
        /\ Line(t).times = times'
    <3> DEFINE Entry == [stopped : BOOLEAN, forked : BOOLEAN, times : [Stamps -> Nat]]
    <3>1. lines \in Seq(Entry)
      BY DEF ClockType
    <3> HIDE DEF Entry
    <3> QED
      BY <2>1, <3>1 DEF Line
  <2>5. LinesInOrder'
    BY <2>3, <2>4 DEF LinesInOrder
  <2> QED
    BY <1>7, <2>2, <2>5
<1> QED
  BY <1>1, <1>8, <1>9, <1>10, <1>11

LEMMA InitTimed == TimedInit => TimedInv
<1> SUFFICES ASSUME TimedInit PROVE TimedInv
  OBVIOUS
<1>1. Init /\ now = 0 /\ times = [i \in Stamps |-> 0] /\ lines = <<>> /\ calls = 0
  BY DEF TimedInit, Init
<1>2. \A t \in Pid : ~InHandler(t) /\ pc[t] = "user"
  BY <1>1 DEF Init, InHandler, HandlerPC
<1>3. SerialInv
  BY <1>1, <1>2, InitExclusiveInv DEF SerialInv, KinInv, Serial, Orphaned, ParentsTaken,
     Init, TaskInit
<1>4. Entered /\ Timed
  BY <1>2 DEF Entered, EarlyPC, Timed
<1>5. ClockType /\ Counted /\ LinesInOrder
  BY <1>1, <1>2 DEF ClockType, Counted, LinesInOrder
<1>6. InUse
  BY <1>2 DEF InUse, InModule, BuildPC, DonePC, InHandler
<1> QED
  BY <1>3, <1>4, <1>5, <1>6 DEF TimedInv

LEMMA NextTimed ==
  ASSUME Spaced, TimedInv, [TimedNext]_timedVars
  PROVE  TimedInv'
<1> USE DEF TimedInv, SerialInv, ExclusiveInv
<1>1. SerialInv'
  BY NextSerial, TimedStep DEF timedVars, vars
<1>2. CASE UNCHANGED timedVars
  <2>1. Entered' /\ InUse'
    BY <1>2 DEF timedVars, vars, Entered, temp, child, InUse, InModule
  <2> QED
    BY <1>1, <1>2, <2>1, QuietTimed DEF timedVars, vars, clock, InHandler, Stage, temp, child
<1>3. CASE TimedCleanupModule \/ (Rest /\ UNCHANGED clock)
  <2>1. UNCHANGED <<clock, pc, loc, calls>>
    BY <1>3 DEF TimedCleanupModule, CleanupModule, Rest, vars
  <2>2. Entered'
    BY <2>1 DEF Entered, temp, child
  <2>3. InUse'
    BY <1>3 DEF TimedCleanupModule, CleanupModule, Rest, vars, InUse, InModule
  <2> QED
    BY <1>1, <2>1, <2>2, <2>3, QuietTimed DEF InHandler, Stage, temp, child
<1>4. CASE TimedInitModule
  <2>1. /\ UNCHANGED <<now, lines, pc, loc, calls>> /\ times' = [i \in Stamps |-> 0]
    BY <1>4 DEF TimedInitModule, InitModule
  <2>2. \A t \in Pid : ~InHandler(t)
    BY <1>4 DEF TimedInitModule, InitModule, InUse, InModule, InHandler
  <2>3. InUse'
    BY <1>4 DEF TimedInitModule, InitModule, FreshModule, InUse, InModule
  <2>4. Entered' /\ Counted' /\ LinesInOrder'
    BY <2>1 DEF Entered, Counted, LinesInOrder, temp, child, InHandler, Stage
  <2>5. ClockType' /\ Timed'
    BY <2>1, <2>2 DEF ClockType, Timed, InHandler
  <2> QED
    BY <1>1, <2>3, <2>4, <2>5
<1>5. ASSUME NEW t \in Pid, TimedHandler(t) \/ TimedPullBack(t) \/ Elsewhere(t)
      PROVE  TimedInv'
  <2>1. Handler(t) \/ PullBack(t) \/ Kernel(t) \/ Program(t)
    BY <1>5 DEF TimedHandler, TimedPullBack, Elsewhere, Program
  <2>2. Footprint(t) /\ Frame(t)
    BY <2>1, TaskFootprint
  <2>3. Entered' /\ InUse'
    BY <2>1, <2>2, TaskEntered, TaskInUse
  <2>4. CASE TimedHandler(t)
    BY <1>1, <2>3, <2>4, CallTimed, HandlerTimed DEF TimedHandler
  <2>5. CASE TimedPullBack(t) \/ Elsewhere(t)
    <3>1. UNCHANGED <<clock, calls>> /\ ~InHandler(t)
      <4>1. CASE TimedPullBack(t)
        BY <4>1 DEF TimedPullBack, PullBack, EnterPullBack, TestClone, Claim, EndLoop,
           SkipExiting, CloneThread, StartThread, DonePid, DoneTgid, WakeCaller, Unclaim,
           Step, At, InHandler, HandlerPC
      <4>2. CASE Elsewhere(t)
        BY <4>2 DEF Elsewhere, Kernel, DequeueStop, GroupStop, Release, Exit, Fork, Spawn,
           At, UserMode, InHandler, HandlerPC, TableInv, Present
      <4> QED
        BY <2>5, <4>1, <4>2
    <3>2. ~InHandler(t)'
      <4>1. pc[t] \notin HandlerPC /\ (Call(t) => pc[t] = "user" /\ calls' = calls + 1)
        BY <3>1 DEF InHandler, Call, UserMode, At
      <4>2. calls \in Nat
        BY WorkloadAssumption DEF TypeInv, TypeOK
      <4> QED
        BY <2>2, <3>1, <4>1, <4>2 DEF Footprint
    <3>3. \A u \in Pid : InHandler(u)' => /\ InHandler(u) /\ Stage(u)' = Stage(u)
                                          /\ temp(u)' = temp(u) /\ child(u)' = child(u)
      BY <2>2, <3>2, OthersStage
    <3> QED
      BY <1>1, <2>3, <3>1, <3>3, QuietTimed
  <2> QED
    BY <1>5, <2>4, <2>5
<1> QED
  BY <1>2, <1>3, <1>4, <1>5 DEF TimedNext

(* The clock ticks six times for a call at most, and no stamp is ahead of  *)
(* the clock, whatever earlier calls have left in times[].                 *)
THEOREM ClockIsBounded ==
  ASSUME Spaced
  PROVE  TimedSpec => []TimedTypeOK
<1>1. TimedInv => TimedTypeOK
  <2> SUFFICES ASSUME TimedInv PROVE TimedTypeOK
    OBVIOUS
  <2>1. calls \in 0 .. MaxCalls /\ MaxCalls \in Nat
    BY WorkloadAssumption DEF TimedInv, SerialInv, ExclusiveInv, TypeInv, TypeOK
  <2> QED
    BY <2>1 DEF TimedInv, ClockType, Counted, TimedTypeOK
<1>2. TimedInv /\ [TimedNext]_timedVars => TimedInv'
  BY NextTimed
<1> QED
  BY <1>1, <1>2, InitTimed, PTL DEF TimedSpec

(* times[] is global, is not cleared between calls, and is written only    *)
(* where a call passes: the line of one that stopped its siblings and      *)
(* forked has six stamps of its own, each later than the one before.       *)
THEOREM LinesAreInOrder ==
  ASSUME Spaced
  PROVE  TimedSpec => []LinesInOrder
<1>1. TimedInv => LinesInOrder
  BY DEF TimedInv
<1>2. TimedInv /\ [TimedNext]_timedVars => TimedInv'
  BY NextTimed
<1> QED
  BY <1>1, <1>2, InitTimed, PTL DEF TimedSpec

-----------------------------------------------------------------------------
(* That every call reports.  A call of a group leader gives up before the  *)
(* end only if a thread has ended: nobody takes the tracked ids from it,   *)
(* and the hooks exempt it from the stop that it waits for.                *)

(* While a process calls, its other threads do not fork, and the clones    *)
(* create nothing of their own accord.                                     *)
OwnForks ==
  /\ \A t \in Forkers \cup Spawners : Boot[t] # Outside
  /\ \A t \in Forkers : Boot[t] \in Callers => Boot[t] = t

Disturbed == \E t \in Pid : Exiting(t)

(* Until t forks, nobody builds and nobody will.                           *)
Undisputed(t) ==
  /\ ff.tracked_pid = t
  /\ \A c \in Pid : /\ ~Working(c) /\ pc[c] # "tail_flag"
                    /\ pc[c] = "tail" => PPid(c) # t

StopGoesWell(t) ==
  /\ pc[t] \in {"kill", "wait", "wait_sleep"} => ff.hooks /\ temp(t) \in Pid
  /\ pc[t] \in {"scan", "kill", "wait", "wait_sleep"} => ff.tracked_tgid = tgid[t]
  /\ pc[t] \in {"wait", "wait_sleep"} => jobctl[t] \in {"none", "owed"}
  /\ pc[t] = "resume" => Disturbed

OnCourse(t) == Undisputed(t) /\ StopGoesWell(t)
Early       == \A t \in Pid : pc[t] \in EarlyPC => OnCourse(t)

Reported ==
  ~Disturbed => /\ calls =< Len(lines) + 1
                /\ (\A t \in Pid : ~InHandler(t)) => calls = Len(lines)

ReportInv == TimedInv /\ Early /\ Reported

(* Nobody who has ended comes back.                                        *)
LEMMA DisturbedStays ==
  ASSUME TypeInv, NEW t \in Pid, Footprint(t), Disturbed
  PROVE  Disturbed'
BY DEF Disturbed, Exiting, Footprint, Untouched, Made, Started, Moved, Ended

(* A task that leaves the handler alone leaves the calls in progress alone.*)
LEMMA OthersStop ==
  ASSUME ReportInv, NEW t \in Pid, PullBack(t) \/ Kernel(t) \/ Program(t), ~InHandler(t),
         NEW u \in Pid \ {t}, pc[u] \in EarlyPC, OnCourse(u), tgid[u] = u
  PROVE  pc[u] \in {"wait", "wait_sleep"} => jobctl'[u] \in {"none", "owed"}
<1> USE DEF ReportInv, TimedInv, SerialInv, ExclusiveInv, TypeInv, TypeOK, TaskTypeOK
<1> SUFFICES ASSUME pc[u] \in {"wait", "wait_sleep"}
             PROVE  jobctl'[u] \in {"none", "owed"}
  OBVIOUS
<1>1. /\ jobctl[u] \in {"none", "owed"} /\ ff.hooks /\ ff.tracked_tgid = tgid[u]
  BY DEF OnCourse, StopGoesWell
<1>2. CASE DequeueStop(t)
  <2>1. u \in Exempt
    BY <1>1 DEF Exempt, group_leader
  <2>2. jobctl'[u] \in {jobctl[u], "owed"}
    BY <1>2, <2>1 DEF DequeueStop, DoSignalStop
  <2> QED
    BY <1>1, <2>2
<1>3. CASE GroupStop(t) \/ Exit(t)
  BY <1>1, <1>3 DEF GroupStop, StopHere, Exit, TaskExit
<1>4. CASE PullBack(t)
  BY <1>1, <1>4, PullBackFrame DEF stopVars
<1>5. CASE Release(t) \/ Fork(t) \/ Spawn(t) \/ Call(t)
  BY <1>1, <1>5 DEF Release, Fork, Spawn, Call, kernel, stopVars
<1> QED
  BY <1>2, <1>3, <1>4, <1>5 DEF Kernel, Program

(* It does not build for u, and makes nobody who would.                    *)
LEMMA OthersBuild ==
  ASSUME OwnForks, ReportInv, NEW t \in Pid, ~InHandler(t), ~Call(t),
         PullBack(t) \/ Kernel(t) \/ Program(t), Footprint(t), Frame(t), Kin(t),
         NEW u \in Pid \ {t}, u \in Callers, Undisputed(u)
  PROVE  Undisputed(u)' /\ UNCHANGED ff
<1> USE DEF ReportInv, TimedInv, SerialInv, ExclusiveInv, TypeInv, TypeOK
<1>1. ~Working(t) /\ pc[t] # "tail_flag" /\ (pc[t] = "tail" => PPid(t) # ff.tracked_pid)
  BY DEF Undisputed
<1>2. UNCHANGED ff /\ pc'[t] \in {pc[t], "user"}
  <2>1. CASE PullBack(t)
    <3>1. EnterPullBack(t)
      BY <1>1, <2>1 DEF PullBack, TestClone, Claim, EndLoop, SkipExiting, CloneThread,
         StartThread, DonePid, DoneTgid, WakeCaller, Unclaim, Step, At, Working, Building,
         BuildPC, DonePC
    <3> QED
      BY <1>1, <3>1 DEF EnterPullBack, Step, At, Goto
  <2>2. CASE DequeueStop(t) \/ GroupStop(t) \/ Exit(t)
    BY <2>2, NotifyWakes DEF DequeueStop, GroupStop, Exit, UserMode, At, Woken
  <2>3. CASE Release(t)
    BY <2>3 DEF Release, TableInv, Present
  <2>4. CASE Fork(t) \/ Spawn(t)
    <3>1. PICK c \in Pid : FreshPid(c) /\ Goto(c, "tail")
      BY <2>4 DEF Fork, Spawn
    <3> QED
      BY <2>4, <3>1 DEF Fork, Spawn, UserMode, At, Goto, FreshPid
  <2> QED
    BY <2>1, <2>2, <2>3, <2>4 DEF Kernel, Program
<1>3. ASSUME NEW c \in Pid
      PROVE  ~Working(c)' /\ pc'[c] # "tail_flag"
  <2>1. CASE c = t
    BY <1>1, <1>2, <2>1 DEF Working, Building, BuildPC, DonePC
  <2>2. CASE c # t
    BY <2>2 DEF Footprint, Untouched, Made, Started, Woken, Undisputed, Working, Building,
       BuildPC, DonePC
  <2> QED
    BY <2>1, <2>2
<1>4. ASSUME NEW c \in Pid, pc'[c] = "tail" PROVE PPid(c)' # u
  <2>1. CASE life[c] # "free"
    <3>1. pc[c] = "tail"
      BY <1>2, <1>4, <2>1 DEF Footprint, Untouched, Made, Started, Woken
    <3> QED
      BY <2>1, <3>1, PPidKept DEF Undisputed
  <2>2. CASE life[c] = "free"
    <3>1. pc[c] # "tail"
      BY <2>2 DEF TableInv, Present
    <3>2. c # t /\ Made(c)
      BY <1>2, <1>4, <2>2, <3>1 DEF Footprint, Untouched, Started, Woken
    <3>3. Fork(t) \/ Spawn(t)
      BY <1>1, <2>2, <3>2 DEF PullBack, EnterPullBack, TestClone, Claim, EndLoop,
         SkipExiting, CloneThread, StartThread, DonePid, DoneTgid, WakeCaller, Unclaim,
         Step, At, Working, Building, BuildPC, DonePC, Kernel, DequeueStop, GroupStop,
         Release, ReleaseTask, Program, Exit, TaskExit, Made, kernel, taskVars, TaskTypeOK
    <3>4. CASE Fork(t)
      <4>1. PICK d \in Pid : FreshPid(d) /\ CopyProcess(d, t, d, t, "alive")
        BY <3>4 DEF Fork
      <4>2. c = d
        BY <3>2, <4>1 DEF CopyProcess, Made
      <4>3. t # c /\ PPid(c)' = tgid[t]
        BY <3>2, <4>1, <4>2 DEF PPid, CopyProcess, FreshPid, TaskTypeOK, Pid, Outside
      <4>4. tgid[t] = Boot[t] /\ (Boot[t] \in Callers => Boot[t] = t)
        BY <3>4 DEF OwnForks, Settled, Fork
      <4> QED
        BY <4>3, <4>4
    <3>5. CASE Spawn(t)
      <4>1. PICK d \in Pid : FreshPid(d) /\ NewThread(d, t)
        BY <3>5 DEF Spawn
      <4>2. c = d
        BY <3>2, <4>1 DEF NewThread, Made
      <4>3. real_parent[t] = Outside
        BY <3>5 DEF OwnForks, KinInv, Orphaned, Spawn
      <4>4. PPid(c)' = Outside
        BY <4>1, <4>2, <4>3 DEF PPid, NewThread, TaskTypeOK
      <4> QED
        BY <4>4 DEF Pid, Outside
    <3> QED
      BY <3>3, <3>4, <3>5
  <2> QED
    BY <2>1, <2>2
<1> QED
  BY <1>2, <1>3, <1>4 DEF Undisputed

LEMMA OthersOnCourse ==
  ASSUME Spaced, OwnForks, LeadersCall, ReportInv, NEW t \in Pid,
         Handler(t) \/ PullBack(t) \/ Kernel(t) \/ Program(t),
         Footprint(t), Frame(t), Kin(t), NEW u \in Pid \ {t}, pc'[u] \in EarlyPC
  PROVE  OnCourse(u)'
<1> USE DEF ReportInv, TimedInv, SerialInv, ExclusiveInv
<1>1. InHandler(u)'
  BY DEF EarlyPC, InHandler, HandlerPC
<1>2. /\ InHandler(u) /\ pc[u] \in EarlyPC /\ temp(u)' = temp(u)
      /\ pc'[u] \in {"track_tgid", "scan"} => pc[u] = pc'[u]
  BY <1>1, OthersStage
<1>3. OnCourse(u) /\ u \in Callers /\ tgid[u] = u /\ life[u] = "alive"
  BY <1>2 DEF Early, CallersOnly, LeadersCall, Settled, TableInv, Present, InHandler,
     HandlerPC, Pid, Outside
<1>4. ~InHandler(t) /\ ~Call(t)
  BY <1>2 DEF KinInv, Serial, Call, InHandler, HandlerPC
<1>5. PullBack(t) \/ Kernel(t) \/ Program(t)
  <2>1. Handler(t) => InHandler(t)
    BY DEF Handler, TrackTgid, ScanThreads, KillStop, FullforkWait, WaitInterrupted,
       WaitFailed, Unhook, InitWaitQueue, LeaderClone, WaitForClone, Continue,
       UntrackPid, UntrackTgid, Step, At, InHandler, HandlerPC
  <2> QED
    BY <1>4, <2>1
<1>6. Undisputed(u)' /\ UNCHANGED ff
  BY <1>3, <1>4, <1>5, OthersBuild DEF OnCourse
<1>7. StopGoesWell(u)'
  <2>1. pc'[u] = pc[u] \/ (pc[u] = "wait_sleep" /\ pc'[u] = "wait")
    BY <1>2, <1>3 DEF Frame, Woken, EarlyPC
  <2>2. pc[u] \in {"wait", "wait_sleep"} => jobctl'[u] \in {"none", "owed"}
    BY <1>2, <1>3, <1>4, <1>5, OthersStop
  <2>3. tgid'[u] = tgid[u] /\ (Disturbed => Disturbed')
    BY <1>3, DisturbedStays DEF Frame
  <2> QED
    BY <1>2, <1>3, <1>6, <2>1, <2>2, <2>3 DEF OnCourse, StopGoesWell
<1> QED
  BY <1>6, <1>7 DEF OnCourse

(* The caller's own steps up to the fork.                                  *)
LEMMA CallOnCourse ==
  ASSUME Spaced, ReportInv, NEW t \in Pid, Call(t)
  PROVE  OnCourse(t)'
<1> USE DEF ReportInv, TimedInv, SerialInv, ExclusiveInv, TypeInv, TypeOK
<1>1. /\ ff'.tracked_pid = t
      /\ \A c \in Pid : pc'[c] = IF c = t THEN "track_tgid" ELSE "user"
  BY DEF Call, UserMode, At, Goto, Globals
<1> QED
  BY <1>1 DEF OnCourse, Undisputed, StopGoesWell, Working, Building, BuildPC, DonePC

LEMMA HandlerOnCourse ==
  ASSUME LeadersCall, ReportInv, NEW t \in Pid, Handler(t), Footprint(t),
         pc'[t] \in EarlyPC
  PROVE  OnCourse(t)'
<1> USE DEF ReportInv, TimedInv, SerialInv, ExclusiveInv, TypeInv, TypeOK
<1>0. ASSUME NEW l, NEW m, Step(t, l, m)
      PROVE  pc[t] = l /\ pc'[t] = m /\ \A u \in Pid \ {t} : pc'[u] = pc[u]
  BY <1>0 DEF Step, At, Goto
<1>1. /\ TrackTgid(t) \/ ScanThreads(t) \/ KillStop(t) \/ FullforkWait(t)
           \/ WaitInterrupted(t) \/ Unhook(t) \/ InitWaitQueue(t)
      /\ pc[t] \in EarlyPC
      /\ \A u \in Pid \ {t} : pc'[u] = pc[u]
  <2>1. ~WaitFailed(t) /\ ~WaitForClone(t) /\ ~Continue(t) /\ ~UntrackPid(t) /\ ~UntrackTgid(t)
    BY <1>0 DEF WaitFailed, WaitForClone, Continue, UntrackPid, UntrackTgid, EarlyPC
  <2>2. ~LeaderClone(t)
    BY <1>0 DEF LeaderClone, At, FreshPid, EarlyPC
  <2>3. CASE FullforkWait(t)
    BY <2>3 DEF FullforkWait, At, Goto, EarlyPC
  <2>4. CASE ~FullforkWait(t)
    BY <1>0, <2>1, <2>2, <2>4 DEF Handler, TrackTgid, ScanThreads, KillStop,
       WaitInterrupted, Unhook, InitWaitQueue, EarlyPC
  <2> QED
    BY <2>1, <2>2, <2>3, <2>4 DEF Handler
<1>2. OnCourse(t) /\ tgid[t] = t
  BY <1>1 DEF Early, CallersOnly, LeadersCall, Settled, InHandler, HandlerPC, EarlyPC,
     Pid, Outside
<1>3. Undisputed(t)'
  <2>1. ff'.tracked_pid = ff.tracked_pid
    BY <1>1 DEF TrackTgid, ScanThreads, KillStop, FullforkWait, WaitInterrupted, Unhook,
       InitWaitQueue, Globals
  <2>2. UNCHANGED <<tgid, real_parent>>
    BY <1>1 DEF TrackTgid, ScanThreads, KillStop, FullforkWait, WaitInterrupted, Unhook,
       InitWaitQueue, kernel, taskVars
  <2>3. \A c \in Pid : PPid(c)' = PPid(c)
    BY <2>2 DEF PPid
  <2> QED
    BY <1>1, <1>2, <2>1, <2>3 DEF OnCourse, Undisputed, Working, Building, BuildPC, DonePC,
       EarlyPC
<1>4. StopGoesWell(t)'
  <2>1. CASE TrackTgid(t)
    <3>1. pc'[t] = "scan" /\ ff'.tracked_tgid = tgid[t] /\ UNCHANGED tgid
      BY <1>0, <2>1 DEF TrackTgid, Globals, kernel, taskVars
    <3> QED
      BY <3>1 DEF StopGoesWell
  <2>2. CASE ScanThreads(t)
    <3>1. pc[t] = "scan" /\ pc'[t] \in {"kill", "init_wq"} /\ UNCHANGED tgid
      BY <1>0, <2>2 DEF ScanThreads, kernel, taskVars
    <3>2. pc'[t] = "kill" => /\ temp(t)' \in Pid /\ ff'.hooks
                             /\ ff'.tracked_tgid = ff.tracked_tgid
      BY <1>0, <2>2 DEF ScanThreads, Globals, Locals, temp
    <3> QED
      BY <1>2, <3>1, <3>2 DEF OnCourse, StopGoesWell
  <2>3. CASE KillStop(t)
    <3>1. /\ pc[t] = "kill" /\ pc'[t] = "wait" /\ UNCHANGED <<ff, loc, tgid, jobctl>>
      BY <1>0, <2>3 DEF KillStop, SendStop, taskVars, EarlyPC
    <3>2. jobctl[t] = "none"
      <4>1. SUFFICES ASSUME jobctl[t] # "none" PROVE FALSE
        OBVIOUS
      <4>2. PICK u \in Pid : Stopper(u) /\ tgid[u] = tgid[t]
        BY <4>1 DEF StopInv, Owner
      <4>3. u = t
        BY <3>1, <4>2 DEF Stopper, StopperPC, KinInv, Serial, InHandler, HandlerPC
      <4> QED
        BY <3>1, <4>2, <4>3 DEF Stopper, StopperPC
    <3> QED
      BY <1>2, <3>1, <3>2 DEF OnCourse, StopGoesWell, temp
  <2>4. CASE FullforkWait(t)
    <3>1. /\ pc[t] = "wait" /\ UNCHANGED <<kernel, ff, loc>>
          /\ pc'[t] \in {"unhook", "resume", "wait_sleep"}
      BY <2>4 DEF FullforkWait, At, Goto
    <3>2. /\ ff.hooks /\ ff.tracked_tgid = tgid[t] /\ temp(t) \in Pid
          /\ jobctl[t] \in {"none", "owed"}
      BY <1>2, <3>1 DEF OnCourse, StopGoesWell
    <3>3. pc'[t] = "resume" => Disturbed
      <4>1. pc'[t] = "resume" => life[temp(t)] = "dead" \/ Interrupted(t)
        BY <2>4, <3>2 DEF FullforkWait, At, Goto, is_eligible_pid
      <4>2. life[temp(t)] = "dead" \/ Interrupted(t) => Exiting(temp(t))
        BY <3>2 DEF Interrupted, Exiting
      <4> QED
        BY <3>2, <4>1, <4>2 DEF Disturbed
    <3>4. pc'[t] = "resume" => Disturbed'
      BY <3>3, DisturbedStays
    <3> QED
      BY <3>1, <3>2, <3>4 DEF StopGoesWell, temp, kernel, taskVars, stopVars
  <2>5. CASE WaitInterrupted(t)
    <3>1. /\ pc[t] = "wait_sleep" /\ pc'[t] = "wait" /\ UNCHANGED <<kernel, ff, loc>>
      BY <1>0, <2>5 DEF WaitInterrupted
    <3> QED
      BY <1>2, <3>1 DEF OnCourse, StopGoesWell, temp, kernel, taskVars, stopVars
  <2>6. CASE Unhook(t) \/ InitWaitQueue(t)
    <3>1. pc'[t] \in {"init_wq", "fork"}
      BY <1>0, <2>6 DEF Unhook, InitWaitQueue
    <3> QED
      BY <3>1 DEF StopGoesWell
  <2> QED
    BY <1>1, <2>1, <2>2, <2>3, <2>4, <2>5, <2>6
<1> QED
  BY <1>3, <1>4 DEF OnCourse

LEMMA HandlerReports ==
  ASSUME ReportInv, NEW t \in Pid, Handler(t), Stamp(t), Footprint(t), Frame(t),
         TimedInv'
  PROVE  Reported'
<1> USE DEF ReportInv, TimedInv, SerialInv, ExclusiveInv, TypeInv, TypeOK
<1> SUFFICES ASSUME ~Disturbed'
             PROVE  /\ calls' =< Len(lines') + 1
                    /\ (\A u \in Pid : ~InHandler(u)') => calls' = Len(lines')
  BY DEF Reported
<1>1. ~Disturbed
  BY DisturbedStays
<1>2. /\ UNCHANGED calls /\ calls \in Nat /\ Len(lines) \in Nat
      /\ calls =< Len(lines) + 1
  <2>1. UNCHANGED calls
    BY DEF Handler, TrackTgid, ScanThreads, KillStop, FullforkWait, WaitInterrupted,
       WaitFailed, Unhook, InitWaitQueue, LeaderClone, WaitForClone, Continue,
       UntrackPid, UntrackTgid
  <2> QED
    BY <1>1, <2>1, WorkloadAssumption DEF Reported, ClockType
<1>3. Stage(t)' # 0 => InHandler(t)'
  BY DEF Stage, Stage1, Stage2, Stage3, Stage4, Stage5, InHandler, HandlerPC
<1>4. Taken(t) \in Stamps \cup {None}
  BY HandlerMoves, StageNames DEF Lingers, Proceeds, Skips, Fails, Finishes, Stamps
<1>5. CASE Finishes(t)
  <2>1. Len(lines') = Len(lines) + 1
    BY <1>4, <1>5, StampType DEF Finishes
  <2>2. Len(lines') =< calls'
    BY DEF Counted
  <2> QED
    BY <1>2, <2>1, <2>2
<1>6. CASE Fails(t)
  <2>1. pc'[t] \notin HandlerPC
    BY <1>6 DEF Fails, Stage, Stage1, Stage2, Stage3, Stage4, Stage5, HandlerPC
  <2>2. KillStop(t) \/ WaitFailed(t)
    <3>1. CASE TrackTgid(t) \/ ScanThreads(t) \/ WaitInterrupted(t) \/ Unhook(t)
               \/ InitWaitQueue(t) \/ WaitForClone(t) \/ Continue(t) \/ UntrackPid(t)
      BY <2>1, <3>1 DEF TrackTgid, ScanThreads, WaitInterrupted, Unhook, InitWaitQueue,
         WaitForClone, Continue, UntrackPid, Step, At, Goto, HandlerPC
    <3>2. CASE FullforkWait(t)
      BY <2>1, <3>2 DEF FullforkWait, At, Goto, HandlerPC
    <3>3. CASE LeaderClone(t)
      BY <2>1, <3>3 DEF LeaderClone, Step, At, Goto, FreshPid, HandlerPC
    <3>4. CASE UntrackTgid(t)
      <4>1. Taken(t) = 5
        BY <3>4 DEF UntrackTgid, Step, At, Goto, Taken, StampOf
      <4> QED
        BY <1>6, <4>1 DEF Fails, None
    <3> QED
      BY <3>1, <3>2, <3>3, <3>4 DEF Handler
  <2>3. CASE KillStop(t)
    <3>1. pc[t] = "kill" /\ life[temp(t)] = "dead"
      BY <2>1, <2>3 DEF KillStop, Step, At, Goto, HandlerPC
    <3>2. temp(t) \in Pid
      BY <3>1 DEF Early, OnCourse, StopGoesWell, EarlyPC
    <3> QED
      BY <1>1, <3>1, <3>2 DEF Disturbed, Exiting
  <2>4. CASE WaitFailed(t)
    <3>1. pc[t] = "resume"
      BY <2>4 DEF WaitFailed, Step, At
    <3> QED
      BY <1>1, <3>1 DEF Early, OnCourse, StopGoesWell, EarlyPC
  <2> QED
    BY <2>2, <2>3, <2>4
<1>7. CASE Lingers(t) \/ Proceeds(t) \/ Skips(t)
  <2>1. InHandler(t)' /\ Taken(t) # 5
    BY <1>3, <1>7 DEF Lingers, Proceeds, Skips, None
  <2>2. Len(lines') = Len(lines)
    BY <1>4, <2>1, StampType
  <2> QED
    BY <1>2, <2>1, <2>2
<1> QED
  BY <1>5, <1>6, <1>7, HandlerMoves

LEMMA NextReport ==
  ASSUME Spaced, OwnForks, LeadersCall, ReportInv, [TimedNext]_timedVars
  PROVE  ReportInv'
<1> USE DEF ReportInv, TimedInv, SerialInv, ExclusiveInv
<1>1. TimedInv'
  BY NextTimed
<1>2. CASE UNCHANGED timedVars \/ (Rest /\ UNCHANGED clock)
  <2>1. UNCHANGED <<vars, clock>>
    BY <1>2 DEF timedVars, Rest
  <2>2. Early' /\ Reported'
    BY <2>1 DEF vars, clock, kernel, taskVars, stopVars, Early, OnCourse, Undisputed,
       StopGoesWell, Working, Building, PPid, temp, Disturbed, Exiting, Reported, InHandler
  <2> QED
    BY <1>1, <2>2
<1>3. CASE TimedInitModule \/ TimedCleanupModule
  <2>1. UNCHANGED <<kernel, pc, calls, lines>> /\ \A t \in Pid : ~InModule(t)
    BY <1>3 DEF TimedInitModule, InitModule, TimedCleanupModule, CleanupModule, InUse, clock
  <2>2. Early'
    BY <2>1 DEF InModule, HandlerPC, Early, EarlyPC
  <2>3. Reported'
    BY <2>1 DEF Reported, Disturbed, Exiting, InHandler, kernel, taskVars
  <2> QED
    BY <1>1, <2>2, <2>3
<1>4. ASSUME NEW t \in Pid, TimedHandler(t) \/ TimedPullBack(t) \/ Elsewhere(t)
      PROVE  ReportInv'
  <2>1. Handler(t) \/ PullBack(t) \/ Kernel(t) \/ Program(t)
    BY <1>4 DEF TimedHandler, TimedPullBack, Elsewhere, Program
  <2>2. Footprint(t) /\ Frame(t) /\ Kin(t)
    BY <2>1, TaskFootprint, TaskKin
  <2>3. ASSUME NEW u \in Pid, InHandler(u), u # t PROVE InHandler(u)'
    BY <2>2, <2>3 DEF Footprint, Untouched, Made, Started, Woken, TableInv, Present,
       InHandler, HandlerPC
  <2>4. CASE Handler(t) /\ Stamp(t)
    <3>1. Early'
      BY <2>1, <2>2, <2>4, OthersOnCourse, HandlerOnCourse DEF Early
    <3> QED
      BY <1>1, <2>2, <2>4, <3>1, HandlerReports
  <2>5. CASE Call(t) /\ Stamp(t)
    <3>1. Early'
      BY <2>1, <2>2, <2>5, OthersOnCourse, CallOnCourse DEF Early
    <3>2. /\ pc[t] = "user" /\ pc'[t] = "track_tgid" /\ calls' = calls + 1
          /\ \A u \in Pid : ~InHandler(u)
      BY <2>5 DEF Call, UserMode, At, Goto, TypeInv, TypeOK, InHandler, HandlerPC
    <3>3. UNCHANGED lines
      <4>1. Taken(t) = 0
        BY <3>2 DEF Taken, StampOf
      <4> QED
        BY <2>5, <4>1, StampEffect
    <3>4. Reported'
      <4>1. InHandler(t)'
        BY <3>2 DEF InHandler, HandlerPC
      <4>2. Disturbed => Disturbed'
        BY <2>2, DisturbedStays
      <4>3. calls \in Nat /\ Len(lines) \in Nat
        BY WorkloadAssumption DEF TypeInv, TypeOK, ClockType
      <4> QED
        BY <3>2, <3>3, <4>1, <4>2, <4>3 DEF Reported
    <3> QED
      BY <1>1, <3>1, <3>4
  <2>6. CASE TimedPullBack(t) \/ Elsewhere(t)
    <3>1. UNCHANGED <<clock, calls>> /\ ~InHandler(t)
      <4>1. CASE TimedPullBack(t)
        BY <4>1 DEF TimedPullBack, PullBack, EnterPullBack, TestClone, Claim, EndLoop,
           SkipExiting, CloneThread, StartThread, DonePid, DoneTgid, WakeCaller, Unclaim,
           Step, At, InHandler, HandlerPC
      <4>2. CASE Elsewhere(t)
        BY <4>2 DEF Elsewhere, Kernel, DequeueStop, GroupStop, Release, Exit, Fork, Spawn,
           At, UserMode, InHandler, HandlerPC, TableInv, Present
      <4> QED
        BY <2>6, <4>1, <4>2
    <3>2. pc'[t] \notin EarlyPC
      <4>1. ~Call(t)
        <5>1. calls \in Nat
          BY WorkloadAssumption DEF TypeInv, TypeOK
        <5> QED
          BY <3>1, <5>1 DEF Call
      <4>2. ~InHandler(t)'
        BY <2>2, <3>1, <4>1 DEF Footprint
      <4> QED
        BY <4>2 DEF InHandler, HandlerPC, EarlyPC
    <3>3. Early'
      BY <2>1, <2>2, <3>2, OthersOnCourse DEF Early
    <3>4. Reported'
      <4>1. Disturbed => Disturbed'
        BY <2>2, DisturbedStays
      <4>2. (\A u \in Pid : ~InHandler(u)') => \A u \in Pid : ~InHandler(u)
        BY <2>3, <3>1
      <4> QED
        BY <3>1, <4>1, <4>2 DEF Reported, clock
    <3> QED
      BY <1>1, <3>3, <3>4
  <2> QED
    BY <1>4, <2>4, <2>5, <2>6 DEF TimedHandler
<1> QED
  BY <1>2, <1>3, <1>4 DEF TimedNext

(* The plotter reads one line for each run: a call of a process leader     *)
(* prints it unless some thread has ended.  The wait for the stop does not *)
(* fail for another reason, since nobody else touches the tracked ids, the *)
(* hooks exempt the leader, and no thread of the process forks meanwhile.  *)
THEOREM CallsReport ==
  ASSUME Spaced, OwnForks, LeadersCall
  PROVE  TimedSpec => []EveryCallReports
<1>1. TimedInit => ReportInv
  <2> SUFFICES ASSUME TimedInit PROVE ReportInv
    OBVIOUS
  <2>1. /\ \A t \in Pid : pc[t] = "user"
        /\ calls = 0 /\ Len(lines) = 0
    BY DEF TimedInit, Init
  <2>2. Early /\ Reported
    BY <2>1 DEF Early, EarlyPC, Reported
  <2> QED
    BY <2>2, InitTimed DEF ReportInv
<1>2. ReportInv => EveryCallReports
  BY DEF ReportInv, Reported, Disturbed, EveryCallReports
<1>3. ReportInv /\ [TimedNext]_timedVars => ReportInv'
  BY NextReport
<1> QED
  BY <1>1, <1>2, <1>3, PTL DEF TimedSpec
=============================================================================
