---------------------------- MODULE TimedFullFork ----------------------------
(***************************************************************************)
(* FULL_FORK/benchmarking/fullfork.c: the module of FullFork, statement for*)
(* statement, with six time stamps that a call which reaches its end prints*)
(* in one TIME_INFO line.  bm.sh keeps the line of each run of a program   *)
(* and plotter.py subtracts its numbers from each other.                   *)
(*                                                                         *)
(* times[] is global and keeps the stamps of earlier calls.  A stamp is    *)
(* taken in the step of the statement that it follows or precedes.         *)
(***************************************************************************)
EXTENDS FullFork, Sequences

VARIABLES
  now,    (* the clock: it ticks at each stamp                             *)
  times,  (* unsigned long long times[6]                                   *)
  lines   (* the TIME_INFO lines in the kernel log                         *)

clock     == <<now, times, lines>>
timedVars == <<vars, clock>>

Stamps == 0 .. 5
None   == 6

TimedInit ==
  /\ Init
  /\ now = 0 /\ times = [i \in Stamps |-> 0] /\ lines = <<>>

(* Mutant: the time of the signal is not taken.                            *)
StampOf_NoSignal(from, to) ==
  CASE from = "user" /\ to = "track_tgid"  -> 0
    [] from = "unhook"                     -> 2
    [] from = "fork" /\ to = "await"       -> 3
    [] from # "cont" /\ to = "cont"        -> 4
    [] from = "untrack_tgid"               -> 5
    [] OTHER                               -> None

(* The stamp that a task takes when it goes from one statement to another: *)
(* at the entry; when the signal is sent; when the siblings have stopped;  *)
(* after kernel_clone; after leader_clone; at the end.                     *)
StampOf(from, to) ==
  CASE from = "user" /\ to = "track_tgid"  -> 0
    [] from = "kill" /\ to = "wait"        -> 1
    [] from = "unhook"                     -> 2
    [] from = "fork" /\ to = "await"       -> 3
    [] from # "cont" /\ to = "cont"        -> 4
    [] from = "untrack_tgid"               -> 5
    [] OTHER                               -> None

(* Mutant: a line for each stamp.                                          *)
Reports_Each(i) == i # None

(* printk, after the last stamp                                            *)
Reports(i) == i = 5

(* What the step of t adds to times[] and, at the end, to the log.  The    *)
(* line also says if the call found a sibling to stop and if it forked.    *)
Stamp(t) ==
  LET i == IF pc'[t] = pc[t] THEN None ELSE StampOf(pc[t], pc'[t])
  IN  /\ now' = IF i = None THEN now ELSE now + 1
      /\ times' = [j \in Stamps |-> IF j = i THEN now' ELSE times[j]]
      /\ lines' = IF ~Reports(i) THEN lines
                  ELSE Append(lines, [stopped |-> temp(t) # Outside,
                                        forked  |-> child(t) # Outside,
                                        times   |-> times'])

TimedHandler(t)  == (Call(t) \/ Handler(t)) /\ Stamp(t)
TimedPullBack(t) == PullBack(t) /\ UNCHANGED clock

Elsewhere(t) ==
  (Kernel(t) \/ Exit(t) \/ Fork(t) \/ Spawn(t)) /\ UNCHANGED clock

TimedInitModule ==
  /\ InitModule
  /\ times' = [i \in Stamps |-> 0] /\ UNCHANGED <<now, lines>>

TimedCleanupModule == CleanupModule /\ UNCHANGED clock

TimedNext ==
  \/ TimedInitModule \/ TimedCleanupModule
  \/ Rest /\ UNCHANGED clock
  \/ \E t \in Pid : TimedHandler(t) \/ TimedPullBack(t) \/ Elsewhere(t)

TimedSpec == TimedInit /\ [][TimedNext]_timedVars

TimedFairSpec == TimedSpec /\ Fairness

-----------------------------------------------------------------------------
(* Properties.                                                             *)

TimedTypeOK ==
  /\ now \in 0 .. 6 * MaxCalls
  /\ times \in [Stamps -> 0 .. now]
  /\ Len(lines) =< MaxCalls

(* The line of a call that stopped its siblings and forked holds six stamps*)
(* of that call, in the order of the stages that the plots measure.        *)
LinesInOrder ==
  \A n \in DOMAIN lines : lines[n].stopped /\ lines[n].forked =>
    \A i \in 1 .. 5 : lines[n].times[i - 1] < lines[n].times[i]

(* A run of the benchmark without a line is one in which a thread of the   *)
(* program ended: the plotter reads a line for every run.                  *)
EveryCallReports ==
  (\A t \in Pid : ~InHandler(t) /\ ~Exiting(t)) => Len(lines) = calls
=============================================================================
