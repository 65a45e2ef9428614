---------------------------- MODULE PtreeFullFork ----------------------------
(***************************************************************************)
(* PROCESS_TREE_CLONE/ptree_clone_fullfork.c: a manager copies the tree of *)
(* processes below a given one, every process with its threads.  At each   *)
(* process, in post-order, it sets pid_to_fork and sleeps on wq1; that     *)
(* process forks in a kprobe handler as it calls schedule(); the child is  *)
(* caught by the pull_back hook, clones a thread for each thread of its    *)
(* parent, wakes the manager and sleeps on wq2 until system call 548.      *)
(*                                                                         *)
(* The walk itself, make_them_sleep(), is kernel code that the repository  *)
(* does not hold.  The module fixes what it must do (the globals it sets,  *)
(* the queue it sleeps on, p_prime and the list of copies that are kept    *)
(* for it); a draft in comments and ptree_clone_fork.c give the order.     *)
(* The threads of a process are a number: the manager has stopped them.    *)
(***************************************************************************)
EXTENDS ProcessTree

CONSTANTS
  Threads,     (* Threads[p]: how many sibling threads a process has       *)
  Top,         (* the process whose tree may be copied                     *)
  MaxCalls,    (* bound on the calls made by the manager                   *)
  Patient      (* TRUE: system call 548 is made when the manager is done   *)

ASSUME WorkloadAssumption ==
  /\ Threads \in [Pid -> Nat] /\ MaxCalls \in Nat
  /\ Top \in Pid /\ Tree[Top] = Outside     (* Tree is what is below Top   *)
  /\ \A p \in Pid : Tree[p] = Outside => p = Top
  /\ Patient \in BOOLEAN

VARIABLES
  threads,    (* the sibling threads that each process has by now          *)
  ff,         (* the globals of the module and of the kernel it is part of *)
  pc,         (* pc[p]: the statement of before_schedule or my_pull_back   *)
  clone_pid,  (* its local variable in before_schedule                     *)
  manager, node, cursor,   (* the statement and the frame of the manager   *)
  release,    (* the statement of system call 548                          *)
  calls,
  overtaken   (* history: the manager has gone on from a process while the *)
              (* probe or the copy that answered it was not yet done       *)

walk == <<node, cursor>>
vars == <<tree, threads, ff, pc, clone_pid, manager, walk, release, calls, overtaken>>

Globals == [loaded : BOOLEAN, everything_done : BOOLEAN, clone : BOOLEAN,
            error_check : {0, -1}, wq1 : BOOLEAN, wq2 : SUBSET Pid,
            queues : BOOLEAN,                 (* wq1, wq2 are initialised  *)
            pid_to_fork : Pid \cup {-1}, tracked_pid : Pid \cup {-1},
            p_prime : Pid \cup {None}, pid_list : SUBSET Pid]

ProbePC    == {"list", "prime", "untarget"}
PullBackPC == {"tail", "tail_flag", "claim", "loop", "done", "wake", "unclaim", "hold", "held"}
ManagerPC  == {"idle", "children", "target", "wait", "asleep", "reparent", "return"}

TypeOK ==
  /\ ProcessTypeOK
  /\ threads \in [Pid -> Nat]
  /\ ff \in Globals
  /\ pc \in [Pid -> ProbePC \cup PullBackPC \cup {"user"}]
  /\ clone_pid \in [Pid -> Pid \cup {None}]
  /\ manager \in ManagerPC /\ node \in Pid /\ cursor \in Pid \cup {Outside}
  /\ release \in {"user", "wake"}
  /\ calls \in 0 .. MaxCalls /\ overtaken \in BOOLEAN

Kernel == [loaded |-> FALSE, everything_done |-> FALSE, clone |-> FALSE,
           error_check |-> 0, wq1 |-> FALSE, wq2 |-> {}, queues |-> FALSE,
           pid_to_fork |-> -1, tracked_pid |-> -1, p_prime |-> None,
           pid_list |-> {}]

Init ==
  /\ TreeInit
  /\ threads = Threads
  /\ ff = Kernel
  /\ pc = [p \in Pid |-> "user"] /\ clone_pid = [p \in Pid |-> None]
  /\ manager = "idle" /\ node = Top /\ cursor = Outside
  /\ release = "user" /\ calls = 0 /\ overtaken = FALSE

-----------------------------------------------------------------------------
(* init_module loads the statics of the module; what is exported by the    *)
(* kernel (pid_to_fork, tracked_pid, p_prime, the list) keeps its value.   *)
InitModule ==
  /\ ~ff.loaded
  /\ ff' = [ff EXCEPT !.loaded = TRUE, !.everything_done = FALSE,
                      !.clone = FALSE, !.error_check = 0, !.queues = FALSE]
  /\ UNCHANGED <<tree, threads, pc, clone_pid, manager, walk, release, calls, overtaken>>

(* rmmod while a task is in module text is not modelled.                   *)
CleanupModule ==
  /\ ff.loaded /\ manager = "idle" /\ release = "user"
  /\ \A p \in Pid : pc[p] \in {"user", "tail"}
  /\ ff' = [ff EXCEPT !.loaded = FALSE, !.tracked_pid = -1]
  /\ UNCHANGED <<tree, threads, pc, clone_pid, manager, walk, release, calls, overtaken>>

-----------------------------------------------------------------------------
(* my_ptree_clone_handler(pid): a pid that names no process ends the call. *)
Call(pid) ==
  /\ ff.loaded /\ manager = "idle" /\ calls < MaxCalls
  /\ calls' = calls + 1
  /\ ff' = [ff EXCEPT !.wq1 = FALSE, !.wq2 = {}, !.queues = TRUE]
  /\ IF life[pid] = "free"
       THEN UNCHANGED <<manager, walk>>
       ELSE /\ pid = Top
            /\ manager' = "children" /\ node' = pid /\ cursor' = Outside
  /\ UNCHANGED <<tree, threads, pc, clone_pid, release, overtaken>>

(* make_them_sleep(): the walk of the manager.                             *)
Manage(from, to) ==
  /\ manager = from /\ manager' = to
  /\ UNCHANGED <<threads, pc, clone_pid, release, calls>>

Descend ==
  /\ Manage("children", "children")
  /\ \E c \in Pid : IsNextChild(node, cursor, c) /\ node' = c
  /\ cursor' = Outside
  /\ UNCHANGED <<tree, ff, overtaken>>

Target ==
  /\ Manage("children", "wait") /\ \A c \in Pid : ~IsNextChild(node, cursor, c)
  /\ ff' = [ff EXCEPT !.tracked_pid = node, !.pid_to_fork = node]
  /\ UNCHANGED <<tree, walk, overtaken>>

(* Every probe and hook is past its last access to the globals.            *)
Settled == \A p \in Pid : pc[p] \in {"user", "hold", "held"}

(* wait_event_interruptible(wq1, tracked_pid == -1): the copy has still to *)
(* execute clone = false by then, and the probe may be anywhere after its  *)
(* fork; no code makes the manager wait for them.                          *)
Wait ==
  /\ \/ /\ ff.tracked_pid = -1 /\ Manage("wait", "reparent")
        /\ ff' = [ff EXCEPT !.wq1 = FALSE]
        /\ overtaken' = (overtaken \/ ~Settled)
     \/ /\ ff.tracked_pid # -1 /\ Manage("wait", "asleep")
        /\ ff' = [ff EXCEPT !.wq1 = TRUE]
        /\ UNCHANGED overtaken
  /\ UNCHANGED <<tree, walk>>

(* The copies that are still below the originals of node's children.       *)
Movable(g) ==
  /\ g \in ff.pid_list /\ parent[g] \in Children(node) \ ff.pid_list

(* To reparent below NULL is an oops: the manager goes no further.         *)
MoveGrandchild ==
  /\ Manage("reparent", "reparent") /\ ff.p_prime # None
  /\ \E g \in Pid : Movable(g) /\ Reparent(g, ff.p_prime)
  /\ UNCHANGED <<ff, walk, overtaken>>

Return ==
  /\ Manage("reparent", IF node = Top THEN "idle" ELSE "children")
  /\ \A g \in Pid : ~Movable(g)
  /\ IF node = Top THEN UNCHANGED walk ELSE node' = parent[node] /\ cursor' = node
  /\ UNCHANGED <<tree, ff, overtaken>>

Manager == Descend \/ Target \/ Wait \/ MoveGrandchild \/ Return

-----------------------------------------------------------------------------
Step(p, from, to) ==
  /\ pc[p] = from /\ pc' = [pc EXCEPT ![p] = to]
  /\ UNCHANGED <<walk, release, calls, overtaken>>

leader_clone(c, p) == FreshPid(c) /\ NewChild(c, p, "alive", p)

(* before_schedule, in the process that pid_to_fork names.  A fork that    *)
(* fails changes nothing and is tried again at the next schedule().        *)
BeforeSchedule(p) ==
  /\ ff.loaded /\ ff.pid_to_fork = p /\ life[p] = "alive" /\ pc[p] = "user"
  /\ \E c \in Pid : /\ leader_clone(c, p)
                    /\ pc' = [pc EXCEPT ![p] = "list", ![c] = "tail"]
                    /\ clone_pid' = [clone_pid EXCEPT ![p] = c]
  /\ UNCHANGED <<threads, ff, manager, walk, release, calls, overtaken>>

(* Mutant: the copy is not listed.                                         *)
AddToPidList_Not(p) ==
  Step(p, "list", "prime") /\ UNCHANGED <<tree, threads, ff, clone_pid, manager>>

AddToPidList(p) ==
  /\ Step(p, "list", "prime")
  /\ ff' = [ff EXCEPT !.pid_list = @ \cup {clone_pid[p]}]
  /\ UNCHANGED <<tree, threads, clone_pid, manager>>

SetPrime(p) ==
  /\ Step(p, "prime", "untarget")
  /\ ff' = [ff EXCEPT !.p_prime = clone_pid[p]]
  /\ UNCHANGED <<tree, threads, clone_pid, manager>>

(* Mutant: the target is cleared to 0.                                     *)
Untarget_Zero(p) ==
  /\ Step(p, "untarget", "user")
  /\ ff' = [ff EXCEPT !.pid_to_fork = 0]
  /\ UNCHANGED <<tree, threads, clone_pid, manager>>

(* pid_to_fork = -1                                                        *)
Untarget(p) ==
  /\ Step(p, "untarget", "user")
  /\ ff' = [ff EXCEPT !.pid_to_fork = -1]
  /\ UNCHANGED <<tree, threads, clone_pid, manager>>

Probe(p) == BeforeSchedule(p) \/ AddToPidList(p) \/ SetPrime(p) \/ Untarget(p)

-----------------------------------------------------------------------------
(* my_pull_back, in the new process c.                                     *)

(* ppid == tracked_pid                                                     *)
EnterPullBack(c) ==
  /\ Step(c, "tail", IF ff.loaded /\ parent[c] = ff.tracked_pid THEN "tail_flag"
                                                                ELSE "user")
  /\ UNCHANGED <<tree, threads, ff, clone_pid, manager>>

(* if(!clone)                                                              *)
TestClone(c) ==
  /\ Step(c, "tail_flag", IF ff.clone THEN "user" ELSE "claim")
  /\ UNCHANGED <<tree, threads, ff, clone_pid, manager>>

Claim(c) ==
  /\ Step(c, "claim", "loop")
  /\ ff' = [ff EXCEPT !.clone = TRUE]
  /\ UNCHANGED <<tree, threads, clone_pid, manager>>

(* Mutant: the failure of a clone is not told.                             *)
CloneThread_Silent(c) ==
  /\ pc[c] = "loop" /\ threads[c] < threads[origin[c]]
  /\ \/ Step(c, "loop", "loop") /\ threads' = [threads EXCEPT ![c] = @ + 1]
     \/ Step(c, "loop", "done") /\ UNCHANGED threads
  /\ UNCHANGED <<tree, ff, clone_pid, manager>>

(* my_kernel_clone with CLONE_THREAD, which may fail.  No thread exits here*)
(* (the process is stopped), and none of the copy runs: their registers    *)
(* and the flag PF_EXITING are left out.                                   *)
CloneThread(c) ==
  /\ pc[c] = "loop" /\ threads[c] < threads[origin[c]]
  /\ \/ /\ Step(c, "loop", "loop")
        /\ threads' = [threads EXCEPT ![c] = @ + 1]
        /\ UNCHANGED ff
     \/ /\ Step(c, "loop", "done")
        /\ ff' = [ff EXCEPT !.error_check = -1]
        /\ UNCHANGED threads
  /\ UNCHANGED <<tree, clone_pid, manager>>

(* Mutant: the loop ends one thread early.                                 *)
EndLoop_Early(c) ==
  /\ Step(c, "loop", "done") /\ threads[c] + 1 >= threads[origin[c]]
  /\ UNCHANGED <<tree, threads, ff, clone_pid, manager>>

EndLoop(c) ==
  /\ Step(c, "loop", "done") /\ threads[c] = threads[origin[c]]
  /\ UNCHANGED <<tree, threads, ff, clone_pid, manager>>

(* tracked_pid = -1                                                        *)
Done(c) ==
  /\ Step(c, "done", "wake")
  /\ ff' = [ff EXCEPT !.tracked_pid = -1]
  /\ UNCHANGED <<tree, threads, clone_pid, manager>>

(* Mutant: the manager is not woken.                                       *)
WakeManager_Not(c) ==
  Step(c, "wake", "unclaim") /\ UNCHANGED <<tree, threads, ff, clone_pid, manager>>

(* wake_up(&wq1)                                                           *)
WakeManager(c) ==
  /\ Step(c, "wake", "unclaim")
  /\ manager' = IF ff.wq1 /\ manager = "asleep" THEN "wait" ELSE manager
  /\ ff' = [ff EXCEPT !.wq1 = FALSE]
  /\ UNCHANGED <<tree, threads, clone_pid>>

(* Mutant: the flag stays set.                                             *)
Unclaim_Not(c) ==
  Step(c, "unclaim", "hold") /\ UNCHANGED <<tree, threads, ff, clone_pid, manager>>

(* clone = false                                                           *)
Unclaim(c) ==
  /\ Step(c, "unclaim", "hold")
  /\ ff' = [ff EXCEPT !.clone = FALSE]
  /\ UNCHANGED <<tree, threads, clone_pid, manager>>

(* Mutant: the copy does not wait.                                         *)
Hold_Not(c) ==
  Step(c, "hold", "user") /\ UNCHANGED <<tree, threads, ff, clone_pid, manager>>

(* wait_event(wq2, everything_done)                                        *)
Hold(c) ==
  /\ \/ /\ ff.everything_done /\ Step(c, "hold", "user")
        /\ ff' = [ff EXCEPT !.wq2 = @ \ {c}]
     \/ /\ ~ff.everything_done /\ Step(c, "hold", "held")
        /\ ff' = [ff EXCEPT !.wq2 = @ \cup {c}]
  /\ UNCHANGED <<tree, threads, clone_pid, manager>>

PullBack(c) ==
  \/ EnterPullBack(c) \/ TestClone(c) \/ Claim(c) \/ CloneThread(c) \/ EndLoop(c) \/ Done(c)
  \/ WakeManager(c) \/ Unclaim(c) \/ Hold(c)

-----------------------------------------------------------------------------
(* my_syscall_handler, made by some process.  Before the first call of the *)
(* manager wq2 is not initialised and a wake_up of it has no meaning.      *)

SetEverythingDone ==
  /\ ff.loaded /\ ff.queues /\ release = "user" /\ release' = "wake"
  /\ Patient => manager = "idle"
  /\ ff' = [ff EXCEPT !.everything_done = TRUE]
  /\ UNCHANGED <<tree, threads, pc, clone_pid, manager, walk, calls, overtaken>>

(* Mutant: the copies are not woken.                                       *)
WakeCopies_Not ==
  /\ release = "wake" /\ release' = "user"
  /\ UNCHANGED <<tree, threads, ff, pc, clone_pid, manager, walk, calls, overtaken>>

(* wake_up(&wq2)                                                           *)
WakeCopies ==
  /\ release = "wake" /\ release' = "user"
  /\ pc' = [c \in Pid |-> IF c \in ff.wq2 /\ pc[c] = "held" THEN "hold" ELSE pc[c]]
  /\ ff' = [ff EXCEPT !.wq2 = {}]
  /\ UNCHANGED <<tree, threads, clone_pid, manager, walk, calls, overtaken>>

-----------------------------------------------------------------------------
(* Nobody need call again: that is not a deadlock.                         *)
Rest == manager = "idle" /\ UNCHANGED vars

Next ==
  \/ InitModule \/ CleanupModule \/ Manager \/ SetEverythingDone \/ WakeCopies
  \/ Rest
  \/ \E p \in Pid : Call(p) \/ Probe(p) \/ PullBack(p)

Spec == Init /\ [][Next]_vars

(* What is inside the kernel is scheduled, and the process that the manager*)
(* kicks calls schedule(); a fork tried again and again succeeds.          *)
FairSpec ==
  /\ Spec
  /\ WF_vars(Manager) /\ WF_vars(WakeCopies)
  /\ \A p \in Pid : WF_vars(Probe(p) \/ PullBack(p))

-----------------------------------------------------------------------------
(* Where the copy of p is, for TreeCopy.                                   *)
CopiesOf(p) == {c \in Pid : IsCopy(c) /\ origin[c] = p}

PlaceOf(p) ==
  IF CopiesOf(p) = {} THEN "none"
  ELSE IF \A c \in CopiesOf(p) : parent[c] = p THEN "beside"
  ELSE IF \A c \in CopiesOf(p) : parent[c] \in CopiesOf(Tree[p]) THEN "moved"
  ELSE "lost"

Started == \E c \in Pid : IsCopy(c) /\ pc[c] = "user"

Original == {p \in Pid : Tree[p] # None}

TheCopy == INSTANCE TreeCopy
  WITH Node    <- Original,
       Up      <- [p \in Original |-> Tree[p]],
       place   <- [p \in Original |-> PlaceOf(p)],
       started <- Started,
       Mortal  <- {}

-----------------------------------------------------------------------------
(* Properties.                                                             *)

(* When the manager goes on from a process, and has never overtaken the    *)
(* probe or the copy, p_prime is the copy made of it for this wait, not yet*)
(* moved, with all its threads unless one failed.                          *)
AnswerMatches ==
  manager = "reparent" /\ ~overtaken =>
    /\ ff.p_prime # None
    /\ origin[ff.p_prime] = node /\ parent[ff.p_prime] = node
    /\ ff.error_check = 0 => threads[ff.p_prime] = threads[node]

(* Overtaking or not, the manager never goes on from a process that has no *)
(* copy, or one that still lacks a thread although none failed.            *)
NobodySkipped ==
  manager = "reparent" =>
    \E c \in Pid : /\ IsCopy(c) /\ origin[c] = node
                   /\ ff.error_check = 0 => threads[c] = threads[node]

(* The copy of a tree that the manager leaves behind has every process     *)
(* once; and below the copy of its parent, its top below the original top, *)
(* if the manager has never overtaken.                                     *)
InPlace(c) ==
  IF origin[c] = Top THEN parent[c] = Top
  ELSE IsCopy(parent[c]) /\ origin[parent[c]] = parent[origin[c]]

TreeMirrored ==
  LET copies == {c \in Pid : IsCopy(c)}
  IN  /\ \A c, d \in copies : c # d => origin[c] # origin[d]
      /\ manager = "idle" /\ copies # {} =>
           /\ {origin[c] : c \in copies} = {p \in Pid : Tree[p] # None}
           /\ overtaken \/ \A c \in copies : InPlace(c)

(* The same of every call, overtaken or not: what the report says of it.   *)
CopiesInPlace ==
  manager = "idle" => \A c \in Pid : IsCopy(c) => InPlace(c)

(* If system call 548 comes after the call of the manager, no copy reaches *)
(* user mode before the whole tree has been copied; the copy that a manager*)
(* that has overtaken asks for may find clone still set.                   *)
NoEarlyStart ==
  [][\A c \in Pid : IsCopy(c) /\ pc[c] # "user" /\ pc'[c] = "user"
       => manager = "idle" \/ overtaken]_vars

(* The manager never sleeps through its wake-up: it sleeps in wq1, and once*)
(* tracked_pid is -1 a copy is short of wake_up(&wq1).  Before that, and if*)
(* the manager has never overtaken, the probe of its node is still asked   *)
(* for, or the copy that the node made is in my_pull_back or will be let in*)
NoLostWakeUp ==
  manager = "asleep" =>
    /\ ff.loaded /\ ff.wq1
    /\ \/ ff.tracked_pid = -1 /\ \E c \in Pid : pc[c] = "wake"
       \/ /\ ff.tracked_pid = node
          /\ \/ overtaken
             \/ ff.pid_to_fork = node
             \/ \E c \in Pid :
                  /\ origin[c] = node
                  /\ \/ pc[c] \in {"claim", "loop", "done"}
                     \/ pc[c] \in {"tail", "tail_flag"} /\ parent[c] = node /\ ~ff.clone

(* No copy is left behind asleep: each is in wq2, and once everything is   *)
(* done the wake-up of wq2 is still to come, so that no copy goes to sleep *)
(* behind it.                                                              *)
NoCopyForgotten ==
  \A c \in Pid : pc[c] = "held" =>
    c \in ff.wq2 /\ (ff.everything_done => release = "wake")

(* System call 548 releases every copy that waits for it.                  *)
CopiesReleased ==
  ff.everything_done ~> \A c \in Pid : pc[c] \notin {"hold", "held"}

(* The call of the manager returns, unless it overtakes: it may then sleep *)
(* for ever.                                                               *)
CallReturns == manager # "idle" ~> manager = "idle" \/ overtaken

(* The manager, the probes, the hooks and the two system calls together    *)
(* build a copy from the leaves up that starts when it is complete, as long*)
(* as the manager does not overtake.                                       *)
ImplementsTreeCopy == TheCopy!Init /\ [][overtaken' \/ TheCopy!Next]_(TheCopy!vars)
=============================================================================
