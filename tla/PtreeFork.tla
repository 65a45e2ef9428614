------------------------------ MODULE PtreeFork ------------------------------
(***************************************************************************)
(* PROCESS_TREE_CLONE/ptree_clone_fork.c: system call 548 copies the tree  *)
(* of processes below its caller.  The caller walks the tree in post-order *)
(* (dfs) and waits at each process until that process, on its way into     *)
(* schedule(), has forked a copy of itself in a kprobe handler; the copies *)
(* are created asleep (my_kernel_clone), moved below the copy of their     *)
(* parent, and the copy of the caller is woken at the end.                 *)
(*                                                                         *)
(* Processes have one thread.  The caller and the probes share the globals *)
(* without a lock: each access is a step.  The frames of the recursion are *)
(* the path from node up to Root, as long as no parent on it ends.         *)
(***************************************************************************)
EXTENDS ProcessTree

CONSTANTS
  Root,           (* the process that makes system call 548                *)
  Forkers,        (* the processes that may call fork()                    *)
  Exiters,        (* the processes that may end                            *)
  MaxCalls,       (* bound on the system calls 548 made                    *)
  Interruptible   (* TRUE: signals may reach the caller while it waits     *)

ASSUME WorkloadAssumption ==
  /\ MaxCalls \in Nat /\ Interruptible \in BOOLEAN
  /\ Root \in Pid /\ Tree[Root] = Outside   (* Tree is what is below the caller *)
  /\ \A p \in Pid : Tree[p] = Outside => p = Root
  /\ Forkers \subseteq Pid /\ Exiters \subseteq Pid \ {Root}

VARIABLES
  ff,       (* the globals of the module                                   *)
  probe,    (* the statement of after_schedule that a process is at        *)
  clone_pid,  (* its local variable there                                  *)
  pc, node, cursor,  (* the caller: its statement, p and c of its frame    *)
  calls

prob == <<probe, clone_pid>>
walk == <<node, cursor>>
vars == <<tree, ff, prob, pc, walk, calls>>

Globals == [loaded : BOOLEAN, target_pid : Pid \cup {-1}, done : BOOLEAN,
            p_prime : Pid \cup {None}, pid_list : SUBSET Pid, wq : BOOLEAN]

ProbePC  == {"user", "add", "prime", "untarget", "done", "wake"}
CallerPC == {"user", "children", "target", "wait", "asleep", "clear",
             "reparent", "return", "finish", "oops"}

TypeOK ==
  /\ ProcessTypeOK
  /\ ff \in Globals
  /\ probe \in [Pid -> ProbePC]
  /\ clone_pid \in [Pid -> Pid \cup {None}]
  /\ pc \in CallerPC /\ node \in Pid /\ cursor \in Pid \cup {Outside}
  /\ calls \in 0 .. MaxCalls

FreshModule == [loaded |-> FALSE, target_pid |-> -1, done |-> FALSE,
                p_prime |-> None, pid_list |-> {}, wq |-> FALSE]

Init ==
  /\ TreeInit
  /\ ff = FreshModule
  /\ probe = [p \in Pid |-> "user"]
  /\ clone_pid = [p \in Pid |-> None]
  /\ pc = "user" /\ node = Root /\ cursor = Outside
  /\ calls = 0

-----------------------------------------------------------------------------
in_pid_list(c) == c \in ff.pid_list

(* Mutant: kernel_clone instead of my_kernel_clone wakes the child.        *)
fullfork_Awake(c, p) == FreshPid(c) /\ NewChild(c, p, "alive", p)

fullfork(c, p) == FreshPid(c) /\ NewChild(c, p, "new", p)

-----------------------------------------------------------------------------
(* init_module and cleanup_module; unregister_kprobe waits for the         *)
(* handlers that run.  rmmod under a caller is not modelled.               *)

InitModule ==
  /\ ~ff.loaded
  /\ ff' = [FreshModule EXCEPT !.loaded = TRUE]
  /\ UNCHANGED <<tree, prob, pc, walk, calls>>

CleanupModule ==
  /\ ff.loaded /\ pc \in {"user", "oops"} /\ \A p \in Pid : probe[p] = "user"
  /\ ff' = [ff EXCEPT !.loaded = FALSE]
  /\ UNCHANGED <<tree, prob, pc, walk, calls>>

-----------------------------------------------------------------------------
(* The caller: my_syscall_handler and dfs.  While it is in a probe of its  *)
(* own, which happens as it calls schedule() in its wait, it is not here.  *)

Caller(from, to) == pc = from /\ pc' = to /\ probe[Root] = "user"

Call ==
  /\ Caller("user", "children") /\ ff.loaded /\ calls < MaxCalls
  /\ life[Root] = "alive" /\ calls' = calls + 1
  /\ node' = Root /\ cursor' = Outside
  /\ ff' = [ff EXCEPT !.wq = FALSE]
  /\ UNCHANGED <<tree, prob>>

(* list_for_each_entry(c, &p->children, sibling) dfs(c)                    *)
Descend ==
  /\ Caller("children", "children")
  /\ \E c \in Pid : IsNextChild(node, cursor, c) /\ node' = c
  /\ cursor' = Outside
  /\ UNCHANGED <<tree, ff, prob, calls>>

ChildrenDone ==
  /\ Caller("children", "target") /\ \A c \in Pid : ~IsNextChild(node, cursor, c)
  /\ UNCHANGED <<tree, ff, prob, walk, calls>>

Target ==
  /\ Caller("target", "wait")
  /\ ff' = [ff EXCEPT !.target_pid = node]
  /\ UNCHANGED <<tree, prob, walk, calls>>

(* wait_event_interruptible(wq, done)                                      *)
Wait ==
  /\ \/ ff.done /\ Caller("wait", "clear") /\ ff' = [ff EXCEPT !.wq = FALSE]
     \/ ~ff.done /\ Caller("wait", "asleep") /\ ff' = [ff EXCEPT !.wq = TRUE]
  /\ UNCHANGED <<tree, prob, walk, calls>>

Interrupt ==
  /\ Interruptible /\ ~ff.done /\ Caller("asleep", "clear")
  /\ ff' = [ff EXCEPT !.wq = FALSE]
  /\ UNCHANGED <<tree, prob, walk, calls>>

(* Mutant: done stays set.                                                 *)
ClearDone_Not ==
  Caller("clear", "reparent") /\ UNCHANGED <<tree, ff, prob, walk, calls>>

(* done = false                                                            *)
ClearDone ==
  /\ Caller("clear", "reparent")
  /\ ff' = [ff EXCEPT !.done = FALSE]
  /\ UNCHANGED <<tree, prob, walk, calls>>

(* Mutant: whichever grandchild there is moves.                            *)
Movable_Any(g) ==
  \E c \in Children(node) : ~in_pid_list(c) /\ parent[g] = c

(* if(!in_pid_list(c)) ... if(in_pid_list(gc)) reparent(gc, p_prime)       *)
Movable(g) ==
  \E c \in Children(node) : /\ ~in_pid_list(c) /\ parent[g] = c
                            /\ in_pid_list(g)

(* Mutant: the copies move to the node instead of its copy.                *)
MoveGrandchild_Up ==
  /\ Caller("reparent", "reparent")
  /\ \E g \in Pid : Movable(g) /\ Reparent(g, node)
  /\ UNCHANGED <<ff, prob, walk, calls>>

MoveGrandchild ==
  /\ Caller("reparent", "reparent") /\ ff.p_prime # None
  /\ \E g \in Pid : Movable(g) /\ Reparent(g, ff.p_prime)
  /\ UNCHANGED <<ff, prob, walk, calls>>

MovesDone ==
  /\ Caller("reparent", "return") /\ ff.p_prime # None
  /\ \A g \in Pid : ~Movable(g)
  /\ UNCHANGED <<tree, ff, prob, walk, calls>>

(* The loop and the log read *p_prime: without a copy, a NULL pointer.     *)
Oops ==
  /\ Caller("reparent", "oops") /\ ff.p_prime = None
  /\ UNCHANGED <<tree, ff, prob, walk, calls>>

(* The frame that dfs returns to.  If the parent has ended, the list that  *)
(* its loop goes on with is that of init, whose head is not its own.       *)
Outer ==
  IF node = Root THEN "finish" ELSE IF parent[node] = Outside THEN "oops" ELSE "children"

(* Mutant: the target is cleared to 0.                                     *)
Return_Zero ==
  /\ Caller("return", Outer)
  /\ ff' = [ff EXCEPT !.target_pid = 0]
  /\ IF Outer # "children" THEN UNCHANGED walk ELSE node' = parent[node] /\ cursor' = node
  /\ UNCHANGED <<tree, prob, calls>>

(* target_pid = -1; dfs returns to the frame of the parent, or ends.       *)
Return ==
  /\ Caller("return", Outer)
  /\ ff' = [ff EXCEPT !.target_pid = -1]
  /\ IF Outer # "children" THEN UNCHANGED walk ELSE node' = parent[node] /\ cursor' = node
  /\ UNCHANGED <<tree, prob, calls>>

(* for_each_thread(p_prime, t) wake_up_new_task(t)                         *)
Finish ==
  /\ Caller("finish", "user")
  /\ life' = [life EXCEPT ![ff.p_prime] = "alive"]
  /\ UNCHANGED <<parent, origin, ff, prob, walk, calls>>

Handler ==
  \/ Descend \/ ChildrenDone \/ Target \/ Wait \/ Interrupt \/ ClearDone
  \/ MoveGrandchild \/ MovesDone \/ Oops \/ Return \/ Finish

-----------------------------------------------------------------------------
(* after_schedule, in the process p that calls schedule(): the caller does *)
(* so in its wait, the others whenever they are preempted.  A fork that    *)
(* fails changes nothing and is tried again at the next schedule().  The   *)
(* test and the fork are one step: whatever the caller does between them   *)
(* it does as well after them, as it cannot tell that the copy exists.     *)

Probing(p, from, to) ==
  /\ probe[p] = from /\ probe' = [probe EXCEPT ![p] = to]
  /\ UNCHANGED <<walk, calls>>

AfterSchedule(p) ==
  /\ Probing(p, "user", "add") /\ ff.loaded /\ ff.target_pid = p
  /\ life[p] = "alive" /\ (p = Root => pc = "asleep")
  /\ \E c \in Pid : fullfork(c, p) /\ clone_pid' = [clone_pid EXCEPT ![p] = c]
  /\ UNCHANGED <<ff, pc>>

AddToList(p) ==
  /\ Probing(p, "add", "prime")
  /\ ff' = [ff EXCEPT !.pid_list = @ \cup {clone_pid[p]}]
  /\ UNCHANGED <<tree, clone_pid, pc>>

SetPrime(p) ==
  /\ Probing(p, "prime", "untarget")
  /\ ff' = [ff EXCEPT !.p_prime = clone_pid[p]]
  /\ UNCHANGED <<tree, clone_pid, pc>>

(* Mutant: the target stays set.                                           *)
Untarget_Not(p) ==
  Probing(p, "untarget", "done") /\ UNCHANGED <<tree, ff, clone_pid, pc>>

Untarget(p) ==
  /\ Probing(p, "untarget", "done")
  /\ ff' = [ff EXCEPT !.target_pid = -1]
  /\ UNCHANGED <<tree, clone_pid, pc>>

SetDone(p) ==
  /\ Probing(p, "done", "wake")
  /\ ff' = [ff EXCEPT !.done = TRUE]
  /\ UNCHANGED <<tree, clone_pid, pc>>

(* Mutant: the caller is not woken.                                        *)
WakeCaller_Not(p) ==
  Probing(p, "wake", "user") /\ UNCHANGED <<tree, ff, clone_pid, pc>>

(* wake_up_interruptible(&wq)                                              *)
WakeCaller(p) ==
  /\ Probing(p, "wake", "user")
  /\ pc' = IF ff.wq /\ pc = "asleep" THEN "wait" ELSE pc
  /\ ff' = [ff EXCEPT !.wq = FALSE]
  /\ UNCHANGED <<tree, clone_pid>>

Probe(p) ==
  \/ AfterSchedule(p) \/ AddToList(p) \/ SetPrime(p) \/ Untarget(p)
  \/ SetDone(p) \/ WakeCaller(p)

-----------------------------------------------------------------------------
(* What the processes do of their own accord.                              *)

Fork(p) ==
  /\ p \in Forkers /\ life[p] = "alive" /\ probe[p] = "user"
  /\ p = Root => pc = "user"
  /\ \E c \in Pid : FreshPid(c) /\ NewChild(c, p, "alive", c)
  /\ UNCHANGED <<ff, prob, pc, walk, calls>>

(* p ends, and its children pass to init.  Bound: they are copies, and dfs *)
(* is not at them.  The parent does not wait for p: a zombie stays on the  *)
(* list of children.  What a copy does once it runs is left out.           *)
Ended(p) ==
  /\ life' = [life EXCEPT ![p] = "zombie"]
  /\ parent' = [c \in Pid |-> IF parent[c] = p THEN Outside ELSE parent[c]]

Exit(p) ==
  /\ p \in Exiters /\ life[p] = "alive" /\ probe[p] = "user" /\ ~IsCopy(p)
  /\ \A c \in Children(p) : IsCopy(c)
  /\ p = node => pc # "children"
  /\ Ended(p)
  /\ UNCHANGED <<origin, ff, prob, pc, walk, calls>>

(* The processes may run on without another call: that is not a deadlock.  *)
Rest == pc = "user" /\ UNCHANGED vars

Next ==
  \/ InitModule \/ CleanupModule \/ Call \/ Handler \/ Rest
  \/ \E p \in Pid : Probe(p) \/ Fork(p) \/ Exit(p)

Spec == Init /\ [][Next]_vars

(* The caller is scheduled, and so is every process that can run: it keeps *)
(* calling schedule(), and a fork that is tried again and again succeeds.  *)
FairSpec == Spec /\ WF_vars(Handler) /\ \A p \in Pid : WF_vars(Probe(p))

-----------------------------------------------------------------------------
(* Where the copy of p is, for TreeCopy.                                   *)
CopiesOf(p) == {c \in Pid : IsCopy(c) /\ origin[c] = p}

PlaceOf(p) ==
  IF CopiesOf(p) = {} THEN "none"
  ELSE IF \A c \in CopiesOf(p) : parent[c] = p THEN "beside"
  ELSE IF \A c \in CopiesOf(p) : parent[c] \in CopiesOf(Tree[p]) THEN "moved"
  ELSE "lost"

Started == \E c \in Pid : IsCopy(c) /\ life[c] # "new"

Original == {p \in Pid : Tree[p] # None}

TheCopy == INSTANCE TreeCopy
  WITH Node    <- Original,
       Up      <- [p \in Original |-> Tree[p]],
       place   <- [p \in Original |-> PlaceOf(p)],
       started <- Started,
       Mortal  <- Original \cap Exiters

-----------------------------------------------------------------------------
(* Properties.                                                             *)

(* When dfs has waited for p, p_prime is the copy of p that was made for   *)
(* this wait, and is still its child, or init's if p has ended since: an   *)
(* answer is never taken for the answer of another process.                *)
AnswerMatches ==
  pc = "reparent" => /\ ff.p_prime # None /\ life[ff.p_prime] = "new"
                     /\ origin[ff.p_prime] = node
                     /\ parent[ff.p_prime] = IF life[node] = "alive" THEN node ELSE Outside

(* A process is forked at most once in a call.                             *)
CopiedOnce ==
  \A c, d \in Pid : c # d /\ life[c] = "new" /\ life[d] = "new"
                     => origin[c] # origin[d]

(* Whose process had ended before dfs came to move it: init has it.        *)
Astray(c) == parent[c] = Outside /\ life[origin[c]] = "zombie"

(* "After reparenting": when the copy is about to start, every copy is     *)
(* below the copy of the parent of its original, and that of the root is a *)
(* child of the root.  Only a copy whose original has ended may be lost.   *)
TreeMirrored ==
  pc = "finish" =>
    \A c \in Pid : life[c] = "new" =>
      IF origin[c] = Root THEN parent[c] = Root
      ELSE \/ /\ parent[c] \in Pid /\ life[parent[c]] = "new"
              /\ origin[parent[c]] = parent[origin[c]]
           \/ Astray(c)

(* The call moves nothing but copies.                                      *)
OriginalsStay ==
  [][\A p \in Pid : life[p] # "free" /\ ~IsCopy(p) => parent'[p] = parent[p]]_vars

(* wait_event_interruptible(wq, done) and wake_up_interruptible(&wq) share *)
(* no lock with the probes: whenever the caller sleeps it is in the queue, *)
(* and somebody is still going to wake it: a probe that has set done and   *)
(* has not got to the wake-up, or, with done not set yet, the probe of the *)
(* node it waits for, under way or asked for by target_pid.                *)
NoLostWakeUp ==
  pc = "asleep" =>
    /\ ff.wq
    /\ IF ff.done THEN \E p \in Pid : probe[p] = "wake"
       ELSE \/ ff.target_pid = node
            \/ probe[node] \in {"add", "prime", "untarget", "done"}

(* The call returns, unless it waits for a process that has ended, whose   *)
(* probe never runs again, or no process can be made any more.             *)
CallReturns ==
  pc # "user" ~>
    pc = "user" \/ life[node] = "zombie" \/ \A c \in Pid : ~FreshPid(c)

(* Targets, answers, lists and reparenting amount to a copy of the tree    *)
(* from the leaves up that starts when it is complete.                     *)
ImplementsTreeCopy == TheCopy!Spec
=============================================================================
