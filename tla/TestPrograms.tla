---------------------------- MODULE TestPrograms ----------------------------
(***************************************************************************)
(* The test programs on a kernel with the full fork module inserted.  Of   *)
(* system call 548 this module keeps what a program can notice: that the   *)
(* process stops, whom the copy consists of, and that tracked_pid makes a  *)
(* full fork of any child of the process, whoever forked it.               *)
(*                                                                         *)
(* A process is named by its ancestry: Append(p, x) is the process that    *)
(* thread x of p forked, Append(p, Clone) the full fork of p.              *)
(***************************************************************************)
EXTENDS TestCases, Functions

CONSTANT
  Programs    (* the scripts of main that are run, one in each behaviour   *)

VARIABLES
  process,    (* process[p] for every process that was ever made:          *)
              (* state    "running", "zombie" or "gone";                   *)
              (* todo     what each thread that is alive has yet to do;    *)
              (* ending   its threads that are PF_EXITING;                 *)
              (* tids     the threads whose word in its memory is set: the *)
              (*          word that pthread_join waits on and the kernel   *)
              (*          clears when the thread is past PF_EXITING;       *)
              (* leader   the thread that it began with;                   *)
              (* phase    how far the system call of its leader has got;   *)
              (* hook     how far it is in my_pull_back, if it is new;     *)
              (* parent   its parent, init if that one has ended;          *)
              (* clone    it is the child of leader_clone();               *)
              (* flaw     what it lacks of the process that it is a copy of*)
  tracked     (* tracked_pid: the process whose children are taken for its *)
              (* full fork                                                 *)

vars == <<process, tracked>>

(* A copy is whole; or a thread of it could not be cloned; or a thread was *)
(* halfway between PF_EXITING and the clearing of its word; or the call was*)
(* mixed up with the fork of a thread or with another call.                *)
Flaws == {"whole", "partial", "halfway", "mixed"}

Main  == 0
Clone == 9

(* Neither is the name of a process.                                       *)
Nobody  == <<-1>>
TheInit == <<-2>>

NewProcess(parent, leader, threads, words, flaw) ==
  [state |-> "running", todo |-> threads, ending |-> {}, tids |-> words,
   leader |-> leader, phase |-> "out", hook |-> "tail", parent |-> parent,
   clone |-> FALSE, flaw |-> flaw]

(* One entry more: a thread that pthread_create adds, a process that fork  *)
(* adds.                                                                   *)
Extended(f, a, b) ==
  [z \in DOMAIN f \cup {a} |-> IF z \in DOMAIN f THEN f[z] ELSE b]

Only(a, b) == [z \in {a} |-> b]

Init ==
  /\ \E program \in Programs :
       process = Only(<<>>, [NewProcess(TheInit, Main, Only(Main, program), {}, "whole")
                               EXCEPT !.hook = "user"])
  /\ tracked = Nobody

-----------------------------------------------------------------------------
Process    == DOMAIN process
Threads(p) == DOMAIN process[p].todo
Rest(p, x) == process[p].todo[x]

IsChild(q, p) == process[q].parent = p

(* Thread x of p, which is not in the call and not stopped, goes on with   *)
(* the operation o.                                                        *)
Runs(p, x) ==
  /\ x \in Threads(p) /\ process[p].hook = "user"
  /\ process[p].phase \in {"out", "begun"}
  /\ x = process[p].leader => process[p].phase = "out"

Does(p, x, o) == Runs(p, x) /\ Rest(p, x) # <<>> /\ Head(Rest(p, x)).op = o

(* Bound: a thread forks, and a process makes the call, once at most.      *)
IsFirst(p, x) == Append(p, x) \notin Process

(* The process p when x has done its operation.                            *)
Done(p, x) == [process[p] EXCEPT !.todo[x] = Tail(@)]

Becomes(p, new) == process' = [process EXCEPT ![p] = new]

Without(threads, x) == Restrict(threads, DOMAIN threads \ {x})

-----------------------------------------------------------------------------
(* What the threads do.                                                    *)

Create(p, x) ==
  /\ Does(p, x, "create")
  /\ \E n \in Head(Rest(p, x)).who :
       Becomes(p, [Done(p, x) EXCEPT !.todo = Extended(@, n, Head(Rest(p, x)).body),
                                     !.tids = @ \cup {n}])

Join(p, x) ==
  /\ Does(p, x, "join") /\ Head(Rest(p, x)).who \cap process[p].tids = {}
  /\ Becomes(p, Done(p, x))

(* At any time that x is not stopped, also while its leader is in the call.*)
Fork(p, x) ==
  /\ Does(p, x, "fork") /\ IsFirst(p, x)
  /\ process' = Extended([process EXCEPT ![p] = Done(p, x)], Append(p, x),
                         NewProcess(p, x, Only(x, Head(Rest(p, x)).body), process[p].tids,
                                    IF process[p].flaw = "mixed" THEN "mixed" ELSE "whole"))

(* wait(NULL): some child has ended, be it a full fork, or there is none.  *)
Wait(p, x) ==
  /\ Does(p, x, "wait")
  /\ \/ /\ \A q \in Process : IsChild(q, p) => process[q].state = "gone"
        /\ Becomes(p, Done(p, x))
     \/ \E q \in Process :
          /\ IsChild(q, p) /\ process[q].state = "zombie"
          /\ process' = [process EXCEPT ![p] = Done(p, x), ![q].state = "gone"]

(* The end of a thread function.  That the word is cleared later matters   *)
(* only while the process is in a call.                                    *)
End(p, x) ==
  /\ Runs(p, x) /\ Rest(p, x) = <<>> /\ x # process[p].leader
  /\ Becomes(p, IF process[p].phase = "out"
                THEN [process[p] EXCEPT !.todo = Without(@, x), !.tids = @ \ {x}]
                ELSE [process[p] EXCEPT !.todo = Without(@, x),
                                        !.ending = @ \cup {x}])

(* mm_release(): the word is cleared and whoever joins is woken.           *)
ClearTid(p, x) ==
  /\ x \in process[p].ending
  /\ Becomes(p, [process[p] EXCEPT !.ending = @ \ {x}, !.tids = @ \ {x}])

(* exit(0), or main returns: the process ends, even if its main is in the  *)
(* call and waits for the stop.  Its children pass to init.                *)
Exit(p, x) ==
  /\ \/ Does(p, x, "exit")
     \/ Runs(p, x) /\ x = process[p].leader /\ Rest(p, x) = <<>>
  /\ process' =
       [q \in Process |->
          IF q = p
          THEN [process[p] EXCEPT
                  !.state = IF process[p].parent = TheInit THEN "gone" ELSE "zombie",
                  !.todo = <<>>, !.ending = {}, !.tids = {}, !.phase = "out"]
          ELSE IF IsChild(q, p)
          THEN [process[q] EXCEPT !.parent = TheInit,
                                  !.state = IF @ = "zombie" THEN "gone" ELSE @]
          ELSE process[q]]

Program(p, x) ==
  /\ \/ Create(p, x) \/ Join(p, x) \/ Fork(p, x) \/ Wait(p, x)
     \/ End(p, x) \/ ClearTid(p, x) \/ Exit(p, x)
  /\ UNCHANGED tracked

-----------------------------------------------------------------------------
(* System call 548, made by the thread the process began with.             *)

(* Alone in its process, the caller has nobody to stop.                    *)
Call(p) ==
  LET x == process[p].leader
  IN  /\ Does(p, x, "call") /\ IsFirst(p, Clone)
      /\ Becomes(p, [Done(p, x) EXCEPT
                       !.phase = IF Threads(p) = {x} THEN "frozen" ELSE "begun"])
      /\ tracked' = p

(* The siblings have stopped; or a thread that ended made the wait fail,   *)
(* and the process stays tracked.                                          *)
Stop(p) ==
  /\ process[p].phase = "begun"
  /\ \E next \in {"frozen", "out"} : Becomes(p, [process[p] EXCEPT !.phase = next])
  /\ UNCHANGED tracked


(* SIGCONT, and the return of the call.                                    *)
Thawed(p) == [process[p] EXCEPT !.phase = "out"]

(* leader_clone: the fork fails, or makes a child that has the leader only.*)
LeaderClone(p) ==
  /\ process[p].phase = "frozen"
  /\ \/ /\ Becomes(p, Thawed(p)) /\ tracked' = Nobody
     \/ /\ process' =
              Extended([process EXCEPT ![p].phase = "await"], Append(p, Clone),
                       [NewProcess(p, process[p].leader,
                                   Restrict(process[p].todo, {process[p].leader}),
                                   process[p].tids,
                                   IF process[p].flaw # "whole" THEN process[p].flaw
                                   ELSE IF process[p].ending # {} THEN "halfway"
                                   ELSE "whole")
                          EXCEPT !.clone = TRUE])
        /\ UNCHANGED tracked

(* wait_event(wq1, tracked_pid == -1), SIGCONT, return                     *)
Return(p) ==
  /\ process[p].phase = "await" /\ tracked = Nobody
  /\ Becomes(p, Thawed(p))
  /\ UNCHANGED tracked

-----------------------------------------------------------------------------
(* my_pull_back, in the new process q.                                     *)
CloneIsSet == \E r \in Process : process[r].hook = "build"

(* The child of a tracked process takes itself for its full fork, whichever*)
(* thread has forked it, unless another child is building; a full fork that*)
(* comes too late for it has the leader alone.                             *)
EnterPullBack(q) ==
  /\ process[q].hook = "tail"
  /\ IF IsChild(q, tracked) /\ ~CloneIsSet
       THEN Becomes(q, [process[q] EXCEPT
                          !.hook = "build", !.flaw = IF process[q].clone THEN @ ELSE "mixed"])
       ELSE Becomes(q, [process[q] EXCEPT
                          !.hook = "user", !.flaw = IF process[q].clone THEN "mixed" ELSE @])
  /\ UNCHANGED tracked

(* The threads of the parent of q, and the order in which next_thread()    *)
(* gives them, from the one that forked q.                                 *)
Alive(q)   == IF process[q].parent \in Process THEN Threads(process[q].parent) ELSE {}
Turn(q, y) == (y + 5 - process[q].leader) % 5

(* Mutant: the loop over the threads ends one thread early.                *)
ToClone_Early(q) ==
  {x \in Alive(q) \ {process[q].leader} : \E y \in Alive(q) : Turn(q, y) > Turn(q, x)}

(* The threads that q clones: PF_EXITING ones are skipped.                 *)
ToClone(q) == Alive(q) \ {process[q].leader}

(* What is left of S when the clone of one of its threads fails.           *)
UpToFailure(q, S) == {{y \in S : Turn(q, y) < Turn(q, x)} : x \in S}

(* The process that made q is in the call and waits for it.                *)
IsAwaited(q) ==
  process[q].parent \in Process /\ process[process[q].parent].phase = "await"

(* The loop over the threads, and what follows done.                       *)
Build(q) ==
  /\ process[q].hook = "build"
  /\ \E S \in {ToClone(q)} \cup UpToFailure(q, ToClone(q)) :
       Becomes(q, [process[q] EXCEPT
                     !.hook = "user",
                     !.todo = [y \in S \cup DOMAIN @ |->
                                 IF y \in DOMAIN @ THEN @[y] ELSE Rest(process[q].parent, y)],
                     !.flaw = IF ~IsAwaited(q) THEN "mixed"
                              ELSE IF @ = "whole" /\ S # ToClone(q) THEN "partial"
                              ELSE @])
  /\ tracked' = Nobody

System(p) ==
  \/ Call(p) \/ Stop(p) \/ LeaderClone(p) \/ Return(p) \/ EnterPullBack(p) \/ Build(p)

-----------------------------------------------------------------------------
(* A full fork that lacks threads may join one of them for ever.           *)
AllEnded ==
  \A p \in Process : process[p].state = "running" => process[p].flaw # "whole"

Step == \E p \in Process : System(p) \/ \E x \in 0 .. 4 : Program(p, x)

Next == Step \/ (AllEnded /\ UNCHANGED vars)

(* As long as anything can go on, something does.                          *)
Spec == Init /\ [][Next]_vars /\ WF_vars(Step)

-----------------------------------------------------------------------------
(* What the programs have in common.  Scripts holds every script that runs *)
(* and what is left of it after each of its operations, Joins[s] the       *)
(* threads that s, or a script it starts, joins.  Nobody forks a process   *)
(* that joins threads while his own process has threads: a fork copies the *)
(* words in memory and not the threads.                                    *)
ForksJoiner(s, Joins) ==
  \E i \in DOMAIN s : s[i].op = "fork" /\ Joins[s[i].body] # {}

Operations(Scripts) ==
  [op : {"create", "join", "fork", "wait", "exit", "call"},
   who : SUBSET Nat, body : Scripts]

Careful(Scripts, Ops, Joins) ==
  /\ Ops \subseteq Operations(Scripts)
  /\ Scripts \subseteq Seq(Ops)
  /\ Joins \in [Scripts -> SUBSET Nat]
  /\ \A s \in Scripts : \A i \in DOMAIN s :
       /\ s[i].op = "join" => s[i].who \subseteq Joins[s]
       /\ s[i].op \in {"create", "fork"} => Joins[s[i].body] \subseteq Joins[s]
  /\ \A s \in Scripts \ {<<>>} :
       /\ Tail(s) \in Scripts /\ Joins[Tail(s)] \subseteq Joins[s]
       /\ Head(s).op = "create" =>
            ~ForksJoiner(Tail(s), Joins) /\ ~ForksJoiner(Head(s).body, Joins)

-----------------------------------------------------------------------------
(* Properties.                                                             *)

(* The threads that x of p still has to join.                              *)
ToJoin(p, x) ==
  UNION {Rest(p, x)[i].who : i \in {j \in DOMAIN Rest(p, x) : Rest(p, x)[j].op = "join"}}

(* Nobody in p joins a thread that does not exist: whoever is to be joined *)
(* and has not ended can end.  A new process is built first.               *)
Joinees(p) ==
  process[p].hook = "user" =>
    \A x \in Threads(p) :
      ToJoin(p, x) \cap process[p].tids \subseteq Threads(p) \cup process[p].ending

(* A full fork, which inherits the words in memory and not the threads,    *)
(* joins no thread that does not exist, if it was made of a process in     *)
(* which nobody was about to end, has all its threads and is not mixed up  *)
(* with the child of a thread.                                             *)
JoineesExist == \A p \in Process : process[p].flaw = "whole" => Joinees(p)

(* The same of a full fork made while a thread was about to end ("clone    *)
(* only alive threads").                                                   *)
JoineesDespiteEnds ==
  \A p \in Process : process[p].flaw \in {"whole", "halfway"} => Joinees(p)

=============================================================================
