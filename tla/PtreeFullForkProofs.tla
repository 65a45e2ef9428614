-------------------------- MODULE PtreeFullForkProofs --------------------------
(***************************************************************************)
(* Theorems about PtreeFullFork that hold for every tree, however many     *)
(* threads its processes have and whichever of their copies fail.          *)
(***************************************************************************)
EXTENDS PtreeFullFork, FiniteSetTheorems, TLAPS

(* Whoever exists and is not the top has a parent that exists; who does not*)
(* exist runs nothing.                                                     *)
Rooted ==
  \A p \in Pid : /\ life[p] = "free" <=> parent[p] = None
                 /\ parent[p] = Outside => p = Top
                 /\ parent[p] \in Pid => life[parent[p]] # "free"
                 /\ life[p] = "free" => pc[p] = "user"

Probing(p) == pc[p] \in ProbePC

(* Whatever the globals and the probes name as a copy is one.              *)
CopiesKnown ==
  /\ ff.p_prime # None => IsCopy(ff.p_prime)
  /\ \A c \in ff.pid_list : IsCopy(c)
  /\ \A p \in Pid : Probing(p) => clone_pid[p] \in Pid /\ IsCopy(clone_pid[p])

(* The module stays while the manager is in its call.                      *)
TypeInv ==
  /\ TypeOK /\ Rooted /\ CopiesKnown /\ life[node] # "free"
  /\ manager # "idle" => ff.loaded

(* No step makes a process free, or a copy an original, or the reverse, or *)
(* moves an original.                                                      *)
Fixed ==
  \A p \in Pid : life[p] # "free" =>
    /\ life'[p] # "free" /\ origin'[p] = origin[p]
    /\ ~IsCopy(p) => parent'[p] = parent[p]

LEMMA CopiesStay ==
  ASSUME Fixed, NEW c \in Pid
  PROVE  /\ IsCopy(c) => IsCopy(c)'
         /\ life[c] # "free" /\ ~IsCopy(c) => ~IsCopy(c)'
BY DEF Fixed, IsCopy

-----------------------------------------------------------------------------
(* Steps that leave the tree alone.                                        *)
Still ==
  \/ InitModule \/ CleanupModule \/ SetEverythingDone \/ WakeCopies \/ Rest
  \/ Descend \/ Target \/ Wait \/ Return
  \/ \E p \in Pid : \/ Call(p) \/ PullBack(p)
                    \/ AddToPidList(p) \/ SetPrime(p) \/ Untarget(p)

LEMMA StillTree ==
  ASSUME Still
  PROVE  UNCHANGED <<parent, life, origin>>
BY DEF Still, InitModule, CleanupModule, SetEverythingDone, WakeCopies, Rest, Descend,
       Target, Wait, Return, Call, PullBack, EnterPullBack, TestClone, Claim, CloneThread, EndLoop,
       Done, WakeManager, Unclaim, Hold, AddToPidList, SetPrime, Untarget, tree, vars

LEMMA NextCases ==
  ASSUME Next
  PROVE  Still \/ MoveGrandchild \/ \E p \in Pid : BeforeSchedule(p)
BY DEF Next, Still, Manager, Probe

LEMMA InitTypeInv == Init => TypeInv
<1> SUFFICES ASSUME Init PROVE TypeInv
  OBVIOUS
<1>1. TypeOK
  <2>1. ProcessTypeOK /\ node \in Pid /\ threads \in [Pid -> Nat] /\ calls \in 0 .. MaxCalls
    BY TreeAssumption, WorkloadAssumption
    DEF Init, TreeInit, ProcessTypeOK, Pid, None, Outside
  <2>2. ff \in Globals
    BY DEF Init, Kernel, Globals
  <2>3. /\ pc \in [Pid -> ProbePC \cup PullBackPC \cup {"user"}]
        /\ clone_pid \in [Pid -> Pid \cup {None}]
        /\ manager \in ManagerPC /\ cursor \in Pid \cup {Outside}
        /\ release \in {"user", "wake"} /\ overtaken \in BOOLEAN
    BY DEF Init, ManagerPC
  <2> QED
    BY <2>1, <2>2, <2>3 DEF TypeOK
<1>2. Rooted
  BY TreeAssumption, WorkloadAssumption
  DEF Init, TreeInit, Rooted, Pid, None, Outside
<1>3. CopiesKnown /\ life[node] # "free"
  BY WorkloadAssumption
  DEF Init, TreeInit, CopiesKnown, Kernel, None, Outside, Probing, ProbePC
<1> QED
  BY <1>1, <1>2, <1>3 DEF TypeInv, Init

LEMMA StillType ==
  ASSUME TypeInv, Still
  PROVE  TypeOK'
<1> USE DEF TypeInv, TypeOK
<1>1. ProcessTypeOK'
  BY StillTree DEF ProcessTypeOK
<1>2. ff' \in Globals
  <2>1. CASE \E p \in Pid : AddToPidList(p) \/ SetPrime(p) \/ Untarget(p)
    BY <2>1 DEF AddToPidList, SetPrime, Untarget, Step, Globals, CopiesKnown, Probing,
                ProbePC
  <2>2. ASSUME NEW p \in Pid, PullBack(p) PROVE ff' \in Globals
    <3>1. CASE Hold(p)
      BY <3>1 DEF Hold, Globals
    <3>2. CASE Claim(p) \/ Unclaim(p)
      BY <3>2 DEF Claim, Unclaim, Globals
    <3>3. CASE CloneThread(p) \/ Done(p) \/ WakeManager(p)
      BY <3>3 DEF CloneThread, Done, WakeManager, Globals
    <3> QED
      BY <2>2, <3>1, <3>2, <3>3 DEF PullBack, EnterPullBack, TestClone, EndLoop
  <2>3. CASE InitModule \/ CleanupModule
    <3>1. CASE InitModule
      <4> DEFINE f == [ff EXCEPT !.loaded = TRUE, !.everything_done = FALSE]
      <4>1. f \in Globals
        BY DEF Globals
      <4>2. ff' = [f EXCEPT !.clone = FALSE, !.error_check = 0, !.queues = FALSE]
        BY <3>1 DEF InitModule, Globals
      <4> HIDE DEF f
      <4> QED
        BY <4>1, <4>2 DEF Globals
    <3>2. CASE CleanupModule
      BY <3>2 DEF CleanupModule, Globals
    <3> QED
      BY <2>3, <3>1, <3>2
  <2>4. CASE SetEverythingDone \/ WakeCopies
    BY <2>4 DEF SetEverythingDone, WakeCopies, Globals
  <2>5. CASE Target \/ Wait
    BY <2>5 DEF Target, Wait, Globals
  <2>6. CASE \E p \in Pid : Call(p)
    BY <2>6 DEF Call, Globals
  <2>7. CASE Rest \/ Descend \/ Return
    BY <2>7 DEF Rest, Descend, Return, vars
  <2> QED
    BY <2>1, <2>2, <2>3, <2>4, <2>5, <2>6, <2>7 DEF Still
<1>3. pc' \in [Pid -> ProbePC \cup PullBackPC \cup {"user"}]
  BY DEF Still, InitModule, CleanupModule, SetEverythingDone, WakeCopies, Rest, Descend,
         Target, Wait, Return, Call, PullBack, EnterPullBack, TestClone, Claim, CloneThread, EndLoop,
         Done, WakeManager, Unclaim, Hold, AddToPidList, SetPrime, Untarget, Step, Manage,
         ProbePC, PullBackPC, vars
<1>4. threads' \in [Pid -> Nat] /\ clone_pid' \in [Pid -> Pid \cup {None}]
  BY DEF Still, InitModule, CleanupModule, SetEverythingDone, WakeCopies, Rest, Descend,
         Target, Wait, Return, Call, PullBack, EnterPullBack, TestClone, Claim, CloneThread, EndLoop,
         Done, WakeManager, Unclaim, Hold, AddToPidList, SetPrime, Untarget, Step, Manage,
         vars
<1>5. node' \in Pid /\ cursor' \in Pid \cup {Outside} /\ life'[node'] # "free"
  <2>1. CASE Descend
    BY <2>1, StillTree DEF Descend, IsNextChild, Children, Rooted, Pid, None
  <2>2. CASE Return
    BY <2>2, StillTree DEF Return, Rooted, ProcessTypeOK, walk
  <2>3. CASE \E p \in Pid : Call(p)
    BY <2>3, StillTree, WorkloadAssumption DEF Call, walk
  <2> QED
    BY <2>1, <2>2, <2>3, StillTree
    DEF Still, InitModule, CleanupModule, SetEverythingDone, WakeCopies, Rest, Target, Wait,
        PullBack, EnterPullBack, TestClone, Claim, CloneThread, EndLoop, Done, WakeManager, Unclaim,
        Hold, AddToPidList, SetPrime, Untarget, Step, vars, walk
<1>6. manager' \in ManagerPC /\ release' \in {"user", "wake"} /\ calls' \in 0 .. MaxCalls
  BY WorkloadAssumption
  DEF Still, InitModule, CleanupModule, SetEverythingDone, WakeCopies, Rest, Descend,
      Target, Wait, Return, Call, PullBack, EnterPullBack, TestClone, Claim, CloneThread, EndLoop,
      Done, WakeManager, Unclaim, Hold, AddToPidList, SetPrime, Untarget, Step, Manage,
      ManagerPC, vars
<1>7. overtaken' \in BOOLEAN
  BY DEF Still, InitModule, CleanupModule, SetEverythingDone, WakeCopies, Rest, Descend,
         Target, Wait, Return, Call, PullBack, EnterPullBack, TestClone, Claim, CloneThread,
         EndLoop, Done, WakeManager, Unclaim, Hold, AddToPidList, SetPrime, Untarget, Step,
         vars
<1> QED
  BY <1>1, <1>2, <1>3, <1>4, <1>5, <1>6, <1>7

LEMMA StillTypeInv ==
  ASSUME TypeInv, Still
  PROVE  TypeInv' /\ Fixed
<1> USE DEF TypeInv
<1>1. UNCHANGED <<parent, life, origin>> /\ TypeOK'
  BY StillTree, StillType
<1>2. Fixed
  BY <1>1 DEF Fixed
<1>3. \A p \in Pid : life[p] = "free" => pc'[p] = "user"
  BY DEF Still, InitModule, CleanupModule, SetEverythingDone, WakeCopies, Rest, Descend,
         Target, Wait, Return, Call, PullBack, EnterPullBack, TestClone, Claim, CloneThread, EndLoop,
         Done, WakeManager, Unclaim, Hold, AddToPidList, SetPrime, Untarget, Step, Manage,
         Rooted, TypeOK, vars
<1>4. Rooted'
  BY <1>1, <1>3 DEF Rooted
<1>5. /\ \A p \in Pid : Probing(p)' => Probing(p) /\ clone_pid'[p] = clone_pid[p]
      /\ \A c \in ff'.pid_list : c \in ff.pid_list \/ \E p \in Pid : Probing(p) /\ c = clone_pid[p]
      /\ \/ ff'.p_prime = ff.p_prime
         \/ \E p \in Pid : Probing(p) /\ ff'.p_prime = clone_pid[p]
  <2>1. ASSUME NEW q \in Pid, AddToPidList(q) \/ SetPrime(q) \/ Untarget(q) PROVE <1>5!:
    BY <2>1 DEF AddToPidList, SetPrime, Untarget, Step, Probing, ProbePC, TypeOK, Globals
  <2>2. ASSUME NEW q \in Pid, PullBack(q) PROVE <1>5!:
    BY <2>2 DEF PullBack, EnterPullBack, TestClone, Claim, CloneThread, EndLoop, Done, WakeManager,
                Unclaim, Hold, Step, Probing, ProbePC, TypeOK, Globals
  <2>3. CASE \/ InitModule \/ CleanupModule \/ SetEverythingDone \/ WakeCopies \/ Rest
             \/ Descend \/ Target \/ Wait \/ Return \/ \E p \in Pid : Call(p)
    BY <2>3 DEF InitModule, CleanupModule, SetEverythingDone, WakeCopies, Rest, Descend,
                Target, Wait, Return, Call, Manage, Probing, ProbePC, TypeOK, Globals, vars
  <2> QED
    BY <2>1, <2>2, <2>3 DEF Still
<1>6. CopiesKnown'
  BY <1>1, <1>5 DEF CopiesKnown, IsCopy
<1>7. life'[node'] # "free"
  <2>1. CASE Descend
    BY <2>1, <1>1 DEF Descend, IsNextChild, Children, Rooted, TypeOK, Pid, None
  <2>2. CASE Return
    BY <2>2, <1>1 DEF Return, Rooted, TypeOK, ProcessTypeOK, walk
  <2>3. CASE \E p \in Pid : Call(p)
    BY <2>3, <1>1 DEF Call, walk
  <2> QED
    BY <1>1, <2>1, <2>2, <2>3
    DEF Still, InitModule, CleanupModule, SetEverythingDone, WakeCopies, Rest, Target, Wait,
        PullBack, EnterPullBack, TestClone, Claim, CloneThread, EndLoop, Done, WakeManager, Unclaim,
        Hold, AddToPidList, SetPrime, Untarget, Step, vars, walk
<1>8. manager' # "idle" => ff'.loaded
  BY DEF Still, InitModule, CleanupModule, SetEverythingDone, WakeCopies, Rest, Descend,
         Target, Wait, Return, Call, PullBack, EnterPullBack, TestClone, Claim, CloneThread, EndLoop,
         Done, WakeManager, Unclaim, Hold, AddToPidList, SetPrime, Untarget, Step, Manage,
         TypeOK, Globals, vars
<1> QED
  BY <1>1, <1>2, <1>4, <1>6, <1>7, <1>8

LEMMA MoveTypeInv ==
  ASSUME TypeInv, MoveGrandchild
  PROVE  TypeInv' /\ Fixed
<1> USE DEF TypeInv
<1>1. PICK g \in Pid : Movable(g) /\ Reparent(g, ff.p_prime)
  BY DEF MoveGrandchild
<1>2. /\ g \in ff.pid_list /\ IsCopy(g) /\ ff.p_prime \in Pid /\ IsCopy(ff.p_prime)
      /\ parent[g] \in Pid /\ parent[g] \notin ff.pid_list /\ parent[parent[g]] = node
  BY <1>1 DEF MoveGrandchild, Movable, Children, CopiesKnown, TypeOK, Globals
<1> QED
  BY <1>1, <1>2 DEF MoveGrandchild, Reparent, Manage, Fixed, Rooted, IsCopy, CopiesKnown,
                    ManagerPC, TypeOK, ProcessTypeOK, Probing, walk, Pid, None, Outside

LEMMA CopyTypeInv ==
  ASSUME TypeInv, NEW p \in Pid, BeforeSchedule(p)
  PROVE  TypeInv' /\ Fixed
<1> USE DEF TypeInv
<1>1. PICK c \in Pid : /\ FreshPid(c) /\ NewChild(c, p, "alive", p)
                       /\ pc' = [pc EXCEPT ![p] = "list", ![c] = "tail"]
                       /\ clone_pid' = [clone_pid EXCEPT ![p] = c]
  BY DEF BeforeSchedule, leader_clone
<1>2. life[c] = "free" /\ life[p] = "alive" /\ c # p
  BY <1>1 DEF BeforeSchedule, FreshPid
<1>3. /\ ProcessTypeOK' /\ life'[c] = "alive" /\ origin'[c] = p /\ parent'[c] = p
      /\ \A q \in Pid : q # c => /\ life'[q] = life[q] /\ origin'[q] = origin[q]
                                 /\ parent'[q] = parent[q]
  BY <1>1, <1>2 DEF NewChild, TypeOK, ProcessTypeOK
<1>4. /\ pc'[p] = "list" /\ pc'[c] = "tail" /\ clone_pid'[p] = c
      /\ \A q \in Pid : q # c /\ q # p => pc'[q] = pc[q] /\ clone_pid'[q] = clone_pid[q]
  BY <1>1, <1>2 DEF TypeOK
<1>5. Fixed
  BY <1>2, <1>3 DEF Fixed
<1>6. Rooted'
  BY <1>2, <1>3, <1>4 DEF Rooted, Pid, None, Outside
<1>7. UNCHANGED <<threads, ff, manager, walk, release, calls, overtaken>>
  BY DEF BeforeSchedule
<1>8. CopiesKnown'
  <2>1. \A q \in Pid : IsCopy(q) => IsCopy(q)'
    BY <1>2, <1>3 DEF IsCopy
  <2>2. IsCopy(c)'
    BY <1>2, <1>3 DEF IsCopy
  <2>3. ff.p_prime \in Pid \cup {None} /\ ff.pid_list \subseteq Pid
    BY DEF TypeOK, Globals
  <2>4. (ff.p_prime # None => IsCopy(ff.p_prime))'
    BY <1>3, <1>7, <2>1, <2>3 DEF CopiesKnown, IsCopy
  <2>5. (\A d \in ff.pid_list : IsCopy(d))'
    BY <1>7, <2>1, <2>3 DEF CopiesKnown
  <2>6. (\A q \in Pid : Probing(q) => clone_pid[q] \in Pid /\ IsCopy(clone_pid[q]))'
    <3> SUFFICES ASSUME NEW q \in Pid, Probing(q)'
                 PROVE  clone_pid'[q] \in Pid /\ IsCopy(clone_pid[q])'
      OBVIOUS
    <3>1. CASE q = p
      BY <1>4, <2>2, <3>1 DEF IsCopy
    <3>2. CASE q # p
      <4>1. q # c /\ Probing(q) /\ clone_pid'[q] = clone_pid[q]
        BY <1>4, <3>2 DEF Probing, ProbePC
      <4>2. clone_pid[q] \in Pid /\ IsCopy(clone_pid[q])
        BY <4>1 DEF CopiesKnown
      <4> QED
        BY <1>2, <1>3, <4>1, <4>2 DEF IsCopy
    <3> QED
      BY <3>1, <3>2
  <2> QED
    BY <2>4, <2>5, <2>6 DEF CopiesKnown
<1>9. pc' \in [Pid -> ProbePC \cup PullBackPC \cup {"user"}]
      /\ clone_pid' \in [Pid -> Pid \cup {None}]
  BY <1>1 DEF ProbePC, PullBackPC, TypeOK
<1> QED
  BY <1>2, <1>3, <1>5, <1>6, <1>7, <1>8, <1>9 DEF TypeOK, walk

LEMMA NextTypeInv ==
  ASSUME TypeInv, Next
  PROVE  TypeInv' /\ Fixed
BY NextCases, StillTypeInv, MoveTypeInv, CopyTypeInv

LEMMA StepTypeInv == TypeInv /\ [Next]_vars => TypeInv'
<1>1. ASSUME TypeInv, UNCHANGED vars PROVE TypeInv'
  BY <1>1 DEF TypeInv, TypeOK, ProcessTypeOK, Rooted, CopiesKnown, Probing, IsCopy, vars, tree,
              walk
<1> QED
  BY <1>1, NextTypeInv

(* Every variable keeps its type: the walk of the manager never leaves the *)
(* tree and no pointer to a copy dangles, even when the manager runs ahead *)
(* of the probe or the copies are released in the midst of its call.       *)
THEOREM TypeCorrect == Spec => []TypeOK
<1>1. TypeInv => TypeOK
  BY DEF TypeInv
<1> QED
  BY <1>1, InitTypeInv, StepTypeInv, PTL DEF Spec

-----------------------------------------------------------------------------
(* The conversation of the manager, the probe and the hook.                *)
Waiting == manager \in {"wait", "asleep"}

(* A copy that has not yet said tracked_pid = -1.                          *)
Untold == {"tail", "tail_flag", "claim", "loop", "done"}

(* c is the copy that the node has made of itself for this wait: the node  *)
(* has still to list, to publish and to be untargeted; c has still to take *)
(* itself for the leader's clone, to clone its threads and to say so.      *)
Talking(c) ==
  /\ c # node /\ life[c] # "free" /\ origin[c] = node /\ parent[c] = node
  /\ pc[node] \in ProbePC \cup {"user"} /\ pc[c] \notin ProbePC
  /\ Probing(node) => clone_pid[node] = c
  /\ ff.pid_to_fork = IF Probing(node) THEN node ELSE -1
  /\ pc[node] \in {"untarget", "user"} => ff.p_prime = c
  /\ ff.tracked_pid = IF pc[c] \in Untold THEN node ELSE -1
  /\ ff.clone <=> pc[c] \in {"loop", "done", "wake", "unclaim"}
  /\ pc[c] \notin Untold \ {"done"} /\ ff.error_check = 0 => threads[c] = threads[node]
  /\ \A q \in Pid : q # node /\ q # c => pc[q] \in {"user", "hold", "held"}

(* What the manager goes on with.                                          *)
Answer ==
  manager = "reparent" =>
    /\ ff.p_prime # None
    /\ origin[ff.p_prime] = node /\ parent[ff.p_prime] = node
    /\ ff.error_check = 0 => threads[ff.p_prime] = threads[node]

Protocol ==
  /\ \A p \in Pid : parent[p] # p
  /\ ~Waiting => Settled /\ ~ff.clone /\ ff.tracked_pid = -1 /\ ff.pid_to_fork = -1
  /\ Waiting => \/ Settled /\ ~ff.clone /\ ff.tracked_pid = node /\ ff.pid_to_fork = node
                \/ \E c \in Pid : Talking(c)
  /\ Answer

(* So it goes as long as the manager does not overtake.                    *)
Ordered == overtaken \/ Protocol

LEMMA InitProtocol == Init => Protocol
<1> SUFFICES ASSUME Init PROVE Protocol
  OBVIOUS
<1>1. \A p \in Pid : parent[p] # p
  BY TreeAssumption DEF Init, TreeInit, Pid, None, Outside
<1> QED
  BY <1>1 DEF Init, Kernel, Protocol, Waiting, Settled, Answer

(* The steps of the manager and of the two system calls.                   *)
LEMMA IdleProtocol ==
  ASSUME TypeInv, Protocol,
         \/ InitModule \/ CleanupModule \/ SetEverythingDone \/ Descend \/ Target \/ Return
         \/ \E p \in Pid : Call(p)
  PROVE  Protocol'
<1> USE DEF TypeInv
<1>1. UNCHANGED <<parent, life, origin, threads, pc, clone_pid>> /\ ff'.p_prime = ff.p_prime
  BY DEF InitModule, CleanupModule, SetEverythingDone, Descend, Target, Return, Call, Manage,
         tree, TypeOK, Globals
<1>2. CASE SetEverythingDone
  <2>1. /\ UNCHANGED <<manager, node>> /\ ff'.tracked_pid = ff.tracked_pid
        /\ ff'.pid_to_fork = ff.pid_to_fork /\ ff'.clone = ff.clone
        /\ ff'.error_check = ff.error_check
    BY <1>2 DEF SetEverythingDone, walk, TypeOK, Globals
  <2>2. \A c \in Pid : Talking(c) => Talking(c)'
    BY <1>1, <2>1 DEF Talking, Untold, Probing
  <2> QED
    BY <1>1, <2>1, <2>2 DEF Protocol, Waiting, Settled, Answer
<1>3. CASE InitModule \/ CleanupModule \/ Return \/ Descend \/ \E p \in Pid : Call(p)
  <2>1. ~Waiting /\ manager' \in {"idle", "children"}
    BY <1>3 DEF InitModule, CleanupModule, Return, Descend, Call, Manage, Waiting, TypeOK
  <2>2. ~ff'.clone /\ ff'.tracked_pid = -1 /\ ff'.pid_to_fork = -1
    BY <1>3, <2>1 DEF InitModule, CleanupModule, Return, Descend, Call, Protocol, TypeOK,
                      Globals
  <2> QED
    BY <1>1, <2>1, <2>2 DEF Protocol, Waiting, Settled, Answer
<1>4. CASE Target
  <2>1. /\ ~Waiting /\ Waiting' /\ manager' # "reparent" /\ node' = node
        /\ ff'.clone = ff.clone /\ ff'.tracked_pid = node /\ ff'.pid_to_fork = node
    BY <1>4 DEF Target, Manage, Waiting, walk, TypeOK, Globals
  <2> QED
    BY <1>1, <2>1 DEF Protocol, Settled, Answer
<1> QED
  BY <1>2, <1>3, <1>4

(* The manager goes on with everything that was said in this wait.         *)
LEMMA WaitProtocol ==
  ASSUME ~overtaken', TypeInv, Protocol, Wait
  PROVE  Protocol'
<1> USE DEF TypeInv
<1>1. /\ Waiting
      /\ UNCHANGED <<parent, life, origin, threads, pc, clone_pid, node>>
      /\ ff'.p_prime = ff.p_prime /\ ff'.tracked_pid = ff.tracked_pid
      /\ ff'.pid_to_fork = ff.pid_to_fork /\ ff'.clone = ff.clone
      /\ ff'.error_check = ff.error_check
  BY DEF Wait, Manage, Waiting, tree, walk, TypeOK, Globals
<1>2. CASE manager' = "asleep"
  <2>1. \A c \in Pid : Talking(c) => Talking(c)'
    BY <1>1 DEF Talking, Untold, Probing
  <2> QED
    BY <1>1, <1>2, <2>1 DEF Protocol, Waiting, Settled, Answer
<1>3. CASE manager' # "asleep"
  <2>1. manager' = "reparent" /\ ff.tracked_pid = -1 /\ Settled
    BY <1>3 DEF Wait, Manage
  <2>2. PICK c \in Pid : Talking(c)
    BY <1>1, <2>1 DEF Protocol, TypeOK, Pid
  <2>3. pc[node] = "user" /\ pc[c] \in {"user", "hold", "held"}
    BY <2>1, <2>2 DEF Settled, Talking, Untold, ProbePC, TypeOK
  <2>4. ff.pid_to_fork = -1 /\ ~ff.clone /\ ff.p_prime = c
        /\ (ff.error_check = 0 => threads[c] = threads[node])
    BY <2>2, <2>3 DEF Talking, Untold, Probing, ProbePC
  <2>5. Answer'
    BY <1>1, <2>2, <2>4 DEF Answer, Talking, Pid, None
  <2> QED
    BY <1>1, <2>1, <2>4, <2>5 DEF Protocol, Waiting, Settled
<1> QED
  BY <1>2, <1>3

LEMMA MoveProtocol ==
  ASSUME TypeInv, Protocol, MoveGrandchild
  PROVE  Protocol'
<1> USE DEF TypeInv
<1>1. PICK g \in Pid : Movable(g) /\ Reparent(g, ff.p_prime)
  BY DEF MoveGrandchild
<1>2. /\ manager = "reparent" /\ manager' = manager
      /\ UNCHANGED <<ff, pc, clone_pid, threads, node, life, origin>>
  BY <1>1 DEF MoveGrandchild, Manage, Reparent, walk
<1>3. /\ ff.p_prime \in Pid /\ parent[ff.p_prime] = node
      /\ parent[g] # node
  BY <1>1, <1>2 DEF Movable, Children, Protocol, Answer, TypeOK, Globals
<1>4. parent'[ff.p_prime] = node /\ \A p \in Pid : parent'[p] # p
  BY <1>1, <1>3 DEF Reparent, Protocol, TypeOK, ProcessTypeOK
<1> QED
  BY <1>2, <1>4 DEF Protocol, Waiting, Settled, Answer

(* A copy is made for the node, in the wait for it, and only once.         *)
LEMMA CopyProtocol ==
  ASSUME TypeInv, Protocol, NEW p \in Pid, BeforeSchedule(p)
  PROVE  Protocol'
<1> USE DEF TypeInv
<1>1. PICK c \in Pid : /\ FreshPid(c) /\ NewChild(c, p, "alive", p)
                       /\ pc' = [pc EXCEPT ![p] = "list", ![c] = "tail"]
                       /\ clone_pid' = [clone_pid EXCEPT ![p] = c]
  BY DEF BeforeSchedule, leader_clone
<1>2. /\ life[c] = "free" /\ life[p] = "alive" /\ c # p /\ pc[p] = "user"
      /\ ff.pid_to_fork = p /\ p # -1 /\ UNCHANGED <<ff, threads, manager, node>>
  BY <1>1 DEF BeforeSchedule, FreshPid, walk, Pid
<1>3. /\ Waiting /\ p = node /\ Settled /\ ~ff.clone /\ ff.tracked_pid = node
  <2>1. Waiting
    BY <1>2 DEF Protocol
  <2>2. \A d \in Pid : ~Talking(d)
    BY <1>2 DEF Talking, Untold, Probing, ProbePC
  <2> QED
    BY <1>2, <2>1, <2>2 DEF Protocol
<1>4. /\ life'[c] = "alive" /\ origin'[c] = p /\ parent'[c] = p
      /\ \A q \in Pid : parent'[q] # q
      /\ pc'[p] = "list" /\ pc'[c] = "tail" /\ clone_pid'[p] = c
      /\ \A q \in Pid : q # c /\ q # p => pc'[q] = pc[q]
  BY <1>1, <1>2 DEF NewChild, Protocol, TypeOK, ProcessTypeOK
<1>5. Talking(c)'
  BY <1>2, <1>3, <1>4 DEF Talking, Untold, Probing, ProbePC, Settled
<1> QED
  BY <1>2, <1>3, <1>4, <1>5 DEF Protocol, Waiting, Answer

(* What the probe and the hook say is about the copy of the node.          *)
LEMMA ProbeProtocol ==
  ASSUME TypeInv, Protocol, NEW p \in Pid, AddToPidList(p) \/ SetPrime(p) \/ Untarget(p)
  PROVE  Protocol'
<1> USE DEF TypeInv
<1>1. /\ UNCHANGED <<parent, life, origin, threads, clone_pid, node, manager>> /\ Probing(p)
      /\ ff'.tracked_pid = ff.tracked_pid /\ ff'.clone = ff.clone
      /\ ff'.error_check = ff.error_check
      /\ \A q \in Pid : q # p => pc'[q] = pc[q]
  BY DEF AddToPidList, SetPrime, Untarget, Step, Probing, ProbePC, tree, walk, TypeOK, Globals
<1>2. Waiting /\ ~Settled
  BY <1>1 DEF Protocol, Settled, Probing, ProbePC
<1>3. PICK c \in Pid : Talking(c)
  BY <1>2 DEF Protocol
<1>4. p = node
  BY <1>1, <1>3 DEF Talking, Untold, Probing, ProbePC
<1>5. \/ /\ pc[p] = "list" /\ pc'[p] = "prime" /\ ff'.p_prime = ff.p_prime
         /\ ff'.pid_to_fork = ff.pid_to_fork
      \/ /\ pc[p] = "prime" /\ pc'[p] = "untarget" /\ ff'.p_prime = clone_pid[p]
         /\ ff'.pid_to_fork = ff.pid_to_fork
      \/ /\ pc[p] = "untarget" /\ pc'[p] = "user" /\ ff'.p_prime = ff.p_prime
         /\ ff'.pid_to_fork = -1
  BY DEF AddToPidList, SetPrime, Untarget, Step, TypeOK, Globals
<1>6. Talking(c)'
  BY <1>1, <1>3, <1>4, <1>5 DEF Talking, Untold, Probing, ProbePC
<1> QED
  BY <1>1, <1>2, <1>6 DEF Protocol, Waiting, Answer

LEMMA PullBackProtocol ==
  ASSUME TypeInv, Protocol, NEW p \in Pid, PullBack(p), ~Hold(p)
  PROVE  Protocol'
<1> USE DEF TypeInv
<1>1. /\ UNCHANGED <<parent, life, origin, clone_pid, node>>
      /\ ff'.pid_to_fork = ff.pid_to_fork /\ ff'.p_prime = ff.p_prime
      /\ pc[p] \in Untold \cup {"wake", "unclaim"}
      /\ \A q \in Pid : q # p => pc'[q] = pc[q] /\ threads'[q] = threads[q]
  BY DEF PullBack, EnterPullBack, TestClone, Claim, CloneThread, EndLoop, Done, WakeManager,
         Unclaim, Step, tree, walk, Untold, TypeOK, Globals
<1>2. Waiting /\ ~Settled
  BY <1>1 DEF Protocol, Settled, Untold
<1>3. PICK c \in Pid : Talking(c)
  BY <1>2 DEF Protocol
<1>4. p = c
  BY <1>1, <1>3 DEF Talking, Untold, ProbePC
<1>5. Waiting'
  BY <1>2 DEF PullBack, EnterPullBack, TestClone, Claim, CloneThread, EndLoop, Done, WakeManager,
              Unclaim, Waiting
<1>6. UNCHANGED pc[node] /\ threads'[node] = threads[node]
  BY <1>1, <1>3, <1>4 DEF Talking, TypeOK
<1>7. /\ pc'[p] \notin ProbePC
      /\ ff'.tracked_pid = IF pc'[p] \in Untold THEN node ELSE -1
      /\ ff'.clone <=> pc'[p] \in {"loop", "done", "wake", "unclaim"}
      /\ pc'[p] \notin Untold \ {"done"} /\ ff'.error_check = 0
           => threads'[p] = threads[node]
  <2>1. CASE EnterPullBack(p)
    <3>1. ff.loaded /\ parent[p] = ff.tracked_pid
      BY <1>2, <1>3, <1>4, <2>1 DEF EnterPullBack, Step, Talking, Untold, Waiting
    <3> QED
      BY <1>3, <1>4, <2>1, <3>1 DEF EnterPullBack, Step, Talking, Untold, ProbePC, TypeOK
  <2>5. CASE TestClone(p)
    BY <1>3, <1>4, <2>5 DEF TestClone, Step, Talking, Untold, ProbePC, TypeOK
  <2>2. CASE Claim(p) \/ Done(p) \/ Unclaim(p)
    BY <1>3, <1>4, <2>2 DEF Claim, Done, Unclaim, Step, Talking, Untold, ProbePC, TypeOK, Globals
  <2>3. CASE CloneThread(p)
    BY <1>3, <1>4, <2>3 DEF CloneThread, Step, Talking, Untold, ProbePC, TypeOK, Globals
  <2>4. CASE EndLoop(p) \/ WakeManager(p)
    BY <1>3, <1>4, <2>4 DEF EndLoop, WakeManager, Step, Talking, Untold, ProbePC, TypeOK, Globals
  <2> QED
    BY <2>1, <2>2, <2>3, <2>4, <2>5 DEF PullBack
<1>8. Talking(c)'
  BY <1>1, <1>3, <1>4, <1>6, <1>7 DEF Talking, Untold, Probing
<1>9. Answer'
  BY <1>5 DEF Answer, Waiting
<1> QED
  BY <1>1, <1>5, <1>8, <1>9 DEF Protocol

(* Copies that wait for system call 548, or are released by it.            *)
LEMMA HoldProtocol ==
  ASSUME TypeInv, Protocol, WakeCopies \/ \E p \in Pid : Hold(p)
  PROVE  Protocol'
<1> USE DEF TypeInv
<1>1. /\ UNCHANGED <<parent, life, origin, threads, clone_pid, node, manager>>
      /\ ff'.tracked_pid = ff.tracked_pid /\ ff'.clone = ff.clone
      /\ ff'.error_check = ff.error_check /\ ff'.pid_to_fork = ff.pid_to_fork
      /\ ff'.p_prime = ff.p_prime
      /\ \A q \in Pid : \/ pc'[q] = pc[q]
                        \/ pc[q] \in {"hold", "held"} /\ pc'[q] \in {"user", "hold", "held"}
  BY DEF WakeCopies, Hold, Step, tree, walk, TypeOK, Globals
<1>2. Settled => Settled'
  BY <1>1 DEF Settled
<1>3. \A c \in Pid : Talking(c) => Talking(c)'
  <2> SUFFICES ASSUME NEW c \in Pid, Talking(c) PROVE Talking(c)'
    OBVIOUS
  <2>1. pc'[node] = pc[node]
    BY <1>1 DEF Talking, Untold, ProbePC, TypeOK
  <2>2. \/ pc'[c] = pc[c]
        \/ pc[c] \in {"hold", "held"} /\ pc'[c] \in {"user", "hold", "held"}
    BY <1>1
  <2>3. \A q \in Pid : q # node /\ q # c => pc'[q] \in {"user", "hold", "held"}
    BY <1>1 DEF Talking
  <2> QED
    BY <1>1, <2>1, <2>2, <2>3 DEF Talking, Untold, Probing, ProbePC
<1> QED
  BY <1>1, <1>2, <1>3 DEF Protocol, Waiting, Answer

LEMMA NextProtocol ==
  ASSUME TypeInv, Protocol, Next, ~overtaken'
  PROVE  Protocol'
<1>1. CASE Rest
  BY <1>1 DEF Rest, Protocol, Waiting, Settled, Talking, Untold, Probing, Answer, vars, tree, walk
<1> QED
  BY <1>1, IdleProtocol, WaitProtocol, MoveProtocol, CopyProtocol, ProbeProtocol,
     PullBackProtocol, HoldProtocol
  DEF Next, Manager, Probe, PullBack

(* What has been overtaken stays so.                                       *)
LEMMA OvertakenStays ==
  ASSUME TypeInv, [Next]_vars, overtaken
  PROVE  overtaken'
BY DEF Next, InitModule, CleanupModule, SetEverythingDone, WakeCopies, Rest, Manager, Descend,
       Target, Wait, MoveGrandchild, Return, Call, Probe, BeforeSchedule, AddToPidList,
       SetPrime, Untarget, PullBack, EnterPullBack, TestClone, Claim, CloneThread, EndLoop,
       Done, WakeManager, Unclaim, Hold, Step, vars

LEMMA NextOrdered == TypeInv /\ Ordered /\ [Next]_vars => Ordered'
<1> SUFFICES ASSUME TypeInv, Ordered, [Next]_vars, ~overtaken' PROVE Protocol'
  BY DEF Ordered
<1>1. Protocol
  BY OvertakenStays DEF Ordered
<1>2. CASE UNCHANGED vars
  BY <1>1, <1>2 DEF Protocol, Waiting, Settled, Talking, Untold, Probing, Answer, vars, tree, walk
<1> QED
  BY <1>1, <1>2, NextProtocol

(* When the manager goes on from a process it has the copy of that process,*)
(* with all its threads unless one failed: in every tree, in every call,   *)
(* wherever system call 548 falls, up to the first time that it overtakes  *)
(* the statements that follow the one that wakes it.                       *)
THEOREM AnswersMatch == Spec => []AnswerMatches
<1>1. Ordered => AnswerMatches
  BY DEF Ordered, Protocol, Answer, AnswerMatches
<1>2. Init => Ordered
  BY InitProtocol DEF Ordered
<1> QED
  BY <1>1, <1>2, InitTypeInv, StepTypeInv, NextOrdered, PTL DEF Spec

-----------------------------------------------------------------------------
(* The manager is in the queue when it sleeps, and a copy that has said    *)
(* tracked_pid = -1 is about to wake it.                                   *)
Coming ==
  /\ Waiting => ff.tracked_pid \in {-1, node}
  /\ manager = "asleep" => ff.wq1 /\ (ff.tracked_pid = -1 => \E c \in Pid : pc[c] = "wake")

LEMMA ComingTells ==
  ASSUME TypeInv, Ordered, Coming
  PROVE  NoLostWakeUp
<1> USE DEF TypeInv
<1> SUFFICES ASSUME manager = "asleep", ff.tracked_pid # -1, ~overtaken, ff.pid_to_fork # node
             PROVE  \E c \in Pid :
                      /\ origin[c] = node
                      /\ \/ pc[c] \in {"claim", "loop", "done"}
                         \/ pc[c] \in {"tail", "tail_flag"} /\ parent[c] = node /\ ~ff.clone
  BY DEF NoLostWakeUp, Coming, Waiting
<1>1. PICK c \in Pid : Talking(c)
  BY DEF Ordered, Protocol, Waiting
<1>2. pc[c] \in Untold
  BY <1>1 DEF Talking
<1> QED
  BY <1>1, <1>2 DEF Talking, Untold

(* tracked_pid names the node that the manager waits for until it is -1.   *)
LEMMA NextTracked ==
  ASSUME TypeInv, Coming, [Next]_vars
  PROVE  Waiting' => ff'.tracked_pid \in {-1, node'}
<1> USE DEF TypeInv, TypeOK
<1>1. CASE Target
  BY <1>1 DEF Target, walk, Globals
<1>2. CASE InitModule \/ CleanupModule \/ Descend \/ MoveGrandchild \/ Return
             \/ \E p \in Pid : Call(p)
  BY <1>2 DEF InitModule, CleanupModule, Descend, MoveGrandchild, Return, Call, Manage, Waiting
<1>3. CASE UNCHANGED vars \/ Wait \/ SetEverythingDone \/ WakeCopies
             \/ \E p \in Pid : Probe(p) \/ PullBack(p)
  <2>1. UNCHANGED node /\ (Waiting' => Waiting)
    BY <1>3 DEF Wait, SetEverythingDone, WakeCopies, Probe, BeforeSchedule, AddToPidList,
                SetPrime, Untarget, PullBack, EnterPullBack, TestClone, Claim, CloneThread,
                EndLoop, Done, WakeManager, Unclaim, Hold, Step, Manage, Waiting, vars, walk
  <2>2. ff'.tracked_pid = ff.tracked_pid \/ ff'.tracked_pid = -1
    BY <1>3 DEF Wait, SetEverythingDone, WakeCopies, Probe, BeforeSchedule, AddToPidList,
                SetPrime, Untarget, PullBack, EnterPullBack, TestClone, Claim, CloneThread,
                EndLoop, Done, WakeManager, Unclaim, Hold, Step, Manage, vars, Globals
  <2> QED
    BY <2>1, <2>2 DEF Coming
<1> QED
  BY <1>1, <1>2, <1>3 DEF Next, Manager, Rest

LEMMA NextComing ==
  TypeInv /\ Coming /\ [Next]_vars => Coming'
<1> SUFFICES ASSUME TypeInv, Coming, [Next]_vars, manager' = "asleep"
             PROVE  ff'.wq1 /\ (ff'.tracked_pid = -1 => \E c \in Pid : pc'[c] = "wake")
  BY NextTracked DEF Coming
<1> USE DEF TypeInv
<1>0. ASSUME manager = "asleep", ff'.wq1 = ff.wq1, ff'.tracked_pid = ff.tracked_pid,
             \A c \in Pid : pc[c] = "wake" => pc'[c] = "wake"
      PROVE  ff'.wq1 /\ (ff'.tracked_pid = -1 => \E c \in Pid : pc'[c] = "wake")
  BY <1>0 DEF Coming
<1>1. CASE Wait
  BY <1>1 DEF Wait, Manage, TypeOK, Globals
<1>2. CASE InitModule \/ CleanupModule \/ \E p \in Pid : Call(p)
  BY <1>2 DEF InitModule, CleanupModule, Call
<1>3. CASE Descend \/ Target \/ MoveGrandchild \/ Return
  BY <1>3 DEF Descend, Target, MoveGrandchild, Return, Manage
<1>4. CASE SetEverythingDone \/ WakeCopies
  BY <1>0, <1>4 DEF SetEverythingDone, WakeCopies, TypeOK, Globals
<1>5. ASSUME NEW p \in Pid, BeforeSchedule(p)
      PROVE  ff'.wq1 /\ (ff'.tracked_pid = -1 => \E c \in Pid : pc'[c] = "wake")
  <2>1. PICK c \in Pid : leader_clone(c, p) /\ pc' = [pc EXCEPT ![p] = "list", ![c] = "tail"]
    BY <1>5 DEF BeforeSchedule
  <2>2. pc[p] = "user" /\ pc[c] = "user" /\ manager' = manager /\ ff' = ff
    BY <1>5, <2>1 DEF BeforeSchedule, leader_clone, FreshPid, Rooted
  <2> QED
    BY <1>0, <2>1, <2>2 DEF TypeOK
<1>6. ASSUME NEW p \in Pid, \/ AddToPidList(p) \/ SetPrime(p) \/ Untarget(p)
                           \/ EnterPullBack(p) \/ TestClone(p) \/ Claim(p) \/ EndLoop(p)
                           \/ Unclaim(p) \/ Hold(p) \/ CloneThread(p)
      PROVE  ff'.wq1 /\ (ff'.tracked_pid = -1 => \E c \in Pid : pc'[c] = "wake")
  <2>1. manager' = manager /\ pc[p] # "wake" /\ \A q \in Pid : q # p => pc'[q] = pc[q]
    BY <1>6 DEF AddToPidList, SetPrime, Untarget, EnterPullBack, TestClone, Claim, EndLoop, Unclaim,
                Hold, CloneThread, TestClone, Step, TypeOK
  <2>2. ff'.wq1 = ff.wq1 /\ ff'.tracked_pid = ff.tracked_pid
    BY <1>6 DEF AddToPidList, SetPrime, Untarget, EnterPullBack, TestClone, Claim, EndLoop, Unclaim,
                Hold, CloneThread, TestClone, TypeOK, Globals
  <2> QED
    BY <1>0, <2>1, <2>2
<1>7. ASSUME NEW p \in Pid, Done(p) \/ WakeManager(p)
      PROVE  ff'.wq1 /\ (ff'.tracked_pid = -1 => \E c \in Pid : pc'[c] = "wake")
  <2>1. CASE Done(p)
    BY <2>1 DEF Done, Step, Coming, TypeOK, Globals
  <2>2. CASE WakeManager(p)
    BY <2>2 DEF WakeManager, Coming
  <2> QED
    BY <1>7, <2>1, <2>2
<1>8. CASE UNCHANGED vars
  BY <1>0, <1>8 DEF vars
<1> QED
  BY <1>1, <1>2, <1>3, <1>4, <1>5, <1>6, <1>7, <1>8 DEF Next, Manager, Probe, PullBack, Rest

(* Whichever of the manager, the probe and the copy goes first, the manager*)
(* does not sleep on with nobody left to wake it: in every tree, in every  *)
(* call, wherever system call 548 falls.                                   *)
THEOREM WakeUpIsComing == Spec => []NoLostWakeUp
<1>1. Init => Coming /\ Ordered
  BY InitProtocol DEF Init, Coming, Waiting, Ordered
<1>2. TypeInv /\ Ordered /\ Coming => NoLostWakeUp
  BY ComingTells
<1> QED
  BY <1>1, <1>2, InitTypeInv, StepTypeInv, NextOrdered, NextComing, PTL DEF Spec

-----------------------------------------------------------------------------
(* One call.  The frames of the walk and what it has already walked are not*)
(* variables of the model: the proofs carry them as two sets that exist in *)
(* every state.                                                            *)
OneCall == MaxCalls \in {0, 1}

(* Before the first call nobody is in a probe or in my_pull_back: that call*)
(* alone initialises wq2, when no copy can be in it.                       *)
Calm ==
  calls = 0 =>
    manager = "idle" /\ ff.pid_to_fork = -1 /\ \A p \in Pid : pc[p] = "user"

LEMMA CalmCall ==
  ASSUME OneCall, TypeInv, Calm, NEW p \in Pid, Call(p)
  PROVE  calls = 0 /\ calls' = 1
BY DEF OneCall, Call, TypeInv, TypeOK

LEMMA NextCalm ==
  ASSUME OneCall, TypeInv, Calm, [Next]_vars
  PROVE  Calm'
<1> USE DEF TypeInv, TypeOK
<1>1. CASE \E p \in Pid : Call(p)
  BY <1>1, CalmCall DEF Calm
<1>2. CASE InitModule \/ CleanupModule
  BY <1>2 DEF InitModule, CleanupModule, Calm, Globals
<1>3. CASE Manager
  <2>1. manager # "idle" /\ calls' = calls
    BY <1>3 DEF Manager, Descend, Target, Wait, MoveGrandchild, Return, Manage
  <2> QED
    BY <2>1 DEF Calm
<1>4. CASE \E p \in Pid : Probe(p) \/ PullBack(p)
  <2>1. PICK p \in Pid : Probe(p) \/ PullBack(p)
    BY <1>4
  <2>2. calls' = calls /\ (pc[p] # "user" \/ ff.pid_to_fork = p)
    BY <2>1 DEF Probe, BeforeSchedule, AddToPidList, SetPrime, Untarget, PullBack,
                EnterPullBack, TestClone, Claim, CloneThread, EndLoop, Done, WakeManager, Unclaim,
                Hold, Step
  <2> QED
    BY <2>2 DEF Calm, Pid
<1>5. CASE SetEverythingDone \/ WakeCopies
  <2>1. /\ UNCHANGED <<calls, manager>> /\ ff'.pid_to_fork = ff.pid_to_fork
        /\ \A p \in Pid : pc[p] = "user" => pc'[p] = "user"
    BY <1>5 DEF SetEverythingDone, WakeCopies, Globals
  <2> QED
    BY <2>1 DEF Calm
<1>6. CASE UNCHANGED vars
  BY <1>6 DEF vars, Calm
<1> QED
  BY <1>1, <1>2, <1>3, <1>4, <1>5, <1>6 DEF Next, Rest

LEMMA NextNoCopyForgotten ==
  ASSUME OneCall, TypeInv, Calm, NoCopyForgotten, [Next]_vars
  PROVE  NoCopyForgotten'
<1> SUFFICES ASSUME NEW c \in Pid, pc'[c] = "held"
             PROVE  c \in ff'.wq2 /\ (ff'.everything_done => release' = "wake")
  BY DEF NoCopyForgotten
<1> USE DEF TypeInv, TypeOK
<1>0. ASSUME pc[c] = "held", c \in ff'.wq2, ff'.everything_done => ff.everything_done,
             release' = release
      PROVE  c \in ff'.wq2 /\ (ff'.everything_done => release' = "wake")
  BY <1>0 DEF NoCopyForgotten
<1>1. CASE \E p \in Pid : Call(p)
  BY <1>1, CalmCall DEF Call, Calm
<1>2. CASE InitModule \/ CleanupModule
  BY <1>0, <1>2 DEF InitModule, CleanupModule, NoCopyForgotten, Globals
<1>3. CASE Manager
  <2>1. /\ UNCHANGED <<pc, release>> /\ ff'.wq2 = ff.wq2
        /\ ff'.everything_done = ff.everything_done
    BY <1>3 DEF Manager, Descend, Target, Wait, MoveGrandchild, Return, Manage, Globals
  <2> QED
    BY <1>0, <2>1 DEF NoCopyForgotten
<1>4. ASSUME NEW p \in Pid, Probe(p) \/ (PullBack(p) /\ ~Hold(p))
      PROVE  c \in ff'.wq2 /\ (ff'.everything_done => release' = "wake")
  <2>1. /\ release' = release /\ ff'.wq2 = ff.wq2
        /\ ff'.everything_done = ff.everything_done
    BY <1>4 DEF Probe, BeforeSchedule, AddToPidList, SetPrime, Untarget, PullBack,
                EnterPullBack, TestClone, Claim, CloneThread, EndLoop, Done, WakeManager, Unclaim,
                Step, Globals
  <2>2. pc[c] = "held"
    <3>1. CASE BeforeSchedule(p)
      BY <3>1 DEF BeforeSchedule
    <3>2. CASE AddToPidList(p) \/ SetPrime(p) \/ Untarget(p) \/ (PullBack(p) /\ ~Hold(p))
      BY <3>2 DEF AddToPidList, SetPrime, Untarget, PullBack, EnterPullBack, TestClone, Claim,
                  CloneThread, EndLoop, Done, WakeManager, Unclaim, Step
    <3> QED
      BY <1>4, <3>1, <3>2 DEF Probe
  <2> QED
    BY <1>0, <2>1, <2>2 DEF NoCopyForgotten
<1>5. ASSUME NEW p \in Pid, Hold(p)
      PROVE  c \in ff'.wq2 /\ (ff'.everything_done => release' = "wake")
  <2>1. /\ release' = release /\ ff'.everything_done = ff.everything_done
        /\ pc[c] = "held" \/ p = c
        /\ p = c => ~ff.everything_done /\ c \in ff'.wq2
        /\ p # c /\ c \in ff.wq2 => c \in ff'.wq2
    BY <1>5 DEF Hold, Step, Globals
  <2> QED
    BY <1>0, <2>1 DEF NoCopyForgotten
<1>6. CASE SetEverythingDone
  BY <1>6 DEF SetEverythingDone, NoCopyForgotten, Globals
<1>7. CASE WakeCopies
  BY <1>7 DEF WakeCopies, NoCopyForgotten
<1>8. CASE UNCHANGED vars
  BY <1>0, <1>8 DEF vars, NoCopyForgotten
<1> QED
  BY <1>1, <1>2, <1>3, <1>4, <1>5, <1>6, <1>7, <1>8 DEF Next, Rest

(* In one call of the manager and any number of system calls 548 made at   *)
(* any time, even in its midst, no copy stays asleep on wq2 for good: one  *)
(* that misses the wake-up has read everything_done.                       *)
THEOREM CopiesAreNotForgotten ==
  ASSUME OneCall
  PROVE  Spec => []NoCopyForgotten
<1>1. Init => Calm /\ NoCopyForgotten
  BY DEF Init, Kernel, Calm, NoCopyForgotten
<1>2. TypeInv /\ Calm /\ NoCopyForgotten /\ [Next]_vars => Calm' /\ NoCopyForgotten'
  BY NextCalm, NextNoCopyForgotten
<1> QED
  BY <1>1, <1>2, InitTypeInv, StepTypeInv, PTL DEF Spec


Walking == manager # "idle"
Aimed   == manager \in {"wait", "asleep", "reparent"}

(* Originals stay where they are, and all others are copies.               *)
Home ==
  /\ parent[Top] = Outside
  /\ \A p \in Original : ~IsCopy(p) /\ parent[p] = Tree[p]
  /\ \A p \in Pid : life[p] # "free" => IsCopy(p) \/ p \in Original

(* Whoever is on the path of the open frames is below the top.             *)
Linked(path) ==
  \A S \in SUBSET path :
    Top \in S /\ (\A p \in path : p # Top /\ parent[p] \in S => p \in S) => S = path

(* seen: the processes that the manager has set as its target; path: those *)
(* of its open frames.  The path leads from the top to the node, one child *)
(* at each level; behind it, by pid, all has been seen, ahead of it and of *)
(* the cursor nothing, and the parent of what has been seen is on the path *)
(* or has been seen itself.                                                *)
Frames(seen, path) ==
  /\ \A p \in seen \cup path : p \in Pid /\ life[p] # "free" /\ ~IsCopy(p)
  /\ Walking => Top \in path /\ node \in path /\ Linked(path)
  /\ Aimed => node \in seen
  /\ \A p \in path : p = Top \/ parent[p] \in path
  /\ Walking => \A p \in path : parent[p] # node
  /\ \A p, q \in path : p # Top /\ q # Top /\ parent[p] = parent[q] => p = q
  /\ \A p \in seen : p = Top \/ parent[p] \in seen \cup path
  /\ Walking => \A p \in seen \cap path : p = node /\ Aimed
  /\ ~Walking => \A p \in seen : p = Top \/ parent[p] \in seen

Ahead(seen, path) ==
  /\ \A p \in path : p # Top =>
       \A c \in Pid : parent[c] = parent[p] /\ c > p => c \notin seen
  /\ manager = "children" => \A c \in Pid : parent[c] = node /\ c > cursor => c \notin seen

Behind(seen, path) ==
  /\ \A p \in path : p # Top =>
       \A c \in Original : Tree[c] = parent[p] /\ c < p => c \in seen
  /\ manager = "children" => \A c \in Original : Tree[c] = node /\ c =< cursor => c \in seen
  /\ \A p \in seen : \A c \in Original : Tree[c] = p => c \in seen
  /\ ~Walking /\ seen # {} => Top \in seen

Walk(seen, path) == Frames(seen, path) /\ Ahead(seen, path) /\ Behind(seen, path)

(* Each copy is of a process that has been a target, hangs below one or    *)
(* below another copy, and is the only one of its process.                 *)
Once(seen) ==
  /\ \A c \in Pid : IsCopy(c) =>
       origin[c] \in seen /\ (parent[c] \in seen \/ (parent[c] \in Pid /\ IsCopy(parent[c])))
  /\ \A c, d \in Pid : IsCopy(c) /\ IsCopy(d) /\ origin[c] = origin[d] => c = d
  /\ ff.pid_to_fork # -1 =>
       /\ ff.pid_to_fork \in seen
       /\ (\E c \in Pid : IsCopy(c) /\ origin[c] = ff.pid_to_fork) => Probing(ff.pid_to_fork)
  /\ calls = 0 => seen = {} /\ ~Walking

(* Where a copy is: beside its original until the parent of that one has   *)
(* had its turn, then below the copy of the parent.  The manager can tell  *)
(* it from an original, as it is in pid_list; the probe that has still to  *)
(* add it is that of the node, for which the manager waits.                *)
Listed(c) == c \in ff.pid_list \/ \E p \in Pid : pc[p] = "list" /\ clone_pid[p] = c

Past(seen, q) == q \in seen /\ (q = node => ~Aimed)

MovedNow(c) == manager = "reparent" /\ parent[origin[c]] = node /\ parent[c] = ff.p_prime

Placed(seen, c) ==
  /\ origin[c] = Top => parent[c] = Top
  /\ origin[c] # Top =>
       IF Past(seen, parent[origin[c]])
       THEN /\ parent[c] \in Pid /\ IsCopy(parent[c])
            /\ origin[parent[c]] = parent[origin[c]]
       ELSE parent[c] = origin[c] \/ MovedNow(c)

Mirror(seen) == \A c \in Pid : IsCopy(c) => Listed(c) /\ Placed(seen, c)

(* Who has been a target has a copy, but for the node that is waited for.  *)
Complete(seen) ==
  \A p \in seen : (\E c \in Pid : IsCopy(c) /\ origin[c] = p) \/ (p = node /\ Waiting)

(* Until the manager is done no copy is released.                          *)
Silent ==
  /\ Walking => ~ff.everything_done /\ \A c \in Pid : IsCopy(c) => pc[c] # "user"
  /\ calls = 0 => ~ff.everything_done /\ ~ff.queues

(* What holds even if the manager has overtaken probes and copies: a copy  *)
(* that has still to say tracked_pid = -1 is that of the node the manager  *)
(* waits for, and when it has said so it stands, with its threads unless   *)
(* one failed; a process that has no copy and is to fork is that node.     *)
CopyStands ==
  \E c \in Pid : /\ IsCopy(c) /\ origin[c] = node
                 /\ ff.error_check = 0 => threads[c] = threads[node]

Tracking ==
  /\ \A c \in Pid : pc[c] \in Untold =>
       /\ Waiting /\ ff.tracked_pid = node /\ IsCopy(c) /\ origin[c] = node
       /\ pc[c] = "done" /\ ff.error_check = 0 => threads[c] = threads[node]
  /\ (Waiting /\ ff.tracked_pid = -1) \/ manager = "reparent" => CopyStands
  /\ ff.pid_to_fork # -1 /\ (\A c \in Pid : IsCopy(c) => origin[c] # ff.pid_to_fork) =>
       Waiting /\ ff.pid_to_fork = node /\ ff.tracked_pid = node

(* Where the copies are, and that none is released, is known up to the     *)
(* first time that the manager overtakes.                                  *)
MirrorInv ==
  /\ Home /\ Tracking
  /\ \E seen, path \in SUBSET Pid :
       /\ Walk(seen, path) /\ Once(seen) /\ Complete(seen)
       /\ ~overtaken => Mirror(seen)
       /\ ~overtaken /\ Patient => Silent

-----------------------------------------------------------------------------
(* Every non-empty set of numbers has a least one: among the sets of what  *)
(* lies under a member there is one that has no proper subset.             *)
LEMMA Least ==
  ASSUME NEW S, S \subseteq Nat, S # {}
  PROVE  \E m \in S : \A n \in S : m =< n
<1> DEFINE Under(n) == {k \in S : k < n}
           R == StrictSubsetOrdering(S)
<1>0. \A n \in S : n \in Nat
  OBVIOUS
<1>1. \A n \in S : Under(n) \in FiniteSubsetsOf(S)
  <2> SUFFICES ASSUME NEW n \in S PROVE IsFiniteSet(Under(n))
    BY DEF FiniteSubsetsOf
  <2>1. IsFiniteSet(0 .. n)
    BY FS_Interval
  <2>2. ASSUME NEW k \in S, k < n PROVE k \in 0 .. n
    BY <1>0, <2>2
  <2> QED
    BY <2>1, <2>2, FS_Subset
<1>2. PICK m \in S : \A n \in S : <<Under(n), Under(m)>> \notin R
  <2> DEFINE T == {Under(n) : n \in S}
  <2>1. IsWellFoundedOn(R, FiniteSubsetsOf(S))
    BY FS_StrictSubsetOrderingWellFounded
  <2>2. T \subseteq FiniteSubsetsOf(S) /\ T # {}
    BY <1>1
  <2>3. \E x \in T : \A y \in T : <<y, x>> \notin R
    <3> HIDE DEF T, R
    <3> QED
      BY <2>1, <2>2, WFMin
  <2> QED
    BY <2>3
<1>3. ASSUME NEW n \in S, n < m PROVE FALSE
  <2>0. n \in Nat /\ m \in Nat
    BY <1>0
  <2>1. /\ \A k \in S : k < n => k < m
        /\ n < m /\ ~(n < n)
    <3>1. ASSUME NEW k \in S, k < n PROVE k < m
      <4>1. k \in Nat
        BY <1>0
      <4> QED
        BY <1>3, <2>0, <3>1, <4>1
    <3> QED
      BY <1>3, <2>0, <3>1
  <2>2. /\ Under(n) \in SUBSET S /\ Under(m) \in SUBSET S
        /\ Under(n) \subseteq Under(m) /\ Under(n) # Under(m)
    BY <2>1
  <2>3. <<Under(n), Under(m)>> \in R
    <3> HIDE DEF Under
    <3> QED
      BY <2>2 DEF StrictSubsetOrdering
  <2> QED
    BY <1>2, <2>3
<1> QED
  BY <1>0, <1>3

LEMMA StepFixed ==
  ASSUME TypeInv, [Next]_vars
  PROVE  Fixed /\ \A c \in Pid : life[c] # "free" => (IsCopy(c)' <=> IsCopy(c))
<1>1. Fixed
  <2>1. CASE UNCHANGED vars
    BY <2>1 DEF Fixed, vars, tree
  <2> QED
    BY <2>1, NextTypeInv
<1> QED
  BY <1>1, CopiesStay

LEMMA NextHome ==
  ASSUME TypeInv, Home, [Next]_vars
  PROVE  Home'
<1>1. \A p \in Original : p \in Pid /\ Tree[p] # None
  BY DEF Original
<1>2. Top \in Original
  BY WorkloadAssumption DEF Original, Outside, None
<1>3. \A p \in Original : life[p] # "free"
  BY <1>1 DEF Home, TypeInv, Rooted
<1>4. ASSUME NEW p \in Pid, life[p] = "free", life'[p] # "free" PROVE IsCopy(p)'
  <2>1. PICK q \in Pid : BeforeSchedule(q)
    BY <1>4, NextCases, StillTree DEF MoveGrandchild, Reparent, vars, tree
  <2>2. PICK c \in Pid : FreshPid(c) /\ NewChild(c, q, "alive", q) /\ life[q] = "alive"
    BY <2>1 DEF BeforeSchedule, leader_clone
  <2> QED
    BY <1>4, <2>2 DEF NewChild, FreshPid, IsCopy, TypeInv, TypeOK, ProcessTypeOK
<1> QED
  BY <1>1, <1>2, <1>3, <1>4, StepFixed DEF Home, Fixed

(* The walk does not notice a step that leaves the frame of the manager.   *)
LEMMA WalkKept ==
  ASSUME TypeInv, [Next]_vars, NEW seen \in SUBSET Pid, NEW path \in SUBSET Pid,
         Walk(seen, path), UNCHANGED walk, manager' = manager \/ (Aimed /\ Aimed')
  PROVE  Walk(seen, path)'
<1>1. \A p \in seen \cup path : /\ p \in Pid /\ life[p] # "free" /\ ~IsCopy(p)
                                /\ life'[p] # "free" /\ ~IsCopy(p)' /\ parent'[p] = parent[p]
  BY StepFixed DEF Walk, Frames, Fixed
<1>2. (Walking' <=> Walking) /\ (Aimed' <=> Aimed) /\ UNCHANGED <<node, cursor>>
  BY DEF Walking, Aimed, walk
<1>3. Frames(seen, path)'
  <2>1. Linked(path) => Linked(path)'
    BY <1>1 DEF Linked
  <2> QED
    BY <1>1, <1>2, <2>1 DEF Walk, Frames
<1>4. Ahead(seen, path)'
  BY <1>1, <1>2 DEF Walk, Ahead, Aimed
<1>5. Behind(seen, path)'
  BY <1>1, <1>2 DEF Walk, Behind, Aimed
<1> QED
  BY <1>3, <1>4, <1>5 DEF Walk

(* The steps of the walk, which leave the tree alone.                      *)
LEMMA CallWalk ==
  ASSUME TypeInv, Home, NEW p \in Pid, Call(p)
  PROVE  \E path \in SUBSET Pid : Walk({}, path)'
<1>1. UNCHANGED <<parent, life, origin>> /\ manager = "idle"
  BY DEF Call, tree
<1>2. CASE manager' = "idle"
  <2>1. Frames({}, {})' /\ Ahead({}, {})' /\ Behind({}, {})'
    BY <1>2 DEF Frames, Ahead, Behind, Walking, Aimed
  <2> QED
    BY <2>1 DEF Walk
<1>3. CASE manager' # "idle"
  <2>1. manager' = "children" /\ node' = Top /\ cursor' = Outside
    BY <1>1, <1>3 DEF Call
  <2>2. life[Top] # "free" /\ ~IsCopy(Top) /\ Top \in Pid /\ Tree[Top] = Outside
    BY WorkloadAssumption DEF Home, Original, TypeInv, Rooted, Outside, None
  <2>3. Frames({}, {Top})'
    <3>1. Linked({Top})'
      BY DEF Linked
    <3> QED
      BY <1>1, <2>1, <2>2, <3>1 DEF Frames, Walking, Aimed, Home, IsCopy, Pid, Outside
  <2>4. Ahead({}, {Top})' /\ Behind({}, {Top})'
    BY <2>1 DEF Ahead, Behind, Original, Pid, Outside, Walking
  <2> QED
    BY <2>2, <2>3, <2>4 DEF Walk
<1> QED
  BY <1>2, <1>3

LEMMA DescendWalk ==
  ASSUME TypeInv, Home, NEW seen \in SUBSET Pid, NEW path \in SUBSET Pid, Walk(seen, path),
         Once(seen), Descend
  PROVE  \E below \in SUBSET Pid : Walk(seen, below)'
<1> USE DEF Walk
<1>1. PICK c \in Pid : IsNextChild(node, cursor, c) /\ node' = c
  BY DEF Descend
<1>2. /\ manager = "children" /\ manager' = "children" /\ cursor' = Outside
      /\ UNCHANGED <<parent, life, origin>>
  BY DEF Descend, Manage, tree
<1>3. /\ parent[c] = node /\ c > cursor /\ \A d \in Pid : parent[d] = node /\ d > cursor => c =< d
      /\ node \in path /\ Top \in path
  BY <1>1, <1>2 DEF IsNextChild, Children, Frames, Walking
<1>4. c # Top /\ c \notin seen /\ c \notin path /\ node \notin seen
  BY <1>2, <1>3 DEF Home, Ahead, Frames, Walking, Aimed, Pid, Outside
<1>5. life[c] # "free" /\ ~IsCopy(c) /\ ~IsCopy(node)
  BY <1>3, <1>4 DEF TypeInv, Rooted, Once, Frames, Pid, None
<1> DEFINE below == path \cup {c}
<1>6. Frames(seen, below)'
  <2>1. \A p \in below : p # Top => parent[p] \in path
    BY <1>3 DEF Frames
  <2>2. \A p \in below : parent[p] # c
    BY <1>4, <2>1 DEF Home, Pid, Outside
  <2>3. \A p \in path : parent[p] # node
    BY <1>2 DEF Frames, Walking
  <2>4. \A p, q \in below : p # Top /\ q # Top /\ parent[p] = parent[q] => p = q
    BY <1>3, <2>3 DEF Frames
  <2>5. seen \cap below = {}
    BY <1>2, <1>4 DEF Frames, Walking, Aimed
  <2>6. Linked(below)
    <3> SUFFICES ASSUME NEW S \in SUBSET below, Top \in S,
                        \A p \in below : p # Top /\ parent[p] \in S => p \in S
                 PROVE  S = below
      BY DEF Linked
    <3>1. Linked(path)
      BY <1>2 DEF Frames, Walking
    <3>2. \A p \in path : p # Top /\ parent[p] \in S \cap path => p \in S \cap path
      OBVIOUS
    <3>3. S \cap path = path
      BY <1>3, <3>1, <3>2 DEF Linked
    <3> QED
      BY <1>3, <1>4, <3>3
  <2>7. Linked(below)'
    BY <1>2, <2>6 DEF Linked
  <2> QED
    BY <1>1, <1>2, <1>3, <1>5, <2>1, <2>2, <2>4, <2>5, <2>7 DEF Frames, Walking, Aimed, IsCopy
<1>7. Ahead(seen, below)'
  <2>1. \A d \in Pid : parent[d] = node /\ d > c => d \notin seen
    BY <1>2, <1>3 DEF Ahead, TypeInv, TypeOK, Pid, Outside
  <2>2. \A d \in Pid : parent[d] = c => d \notin seen
    BY <1>2, <1>4 DEF Frames, Home, Pid, Outside
  <2> QED
    BY <1>1, <1>2, <1>3, <2>1, <2>2 DEF Ahead
<1>8. Behind(seen, below)'
  <2>1. \A d \in Original : Tree[d] = node /\ d < c => d \in seen
    <3> SUFFICES ASSUME NEW d \in Original, Tree[d] = node, d < c PROVE d \in seen
      OBVIOUS
    <3>1. d \in Pid /\ parent[d] = node
      BY DEF Original, Home
    <3>2. d =< cursor
      BY <1>3, <3>1 DEF TypeInv, TypeOK, Pid, Outside
    <3> QED
      BY <1>2, <3>2 DEF Behind
  <2>2. \A d \in Original : ~(d =< Outside)
    BY DEF Original, Pid, Outside
  <2> QED
    BY <1>1, <1>2, <1>3, <2>1, <2>2 DEF Behind, Walking
<1> QED
  BY <1>6, <1>7, <1>8

LEMMA TargetWalk ==
  ASSUME TypeInv, Home, NEW seen \in SUBSET Pid, NEW path \in SUBSET Pid, Walk(seen, path),
         Target
  PROVE  node \in Pid /\ node \notin seen /\ Walk(seen \cup {node}, path)'
<1> USE DEF Walk
<1>1. /\ manager = "children" /\ manager' = "wait"
      /\ UNCHANGED <<parent, life, origin, node, cursor>>
  BY DEF Target, Manage, tree, walk
<1>2. /\ node \in path /\ node \in Pid /\ node \notin seen /\ seen \cap path = {}
      /\ life[node] # "free" /\ ~IsCopy(node)
  BY <1>1 DEF Frames, Walking, Aimed
<1>3. Frames(seen \cup {node}, path)'
  BY <1>1, <1>2 DEF Frames, Linked, Walking, Aimed, IsCopy
<1>4. Ahead(seen \cup {node}, path)'
  <2> SUFFICES ASSUME NEW p \in path, p # Top, NEW c \in Pid, parent[c] = parent[p], c > p,
                      c = node
               PROVE  FALSE
    BY <1>1 DEF Ahead
  <2>1. parent[p] \in Pid
    BY DEF Frames
  <2>2. node # Top
    BY <2>1 DEF Home, Pid, Outside
  <2>3. p = node
    BY <1>2, <2>2 DEF Frames
  <2> QED
    BY <2>3 DEF Pid
<1>5. \A c \in Original : Tree[c] = node => c \in seen
  <2> SUFFICES ASSUME NEW c \in Original, Tree[c] = node, c \notin seen PROVE FALSE
    OBVIOUS
  <2> DEFINE later == {d \in Pid : parent[d] = node /\ d > cursor}
  <2>1. c \in later
    BY <1>1 DEF Behind, Original, Home, TypeInv, TypeOK, Pid, Outside
  <2>2. \E d \in later : \A e \in later : d =< e
    <3> HIDE DEF later
    <3>1. later \subseteq Nat
      BY DEF later, Pid
    <3> QED
      BY <2>1, <3>1, Least
  <2> QED
    BY <2>2 DEF Target, IsNextChild, Children
<1>6. Behind(seen \cup {node}, path)'
  BY <1>1, <1>2, <1>5 DEF Behind, Walking
<1> QED
  BY <1>2, <1>3, <1>4, <1>6

(* The manager goes up to the parent of its node, or is done.              *)
LEMMA ReturnWalk ==
  ASSUME TypeInv, Home, NEW seen \in SUBSET Pid, NEW path \in SUBSET Pid, Walk(seen, path),
         Return
  PROVE  \E above \in SUBSET Pid : Walk(seen, above)'
<1> USE DEF Walk
<1>1. /\ manager = "reparent" /\ UNCHANGED <<parent, life, origin>>
      /\ node \in seen /\ node \in path /\ Top \in path
      /\ \A p \in path : parent[p] # node
      /\ \A p \in seen \cap path : p = node
  BY DEF Return, Manage, tree, Frames, Walking, Aimed
<1>2. CASE node = Top
  <2>1. manager' = "idle" /\ UNCHANGED <<node, cursor>>
    BY <1>2 DEF Return, Manage, walk
  <2>2. path = {Top}
    <3>1. {Top} \in SUBSET path /\ Linked(path)
      BY <1>1 DEF Frames, Walking
    <3>2. \A p \in path : p # Top /\ parent[p] \in {Top} => p \in {Top}
      BY <1>1, <1>2
    <3> QED
      BY <3>1, <3>2 DEF Linked
  <2>3. Frames(seen, path)'
    BY <1>1, <1>2, <2>1, <2>2 DEF Frames, Walking, Aimed, IsCopy
  <2>4. Ahead(seen, path)' /\ Behind(seen, path)'
    BY <1>1, <1>2, <2>1 DEF Ahead, Behind
  <2> QED
    BY <2>3, <2>4
<1>3. CASE node # Top
  <2>1. manager' = "children" /\ node' = parent[node] /\ cursor' = node
    BY <1>3 DEF Return, Manage
  <2>0. PICK above \in SUBSET Pid : above = path \ {node}
    OBVIOUS
  <2> USE <2>0
  <2>2. parent[node] \in above /\ Top \in above /\ parent[node] \in Pid
    BY <1>1, <1>3 DEF Frames
  <2>3. Frames(seen, above)'
    <3>1. \A p \in above : p # Top => parent[p] \in above
      BY <1>1 DEF Frames
    <3>2. \A p \in above : parent[p] # parent[node]
      <4> SUFFICES ASSUME NEW p \in above, parent[p] = parent[node] PROVE FALSE
        OBVIOUS
      <4>1. p # Top
        BY <2>2 DEF Home, Pid, Outside
      <4> QED
        BY <1>1, <1>3, <4>1 DEF Frames
    <3>3. seen \cap above = {}
      BY <1>1
    <3>4. \A p \in seen : p = Top \/ parent[p] \in seen \cup above
      BY <1>1 DEF Frames
    <3>5. /\ above \subseteq path
          /\ \A p \in seen \cup above : p \in Pid /\ life[p] # "free" /\ ~IsCopy(p)
          /\ \A p, q \in above : p # Top /\ q # Top /\ parent[p] = parent[q] => p = q
      BY DEF Frames
    <3>6. \A p \in Pid : IsCopy(p)' <=> IsCopy(p)
      BY <1>1 DEF IsCopy
    <3>7. Linked(above)
      <4> SUFFICES ASSUME NEW S \in SUBSET above, Top \in S,
                          \A p \in above : p # Top /\ parent[p] \in S => p \in S
                   PROVE  S = above
        BY DEF Linked
      <4>1. Linked(path) /\ S \cup {node} \in SUBSET path
        BY <1>1 DEF Frames, Walking
      <4>2. \A p \in path : p # Top /\ parent[p] \in S \cup {node} => p \in S \cup {node}
        BY <1>1
      <4>3. S \cup {node} = path
        BY <4>1, <4>2 DEF Linked
      <4> QED
        BY <4>3
    <3>8. Linked(above)'
      BY <1>1, <3>7 DEF Linked
    <3> QED
      BY <1>1, <2>1, <2>2, <3>1, <3>2, <3>3, <3>4, <3>5, <3>6, <3>8 DEF Frames, Walking, Aimed
  <2>4. Ahead(seen, above)'
    BY <1>1, <1>3, <2>1 DEF Ahead
  <2>5. Behind(seen, above)'
    <3>1. \A c \in Original : Tree[c] = parent[node] /\ c =< node => c \in seen
      <4> SUFFICES ASSUME NEW c \in Original, Tree[c] = parent[node], c =< node, c # node
                   PROVE  c \in seen
        BY <1>1
      <4>1. c < node
        BY DEF Original, Pid, TypeInv, TypeOK
      <4> QED
        BY <1>1, <1>3, <4>1 DEF Behind
    <3> QED
      BY <1>1, <2>1, <3>1 DEF Behind, Walking
  <2> QED
    BY <2>3, <2>4, <2>5
<1> QED
  BY <1>2, <1>3

(* The steps that are not of the walk.                                     *)
LEMMA WalkStays ==
  ASSUME TypeInv, NEW seen \in SUBSET Pid, NEW path \in SUBSET Pid, Walk(seen, path),
         [Next]_vars, \A p \in Pid : ~Call(p), ~Descend, ~Target, ~Return
  PROVE  Walk(seen, path)'
<1>1. UNCHANGED walk
  BY DEF Next, InitModule, CleanupModule, SetEverythingDone, WakeCopies, Rest, Manager, Wait,
         MoveGrandchild, Probe, BeforeSchedule, AddToPidList, SetPrime, Untarget, PullBack,
         EnterPullBack, TestClone, Claim, CloneThread, EndLoop, Done, WakeManager, Unclaim, Hold, Step,
         vars, walk
<1>2. manager' = manager \/ (Aimed /\ Aimed')
  BY DEF Next, InitModule, CleanupModule, SetEverythingDone, WakeCopies, Rest, Manager, Wait,
         Manage, MoveGrandchild, Probe, BeforeSchedule, AddToPidList, SetPrime, Untarget,
         PullBack, EnterPullBack, TestClone, Claim, CloneThread, EndLoop, Done, WakeManager, Unclaim,
         Hold, vars, Aimed
<1> QED
  BY <1>1, <1>2, WalkKept

-----------------------------------------------------------------------------
(* The target of a step: what it adds to seen.                             *)
Turn(seen, more) ==
  (Target => more = seen \cup {node}) /\ (~Target => more = seen)

(* Steps that make no copy: all but those of BeforeSchedule.               *)
LEMMA SameCopies ==
  ASSUME TypeInv, [Next]_vars, \A p \in Pid : ~BeforeSchedule(p), NEW c \in Pid
  PROVE  /\ IsCopy(c)' <=> IsCopy(c)
         /\ origin'[c] = origin[c]
         /\ parent'[c] = parent[c]
              \/ (IsCopy(c) /\ parent'[c] \in Pid /\ IsCopy(parent[c])')
<1> USE DEF TypeInv
<1>1. CASE MoveGrandchild
  <2>1. PICK g \in Pid : g \in ff.pid_list /\ Reparent(g, ff.p_prime)
    BY <1>1 DEF MoveGrandchild, Movable
  <2>2. ff.p_prime \in Pid /\ IsCopy(ff.p_prime) /\ IsCopy(g)
    BY <1>1, <2>1 DEF MoveGrandchild, CopiesKnown, TypeOK, Globals
  <2>3. IsCopy(ff.p_prime)' /\ UNCHANGED ff
    BY <1>1, <2>1, <2>2 DEF MoveGrandchild, Reparent, IsCopy
  <2> QED
    BY <2>1, <2>2, <2>3 DEF Reparent, IsCopy, TypeOK, ProcessTypeOK
<1>2. CASE ~MoveGrandchild
  <2>1. Still => UNCHANGED <<parent, life, origin>>
    BY StillTree
  <2>2. UNCHANGED <<parent, life, origin>>
    BY <1>2, <2>1, NextCases DEF vars, tree
  <2> QED
    BY <2>2 DEF IsCopy
<1> QED
  BY <1>1, <1>2

(* The one step that makes a copy.                                         *)
LEMMA Copying ==
  ASSUME TypeInv, Tracking, NEW seen, Once(seen), NEW p \in Pid, BeforeSchedule(p)
  PROVE  \E c \in Pid :
           /\ p = node /\ Waiting /\ ff.pid_to_fork = p /\ ff.tracked_pid = p
           /\ UNCHANGED <<ff, threads, manager, node, calls>>
           /\ life[c] = "free" /\ c # p /\ ~IsCopy(c) /\ pc[p] = "user"
           /\ life'[c] = "alive" /\ origin'[c] = p /\ parent'[c] = p /\ IsCopy(c)'
           /\ pc'[p] = "list" /\ pc'[c] = "tail" /\ clone_pid'[p] = c
           /\ \A d \in Pid : d # c =>
                /\ IsCopy(d)' <=> IsCopy(d)
                /\ origin'[d] = origin[d] /\ parent'[d] = parent[d] /\ life'[d] = life[d]
                /\ d # p => pc'[d] = pc[d] /\ clone_pid'[d] = clone_pid[d]
<1> USE DEF TypeInv
<1>1. PICK c \in Pid : /\ FreshPid(c) /\ NewChild(c, p, "alive", p)
                       /\ pc' = [pc EXCEPT ![p] = "list", ![c] = "tail"]
                       /\ clone_pid' = [clone_pid EXCEPT ![p] = c]
  BY DEF BeforeSchedule, leader_clone
<1>2. /\ life[c] = "free" /\ life[p] = "alive" /\ c # p /\ pc[p] = "user"
      /\ ff.pid_to_fork = p /\ p # -1 /\ UNCHANGED <<ff, threads, manager, node, calls>>
  BY <1>1 DEF BeforeSchedule, FreshPid, walk, Pid
<1>3. Waiting /\ p = node /\ ff.tracked_pid = p
  <2>1. \A d \in Pid : IsCopy(d) => origin[d] # p
    BY <1>2 DEF Once, Probing, ProbePC
  <2> QED
    BY <1>2, <2>1 DEF Tracking
<1>4. /\ life'[c] = "alive" /\ origin'[c] = p /\ parent'[c] = p
      /\ \A d \in Pid : d # c =>
           origin'[d] = origin[d] /\ parent'[d] = parent[d] /\ life'[d] = life[d]
  BY <1>1 DEF NewChild, TypeOK, ProcessTypeOK
<1>5. /\ pc'[p] = "list" /\ pc'[c] = "tail" /\ clone_pid'[p] = c
      /\ \A d \in Pid : d # c /\ d # p => pc'[d] = pc[d] /\ clone_pid'[d] = clone_pid[d]
  BY <1>1, <1>2 DEF TypeOK
<1> QED
  BY <1>2, <1>3, <1>4, <1>5 DEF IsCopy

LEMMA CopyOnce ==
  ASSUME TypeInv, Tracking, NEW seen \in SUBSET Pid, Once(seen), NEW p \in Pid,
         BeforeSchedule(p)
  PROVE  Once(seen)'
<1>1. PICK c \in Pid :
           /\ p = node /\ Waiting /\ ff.pid_to_fork = p
           /\ UNCHANGED <<ff, manager, node, calls>>
           /\ life[c] = "free" /\ c # p /\ ~IsCopy(c) /\ pc[p] = "user"
           /\ origin'[c] = p /\ parent'[c] = p /\ IsCopy(c)' /\ pc'[p] = "list"
           /\ \A d \in Pid : d # c =>
                (IsCopy(d)' <=> IsCopy(d)) /\ origin'[d] = origin[d] /\ parent'[d] = parent[d]
  BY Copying
<1>2. p # -1 /\ ~Probing(p) /\ Probing(p)'
  BY <1>1 DEF Probing, ProbePC, Pid
<1>3. p \in seen /\ \A d \in Pid : ~(IsCopy(d) /\ origin[d] = p)
  BY <1>1, <1>2 DEF Once
<1>4. \A d \in Pid : IsCopy(d)' =>
        origin'[d] \in seen /\ (parent'[d] \in seen \/ (parent'[d] \in Pid /\ IsCopy(parent[d])'))
  <2> SUFFICES ASSUME NEW d \in Pid, IsCopy(d)', d # c
               PROVE  /\ origin'[d] \in seen
                      /\ parent'[d] \in seen \/ (parent'[d] \in Pid /\ IsCopy(parent[d])')
    BY <1>1, <1>3
  <2>1. IsCopy(d) /\ origin'[d] = origin[d] /\ parent'[d] = parent[d]
    BY <1>1
  <2>2. origin[d] \in seen /\ (parent[d] \in seen \/ (parent[d] \in Pid /\ IsCopy(parent[d])))
    BY <2>1 DEF Once
  <2>3. parent[d] \in Pid /\ IsCopy(parent[d]) => parent'[d] \in Pid /\ IsCopy(parent[d])'
    <3> SUFFICES ASSUME parent[d] \in Pid, IsCopy(parent[d]) PROVE IsCopy(parent[d])'
      BY <2>1
    <3>1. PICK q \in Pid : q = parent[d]
      OBVIOUS
    <3>2. IsCopy(q)' /\ parent'[d] = q
      BY <1>1, <2>1, <3>1
    <3> QED
      BY <3>2 DEF IsCopy
  <2> QED
    BY <2>1, <2>2, <2>3
<1>5. \A d, e \in Pid : IsCopy(d)' /\ IsCopy(e)' /\ origin'[d] = origin'[e] => d = e
  BY <1>1, <1>3 DEF Once
<1> QED
  BY <1>1, <1>2, <1>3, <1>4, <1>5 DEF Once

(* Nobody but Target names a process that is to fork, and a probe works on  *)
(* until it has taken the name away.                                       *)
LEMMA TargetKept ==
  ASSUME TypeInv, [Next]_vars, \A p \in Pid : ~BeforeSchedule(p), ~Target
  PROVE  /\ ff'.pid_to_fork = ff.pid_to_fork \/ ff'.pid_to_fork = -1
         /\ \A p \in Pid : Probing(p) => Probing(p)' \/ ff'.pid_to_fork = -1
<1> USE DEF TypeInv
<1>1. CASE \E p \in Pid : AddToPidList(p) \/ SetPrime(p) \/ Untarget(p)
  BY <1>1 DEF AddToPidList, SetPrime, Untarget, Step, Probing, ProbePC, TypeOK, Globals
<1>2. CASE \E p \in Pid : PullBack(p)
  <2>1. PICK p \in Pid : PullBack(p)
    BY <1>2
  <2>2. pc[p] \notin ProbePC /\ \A q \in Pid : q # p => pc'[q] = pc[q]
    BY <2>1 DEF PullBack, EnterPullBack, TestClone, Claim, CloneThread, EndLoop, Done, WakeManager,
                Unclaim, Hold, Step, ProbePC, TypeOK
  <2>3. ff'.pid_to_fork = ff.pid_to_fork
    BY <2>1 DEF PullBack, EnterPullBack, TestClone, Claim, CloneThread, EndLoop, Done, WakeManager,
                Unclaim, Hold, TypeOK, Globals
  <2> QED
    BY <2>2, <2>3 DEF Probing
<1>3. CASE WakeCopies
  BY <1>3 DEF WakeCopies, Probing, ProbePC, TypeOK, Globals
<1>4. CASE InitModule \/ CleanupModule \/ SetEverythingDone \/ \E p \in Pid : Call(p)
  BY <1>4 DEF InitModule, CleanupModule, SetEverythingDone, Call, Probing, TypeOK, Globals
<1>5. CASE Rest \/ UNCHANGED vars \/ (Manager /\ ~Target)
  BY <1>5 DEF Rest, vars, Manager, Descend, Wait, MoveGrandchild, Return, Manage, Probing,
              TypeOK, Globals
<1> QED
  BY <1>1, <1>2, <1>3, <1>4, <1>5 DEF Next, Probe

LEMMA OnceStep ==
  ASSUME OneCall, TypeInv, Tracking, NEW seen \in SUBSET Pid, NEW path \in SUBSET Pid,
         Walk(seen, path), Home, Once(seen), [Next]_vars, NEW s \in SUBSET Pid, Turn(seen, s)
  PROVE  Once(s)'
<1> USE DEF TypeInv
<1>1. CASE \E p \in Pid : BeforeSchedule(p)
  <2>1. s = seen
    BY <1>1, Copying DEF Turn, Target, Manage, Waiting
  <2> QED
    BY <1>1, <2>1, CopyOnce
<1>2. CASE \A p \in Pid : ~BeforeSchedule(p)
  <2>1. seen \subseteq s
    BY DEF Turn
  <2>2. \A c \in Pid : IsCopy(c)' =>
          origin'[c] \in s /\ (parent'[c] \in s \/ (parent'[c] \in Pid /\ IsCopy(parent[c])'))
    <3> SUFFICES ASSUME NEW c \in Pid, IsCopy(c)'
                 PROVE  /\ origin'[c] \in s
                        /\ parent'[c] \in s \/ (parent'[c] \in Pid /\ IsCopy(parent[c])')
      OBVIOUS
    <3>1. IsCopy(c) /\ origin'[c] = origin[c]
      BY <1>2, SameCopies
    <3>2. origin[c] \in seen /\ (parent[c] \in seen \/ (parent[c] \in Pid /\ IsCopy(parent[c])))
      BY <3>1 DEF Once
    <3>3. CASE parent'[c] = parent[c]
      <4>1. parent[c] \in Pid /\ IsCopy(parent[c]) => IsCopy(parent[c])'
        BY <1>2, <3>3, SameCopies DEF IsCopy
      <4> QED
        BY <2>1, <3>1, <3>2, <3>3, <4>1 DEF IsCopy
    <3>4. CASE parent'[c] # parent[c]
      <4>1. parent'[c] \in Pid /\ IsCopy(parent[c])'
        BY <1>2, <3>4, SameCopies
      <4> QED
        BY <2>1, <3>1, <3>2, <4>1 DEF IsCopy
    <3> QED
      BY <3>3, <3>4
  <2>3. \A c, d \in Pid : IsCopy(c)' /\ IsCopy(d)' /\ origin'[c] = origin'[d] => c = d
    BY <1>2, SameCopies DEF Once
  <2>4. ff'.pid_to_fork # -1 =>
          /\ ff'.pid_to_fork \in s
          /\ (\E c \in Pid : IsCopy(c)' /\ origin'[c] = ff'.pid_to_fork)
               => Probing(ff.pid_to_fork)'
    <3>1. CASE Target
      <4>1. node \notin seen /\ s = seen \cup {node} /\ ff'.pid_to_fork = node /\ UNCHANGED node
        BY <3>1, TargetWalk DEF Turn, Target, walk, TypeOK, Globals
      <4>2. \A c \in Pid : IsCopy(c)' => origin'[c] # node
        BY <1>2, <4>1, SameCopies DEF Once
      <4> QED
        BY <4>1, <4>2
    <3>2. CASE ~Target
      <4>1. /\ ff'.pid_to_fork = ff.pid_to_fork \/ ff'.pid_to_fork = -1
            /\ \A p \in Pid : Probing(p) => Probing(p)' \/ ff'.pid_to_fork = -1
        BY <1>2, <3>2, TargetKept
      <4>2. ff.pid_to_fork \in Pid \cup {-1}
        BY DEF TypeOK, Globals
      <4> SUFFICES ASSUME NEW p \in Pid, ff.pid_to_fork = p, ff'.pid_to_fork = p, p # -1
                   PROVE  /\ p \in s
                          /\ (\E c \in Pid : IsCopy(c)' /\ origin'[c] = p) => Probing(p)'
        BY <4>1, <4>2 DEF Probing
      <4>3. (\E c \in Pid : IsCopy(c)' /\ origin'[c] = p) => Probing(p)
        BY <1>2, SameCopies DEF Once
      <4>4. p \in seen
        BY DEF Once
      <4> QED
        BY <2>1, <4>1, <4>3, <4>4
    <3> QED
      BY <3>1, <3>2
  <2>5. calls' = 0 => s = {} /\ ~Walking'
    <3>1. calls' = 0 => UNCHANGED calls
      BY DEF Next, InitModule, CleanupModule, SetEverythingDone, WakeCopies, Rest, Manager,
             Descend, Target, Wait, MoveGrandchild, Return, Manage, Call, Probe,
             BeforeSchedule, AddToPidList, SetPrime, Untarget, PullBack, EnterPullBack, TestClone, Claim,
             CloneThread, EndLoop, Done, WakeManager, Unclaim, Hold, Step, vars, TypeOK
    <3>2. calls = 0 /\ UNCHANGED calls => ~Target /\ manager' = "idle"
      <4>1. calls = 0 => manager = "idle"
        BY DEF Once, Walking
      <4>2. manager = "idle" /\ UNCHANGED calls => ~Target /\ manager' = "idle"
        BY DEF Next, InitModule, CleanupModule, SetEverythingDone, WakeCopies, Rest, Manager,
               Descend, Target, Wait, MoveGrandchild, Return, Manage, Call, Probe,
               BeforeSchedule, AddToPidList, SetPrime, Untarget, PullBack, EnterPullBack, TestClone,
               Claim, CloneThread, EndLoop, Done, WakeManager, Unclaim, Hold, vars, TypeOK
      <4> QED
        BY <4>1, <4>2
    <3> QED
      BY <3>1, <3>2 DEF Turn, Once, Walking
  <2> QED
    BY <2>2, <2>3, <2>4, <2>5 DEF Once
<1> QED
  BY <1>1, <1>2

LEMMA TrackingPullBack ==
  ASSUME TypeInv, Tracking, NEW p \in Pid, PullBack(p), ~Hold(p),
         \A c \in Pid : (IsCopy(c)' <=> IsCopy(c)) /\ origin'[c] = origin[c],
         \A c, d \in Pid : IsCopy(c) /\ IsCopy(d) /\ origin[c] = origin[d] => c = d
  PROVE  Tracking'
<1> USE DEF TypeInv
<1>1. /\ UNCHANGED node /\ (Waiting' <=> Waiting)
      /\ manager' = "reparent" <=> manager = "reparent"
      /\ ff'.pid_to_fork = ff.pid_to_fork
      /\ \A q \in Pid : q # p => pc'[q] = pc[q] /\ threads'[q] = threads[q]
  BY DEF PullBack, EnterPullBack, TestClone, Claim, CloneThread, EndLoop, Done, WakeManager,
         Unclaim, Step, walk, Waiting, TypeOK, Globals
<1>2. CASE WakeManager(p) \/ Unclaim(p)
  <2>1. /\ UNCHANGED threads /\ ff'.error_check = ff.error_check
        /\ ff'.tracked_pid = ff.tracked_pid /\ pc'[p] \notin Untold
    BY <1>2 DEF WakeManager, Unclaim, Step, Untold, TypeOK, Globals
  <2>2. CopyStands' <=> CopyStands
    BY <1>1, <2>1 DEF CopyStands
  <2>3. \A c \in Pid : pc'[c] \in Untold => pc'[c] = pc[c]
    BY <1>1, <2>1
  <2> QED
    BY <1>1, <2>1, <2>2, <2>3 DEF Tracking
<1>3. CASE EnterPullBack(p) \/ TestClone(p) \/ Claim(p) \/ CloneThread(p) \/ EndLoop(p)
  <2>1. /\ pc[p] \in Untold \ {"done"} /\ ff'.tracked_pid = ff.tracked_pid
        /\ ff'.error_check = 0 => ff.error_check = 0
    BY <1>3 DEF EnterPullBack, TestClone, Claim, CloneThread, EndLoop, Step, Untold, TypeOK,
                Globals
  <2>2. /\ Waiting /\ ff.tracked_pid = node /\ IsCopy(p) /\ origin[p] = node /\ p # node
        /\ node # -1
    BY <2>1 DEF Tracking, IsCopy, TypeOK, Pid
  <2>3. pc'[p] = "done" /\ ff'.error_check = 0 => threads'[p] = threads[node]
    BY <1>3, <2>2 DEF EnterPullBack, TestClone, Claim, CloneThread, EndLoop, Step, TypeOK,
                      Globals
  <2>4. manager # "reparent"
    BY <2>2 DEF Waiting
  <2>5. \A c \in Pid : pc'[c] = "done" /\ ff'.error_check = 0 /\ c # p /\ pc[c] \in Untold
          => threads'[c] = threads'[node]
    BY <1>1, <2>1, <2>2 DEF Tracking
  <2> QED
    BY <1>1, <2>1, <2>2, <2>3, <2>4, <2>5 DEF Tracking, TypeOK
<1>4. CASE Done(p)
  <2>1. /\ pc[p] = "done" /\ pc' = [pc EXCEPT ![p] = "wake"] /\ UNCHANGED threads
        /\ ff'.error_check = ff.error_check /\ ff'.tracked_pid = -1
    BY <1>4 DEF Done, Step, TypeOK, Globals
  <2>2. Waiting /\ IsCopy(p) /\ origin[p] = node
        /\ (ff.error_check = 0 => threads[p] = threads[node])
    BY <2>1 DEF Tracking, Untold
  <2>3. CopyStands'
    BY <1>1, <2>1, <2>2 DEF CopyStands
  <2>4. ASSUME NEW c \in Pid, pc'[c] \in Untold PROVE FALSE
    <3>1. c # p /\ pc[c] \in Untold
      BY <2>1, <2>4 DEF Untold, TypeOK
    <3>2. IsCopy(c) /\ origin[c] = node
      BY <3>1 DEF Tracking
    <3> QED
      BY <2>2, <3>1, <3>2
  <2>5. ~(ff.pid_to_fork # -1 /\ (\A c \in Pid : IsCopy(c) => origin[c] # ff.pid_to_fork))
    BY <2>2 DEF Tracking
  <2> QED
    BY <1>1, <2>1, <2>3, <2>4, <2>5 DEF Tracking
<1> QED
  BY <1>2, <1>3, <1>4 DEF PullBack

(* The copy that is asked for is made once and told of once.               *)
LEMMA TrackingStep ==
  ASSUME TypeInv, Tracking, NEW seen \in SUBSET Pid, NEW path \in SUBSET Pid,
         Walk(seen, path), Home, Once(seen), [Next]_vars
  PROVE  Tracking'
<1> USE DEF TypeInv
<1>1. CASE \E p \in Pid : BeforeSchedule(p)
  <2>1. PICK p \in Pid : BeforeSchedule(p)
    BY <1>1
  <2>2. PICK c \in Pid :
           /\ p = node /\ Waiting /\ ff.pid_to_fork = p /\ ff.tracked_pid = p
           /\ UNCHANGED <<ff, threads, manager, node>>
           /\ ~IsCopy(c) /\ origin'[c] = p /\ IsCopy(c)'
           /\ pc'[p] = "list" /\ pc'[c] = "tail"
           /\ \A d \in Pid : d # c =>
                /\ IsCopy(d)' <=> IsCopy(d)
                /\ origin'[d] = origin[d]
                /\ d # p => pc'[d] = pc[d]
    BY <2>1, Copying
  <2>3. ASSUME NEW d \in Pid, pc'[d] \in Untold
        PROVE  /\ IsCopy(d)' /\ origin'[d] = p
               /\ pc'[d] = "done" /\ ff.error_check = 0 => threads[d] = threads[p]
    BY <2>2, <2>3 DEF Tracking, Untold
  <2>4. p # -1
    BY DEF Pid
  <2> QED
    BY <2>2, <2>3, <2>4 DEF Tracking, Waiting
<1>2. CASE \A p \in Pid : ~BeforeSchedule(p)
  <2>1. \A c \in Pid : (IsCopy(c)' <=> IsCopy(c)) /\ origin'[c] = origin[c]
    BY <1>2, SameCopies
  <2>2. CASE Target
    <3>1. /\ ff'.pid_to_fork = node /\ ff'.tracked_pid = node /\ node # -1 /\ ~Waiting
          /\ UNCHANGED <<pc, node>> /\ manager' = "wait"
      BY <2>2 DEF Target, Manage, Waiting, walk, TypeOK, Globals, Pid
    <3> QED
      BY <2>1, <3>1 DEF Tracking, Waiting
  <2>3. CASE InitModule \/ CleanupModule \/ Descend \/ Return \/ \E p \in Pid : Call(p)
    <3>1. /\ ~Waiting /\ manager' \in {"idle", "children"} /\ UNCHANGED pc
          /\ ff'.pid_to_fork = ff.pid_to_fork
      BY <2>3 DEF InitModule, CleanupModule, Descend, Return, Call, Manage, Waiting, TypeOK,
                  Globals
    <3> QED
      BY <2>1, <3>1 DEF Tracking, Waiting
  <2>4. CASE Wait
    <3>1. /\ Waiting /\ UNCHANGED <<pc, threads, node>> /\ ff'.error_check = ff.error_check
          /\ ff'.pid_to_fork = ff.pid_to_fork /\ ff'.tracked_pid = ff.tracked_pid
          /\ Waiting' \/ (manager' = "reparent" /\ ff.tracked_pid = -1)
      BY <2>4 DEF Wait, Manage, Waiting, walk, TypeOK, Globals
    <3>2. CopyStands' <=> CopyStands
      BY <2>1, <3>1 DEF CopyStands
    <3>3. ff.tracked_pid = -1 => ff.tracked_pid # node
      BY DEF TypeOK, Pid
    <3> QED
      BY <2>1, <3>1, <3>2, <3>3 DEF Tracking, Waiting
  <2>5. CASE MoveGrandchild \/ SetEverythingDone \/ WakeCopies \/ UNCHANGED vars \/ Rest
             \/ \E p \in Pid : AddToPidList(p) \/ SetPrime(p) \/ Untarget(p) \/ Hold(p)
    <3>1. /\ UNCHANGED <<threads, node, manager>> /\ ff'.error_check = ff.error_check
          /\ ff'.pid_to_fork = ff.pid_to_fork \/ ff'.pid_to_fork = -1
          /\ ff'.tracked_pid = ff.tracked_pid
      BY <2>5 DEF MoveGrandchild, SetEverythingDone, WakeCopies, Rest, AddToPidList, SetPrime,
                  Untarget, Hold, Step, Manage, vars, walk, TypeOK, Globals
    <3>2. \A c \in Pid : pc'[c] = pc[c] \/ pc'[c] \notin Untold
      BY <2>5 DEF MoveGrandchild, SetEverythingDone, WakeCopies, Rest, AddToPidList, SetPrime,
                  Untarget, Hold, Step, Manage, vars, TypeOK, Untold
    <3>3. CopyStands' <=> CopyStands
      BY <2>1, <3>1 DEF CopyStands
    <3> QED
      BY <2>1, <3>1, <3>2, <3>3 DEF Tracking, Waiting
  <2>6. ASSUME NEW p \in Pid, PullBack(p), ~Hold(p) PROVE Tracking'
    <3>1. \A c, d \in Pid : IsCopy(c) /\ IsCopy(d) /\ origin[c] = origin[d] => c = d
      BY DEF Once
    <3> QED
      BY <2>1, <2>6, <3>1, TrackingPullBack
  <2> QED
    BY <1>2, <2>2, <2>3, <2>4, <2>5, <2>6 DEF Next, Manager, Probe, PullBack
<1> QED
  BY <1>1, <1>2

LEMMA WalkStep ==
  ASSUME OneCall, TypeInv, Home, [Next]_vars, NEW seen \in SUBSET Pid,
         NEW path \in SUBSET Pid, Walk(seen, path), Once(seen)
  PROVE  \E s, p \in SUBSET Pid : Turn(seen, s) /\ Walk(s, p)'
<1>1. CASE Target
  <2>1. node \in Pid /\ Walk(seen \cup {node}, path)' /\ UNCHANGED node
    BY <1>1, TargetWalk DEF Target, walk
  <2>2. PICK more \in SUBSET Pid : more = seen \cup {node}
    BY <2>1
  <2>3. Walk(more, path)' /\ Turn(seen, more)
    BY <1>1, <2>1, <2>2 DEF Walk, Frames, Ahead, Behind, Turn
  <2> QED
    BY <2>3
<1>2. CASE ~Target
  <2>1. Turn(seen, seen)
    BY <1>2 DEF Turn
  <2>2. CASE \E p \in Pid : Call(p)
    <3>1. calls = 0
      BY <2>2 DEF Call, OneCall, TypeInv, TypeOK
    <3>2. seen = {} /\ \E p \in SUBSET Pid : Walk({}, p)'
      BY <2>2, <3>1, CallWalk DEF Once
    <3> QED
      BY <2>1, <3>2 DEF Walk, Frames, Ahead, Behind
  <2>3. CASE \A p \in Pid : ~Call(p)
    BY <1>2, <2>1, <2>3, DescendWalk, ReturnWalk, WalkStays
  <2> QED
    BY <2>2, <2>3
<1> QED
  BY <1>1, <1>2

(* A target waits for its copy, and the manager does not go on without it. *)
LEMMA CompleteStep ==
  ASSUME TypeInv, Tracking', [Next]_vars, NEW seen \in SUBSET Pid,
         Complete(seen), NEW s \in SUBSET Pid, Turn(seen, s)
  PROVE  Complete(s)'
<1> USE DEF TypeInv
<1> SUFFICES ASSUME NEW p \in s
             PROVE  ((\E c \in Pid : IsCopy(c) /\ origin[c] = p) \/ (p = node /\ Waiting))'
  BY DEF Complete
<1>1. CASE Target
  <2>1. p \in seen \cup {node} /\ Waiting' /\ UNCHANGED node /\ ~Waiting
    BY <1>1 DEF Target, Turn, Manage, Waiting, walk
  <2>2. (\E c \in Pid : IsCopy(c) /\ origin[c] = p) => \E c \in Pid : IsCopy(c)' /\ origin'[c] = p
    BY StepFixed DEF Fixed, IsCopy
  <2> QED
    BY <2>1, <2>2 DEF Complete
<1>2. CASE ~Target
  <2>1. p \in seen
    BY <1>2 DEF Turn
  <2>2. CASE \E c \in Pid : IsCopy(c) /\ origin[c] = p
    BY <2>2, StepFixed DEF Fixed, IsCopy
  <2>3. CASE p = node /\ Waiting
    <3>1. UNCHANGED node /\ manager' \in {"wait", "asleep", "reparent"}
      BY <1>2, <2>3
      DEF Next, InitModule, CleanupModule, SetEverythingDone, WakeCopies, Rest, Manager,
          Descend, Wait, MoveGrandchild, Return, Manage, Call, Probe, BeforeSchedule,
          AddToPidList, SetPrime, Untarget, PullBack, EnterPullBack, TestClone, Claim, CloneThread,
          EndLoop, Done, WakeManager, Unclaim, Hold, Step, vars, walk, Waiting
    <3>2. CASE manager' = "reparent"
      <4>1. PICK c \in Pid : IsCopy(c)' /\ origin'[c] = node'
        BY <3>2 DEF Tracking, CopyStands
      <4> QED
        BY <2>3, <3>1, <4>1 DEF IsCopy
    <3> QED
      BY <2>3, <3>1, <3>2 DEF Waiting
  <2> QED
    BY <2>1, <2>2, <2>3 DEF Complete
<1> QED
  BY <1>1, <1>2

-----------------------------------------------------------------------------
(* Where the copies are.  Steps that leave the copies and the list alone.  *)
Kept ==
  \A c \in Pid :
    /\ IsCopy(c)' <=> IsCopy(c)
    /\ IsCopy(c) => /\ parent'[c] = parent[c] /\ origin'[c] = origin[c]
                    /\ Listed(c) => Listed(c)'

LEMMA MirrorKept ==
  ASSUME TypeInv, Fixed, NEW seen \in SUBSET Pid, NEW path \in SUBSET Pid, NEW s \in SUBSET Pid,
         Walk(seen, path), Once(seen), Mirror(seen), Kept,
         \A q \in Pid : Past(s, q)' <=> Past(seen, q),
         manager = "reparent" =>
           manager' = "reparent" /\ UNCHANGED node /\ ff'.p_prime = ff.p_prime
  PROVE  Mirror(s)'
<1> SUFFICES ASSUME NEW c \in Pid, IsCopy(c)' PROVE (Listed(c) /\ Placed(s, c))'
  BY DEF Mirror
<1>1. /\ IsCopy(c) /\ Listed(c) /\ Placed(seen, c)
      /\ Listed(c)' /\ parent'[c] = parent[c] /\ origin'[c] = origin[c]
  BY DEF Mirror, Kept
<1>2. origin[c] \in seen
  BY <1>1 DEF Once
<1>3. origin[c] \in Pid /\ parent'[origin[c]] = parent[origin[c]]
  BY <1>2 DEF Walk, Frames, Fixed
<1>4. origin[c] # Top => parent[origin[c]] \in Pid
  BY <1>2 DEF Walk, Frames
<1>5. origin[c] # Top => (Past(s, parent[origin[c]])' <=> Past(seen, parent[origin[c]]))
  <2> SUFFICES ASSUME NEW q \in Pid, q = parent[origin[c]]
               PROVE  Past(s, parent[origin[c]])' <=> Past(seen, q)
    BY <1>4
  <2>1. Past(s, q)' <=> Past(seen, q)
    OBVIOUS
  <2> QED
    BY <1>1, <1>3, <2>1 DEF Past
<1>6. Placed(s, c)'
  <2>1. CASE origin[c] = Top
    BY <1>1, <2>1 DEF Placed
  <2>2. CASE origin[c] # Top /\ Past(seen, parent[origin[c]])
    <3>1. Past(s, parent[origin[c]])'
      BY <1>5, <2>2
    <3>2. parent[c] \in Pid /\ IsCopy(parent[c]) /\ origin[parent[c]] = parent[origin[c]]
      BY <1>1, <2>2 DEF Placed
    <3>3. IsCopy(parent[c])' /\ origin'[parent[c]] = origin[parent[c]]
      BY <1>1, <3>2 DEF Kept, IsCopy
    <3> QED
      BY <1>1, <1>3, <2>2, <3>1, <3>2, <3>3 DEF Placed
  <2>3. CASE origin[c] # Top /\ ~Past(seen, parent[origin[c]])
    <3>1. ~Past(s, parent[origin[c]])'
      BY <1>5, <2>3
    <3>2. parent[c] = origin[c] \/ MovedNow(c)
      BY <1>1, <2>3 DEF Placed
    <3>3. MovedNow(c) => MovedNow(c)'
      BY <1>1, <1>3 DEF MovedNow
    <3> QED
      BY <1>1, <2>3, <3>1, <3>2, <3>3 DEF Placed
  <2> QED
    BY <2>1, <2>2, <2>3
<1> QED
  BY <1>1, <1>6

(* When the probe has finished, the list tells copies from originals.      *)
LEMMA ListTells ==
  ASSUME TypeInv, Protocol, NEW seen \in SUBSET Pid, Mirror(seen), manager = "reparent",
         NEW c \in Pid
  PROVE  c \in ff.pid_list <=> IsCopy(c)
BY DEF Protocol, Waiting, Settled, Mirror, Listed, TypeInv, CopiesKnown

(* Only copies of children of the node move, and below its copy.           *)
LEMMA MovesBelow ==
  ASSUME TypeInv, Protocol, Home, NEW seen \in SUBSET Pid, NEW path \in SUBSET Pid,
         Walk(seen, path), Once(seen), Mirror(seen), manager = "reparent", NEW g \in Pid,
         Movable(g)
  PROVE  IsCopy(g) /\ origin[g] \in Pid /\ parent[origin[g]] = node /\ parent[g] = origin[g]
<1>1. PICK c \in Pid : parent[c] = node /\ ~IsCopy(c) /\ parent[g] = c /\ IsCopy(g)
  BY ListTells DEF Movable, Children
<1>2. Placed(seen, g) /\ origin[g] \in seen
  BY <1>1 DEF Mirror, Once
<1>3. origin[g] # Top
  BY <1>1, <1>2 DEF Placed, Home, Pid, Outside, Walk, Frames, Walking
<1>4. parent[g] = origin[g] \/ parent[g] = ff.p_prime
  BY <1>1, <1>2, <1>3 DEF Placed, MovedNow
<1>5. IsCopy(ff.p_prime)
  BY DEF Protocol, Answer, TypeInv, CopiesKnown
<1>6. parent[g] = origin[g] /\ origin[g] = c
  BY <1>1, <1>4, <1>5
<1> QED
  BY <1>1, <1>6

LEMMA MoveMirror ==
  ASSUME TypeInv, Protocol, Home, Fixed, NEW seen \in SUBSET Pid, NEW path \in SUBSET Pid,
         Walk(seen, path), Once(seen), Mirror(seen), MoveGrandchild
  PROVE  Mirror(seen)'
<1>1. PICK g \in Pid : Movable(g) /\ Reparent(g, ff.p_prime)
  BY DEF MoveGrandchild
<1>2. /\ manager = "reparent" /\ manager' = manager
      /\ UNCHANGED <<ff, pc, clone_pid, node, life, origin>>
      /\ parent'[g] = ff.p_prime /\ \A c \in Pid : c # g => parent'[c] = parent[c]
  BY <1>1 DEF MoveGrandchild, Manage, Reparent, walk, TypeInv, TypeOK, ProcessTypeOK
<1>3. IsCopy(g) /\ origin[g] \in Pid /\ parent[origin[g]] = node /\ parent[g] = origin[g]
  BY <1>1, <1>2, MovesBelow
<1>4. node \in seen /\ node \in path /\ node \in Pid
  BY <1>2 DEF Walk, Frames, Walking, Aimed
<1> SUFFICES ASSUME NEW c \in Pid, IsCopy(c)' PROVE (Listed(c) /\ Placed(seen, c))'
  BY DEF Mirror
<1>5. IsCopy(c) /\ Listed(c) /\ Placed(seen, c) /\ origin[c] \in seen
  BY <1>2 DEF Mirror, IsCopy, Once
<1>6. origin[c] \in Pid /\ parent'[origin[c]] = parent[origin[c]]
  BY <1>5 DEF Walk, Frames, Fixed
<1>7. Past(seen, parent[origin[c]])' <=> Past(seen, parent[origin[c]])
  BY <1>2, <1>6 DEF Past, Aimed
<1>8. Placed(seen, c)'
  <2>1. CASE c = g
    <3>1. origin[g] # Top
      BY <1>3, <1>4 DEF Home, Pid, Outside
    <3>2. MovedNow(c)' /\ ~Past(seen, parent[origin[c]])
      BY <1>2, <1>3, <1>6, <2>1 DEF MovedNow, Past, Aimed
    <3> QED
      BY <1>2, <1>7, <2>1, <3>1, <3>2 DEF Placed
  <2>2. CASE c # g
    <3>1. MovedNow(c) => MovedNow(c)'
      BY <1>2, <1>6, <2>2 DEF MovedNow
    <3>2. IsCopy(parent[c]) => IsCopy(parent[c])'
      BY <1>2, <2>2 DEF IsCopy
    <3> QED
      BY <1>2, <1>5, <1>6, <1>7, <2>2, <3>1, <3>2 DEF Placed
  <2> QED
    BY <2>1, <2>2
<1> QED
  BY <1>2, <1>5, <1>8 DEF Listed

LEMMA ReturnMirror ==
  ASSUME TypeInv, Protocol, Home, NEW seen \in SUBSET Pid, NEW path \in SUBSET Pid,
         Walk(seen, path), Once(seen), Mirror(seen), Return
  PROVE  Mirror(seen)'
<1>1. /\ manager = "reparent" /\ ~Aimed' /\ manager' # "reparent" /\ \A g \in Pid : ~Movable(g)
      /\ UNCHANGED <<ff, pc, clone_pid, parent, life, origin>>
  BY DEF Return, Manage, Aimed, tree
<1>2. /\ ff.p_prime \in Pid /\ IsCopy(ff.p_prime)
      /\ origin[ff.p_prime] = node /\ parent[ff.p_prime] = node
  BY <1>1 DEF Protocol, Answer, TypeInv, CopiesKnown, TypeOK, Globals
<1> SUFFICES ASSUME NEW c \in Pid, IsCopy(c)' PROVE (Listed(c) /\ Placed(seen, c))'
  BY DEF Mirror
<1>3. IsCopy(c) /\ Listed(c) /\ Placed(seen, c) /\ origin[c] \in seen
  BY <1>1 DEF Mirror, IsCopy, Once
<1>4. origin[c] \in Pid /\ ~IsCopy(origin[c]) /\ node \in seen
  BY <1>1, <1>3 DEF Walk, Frames, Aimed
<1>5. Placed(seen, c)'
  <2>1. CASE origin[c] # Top /\ parent[origin[c]] = node
    <3>1. ~Past(seen, parent[origin[c]])
      BY <1>1, <2>1 DEF Past, Aimed
    <3>2. parent[c] # origin[c]
      BY <1>1, <1>3, <1>4, <2>1, ListTells DEF Movable, Children
    <3>3. parent[c] = ff.p_prime
      BY <1>3, <2>1, <3>1, <3>2 DEF Placed, MovedNow
    <3> QED
      BY <1>1, <1>2, <1>4, <2>1, <3>3 DEF Placed, IsCopy, Past
  <2>2. CASE origin[c] = Top
    BY <1>1, <1>3, <2>2 DEF Placed
  <2>3. CASE origin[c] # Top /\ parent[origin[c]] # node
    <3>1. Past(seen, parent[origin[c]])' <=> Past(seen, parent[origin[c]])
      BY <1>1, <2>3 DEF Past
    <3> QED
      BY <1>1, <1>3, <2>3, <3>1 DEF Placed, MovedNow, IsCopy
  <2> QED
    BY <2>1, <2>2, <2>3
<1> QED
  BY <1>1, <1>3, <1>5 DEF Listed

LEMMA CopyMirror ==
  ASSUME TypeInv, Protocol, Tracking, Home, Fixed, NEW seen \in SUBSET Pid, NEW path \in SUBSET Pid,
         Walk(seen, path), Once(seen), Mirror(seen), NEW p \in Pid, BeforeSchedule(p)
  PROVE  Mirror(seen)'
<1> USE DEF TypeInv
<1>1. PICK c \in Pid :
           /\ p = node /\ Waiting /\ ff.pid_to_fork = p /\ ff.tracked_pid = p
           /\ UNCHANGED <<ff, threads, manager, node, calls>>
           /\ life[c] = "free" /\ c # p /\ ~IsCopy(c) /\ pc[p] = "user"
           /\ life'[c] = "alive" /\ origin'[c] = p /\ parent'[c] = p /\ IsCopy(c)'
           /\ pc'[p] = "list" /\ pc'[c] = "tail" /\ clone_pid'[p] = c
           /\ \A d \in Pid : d # c =>
                /\ IsCopy(d)' <=> IsCopy(d)
                /\ origin'[d] = origin[d] /\ parent'[d] = parent[d] /\ life'[d] = life[d]
                /\ d # p => pc'[d] = pc[d] /\ clone_pid'[d] = clone_pid[d]
  BY Copying
<1>2. pc[c] = "user" /\ Aimed
  BY <1>1 DEF Rooted, Waiting, Aimed
<1>3. Listed(c)' /\ \A d \in Pid : Listed(d) => Listed(d)'
  BY <1>1, <1>2 DEF Listed
<1> SUFFICES ASSUME NEW d \in Pid, IsCopy(d)' PROVE (Listed(d) /\ Placed(seen, d))'
  BY DEF Mirror
<1>4. CASE d = c
  <2>1. p \in path /\ p \in seen /\ parent'[p] = parent[p]
    BY <1>1, <1>2 DEF Walk, Frames, Walking, Aimed, Fixed
  <2>2. p # Top => parent[p] \notin seen
    BY <1>1, <1>2, <2>1 DEF Walk, Frames, Walking, Aimed, Protocol
  <2>3. Placed(seen, d)'
    BY <1>1, <1>4, <2>1, <2>2 DEF Placed, Past
  <2> QED
    BY <1>3, <1>4, <2>3
<1>5. CASE d # c
  <2>1. /\ IsCopy(d) /\ Listed(d) /\ Placed(seen, d) /\ origin[d] \in seen
        /\ origin'[d] = origin[d] /\ parent'[d] = parent[d]
    BY <1>1, <1>5 DEF Mirror, Once
  <2>2. origin[d] \in Pid /\ parent'[origin[d]] = parent[origin[d]]
    BY <2>1 DEF Walk, Frames, Fixed
  <2>3. Past(seen, parent[origin[d]])' <=> Past(seen, parent[origin[d]])
    BY <1>1, <2>1, <2>2 DEF Past, Aimed
  <2>4. parent[d] \in Pid /\ IsCopy(parent[d]) =>
          IsCopy(parent[d])' /\ origin'[parent[d]] = origin[parent[d]]
    <3> SUFFICES ASSUME NEW q \in Pid, q = parent[d], IsCopy(q)
                 PROVE  IsCopy(parent[d])' /\ origin'[q] = origin[q]
      OBVIOUS
    <3>1. IsCopy(q)' /\ origin'[q] = origin[q] /\ parent'[d] = q
      BY <1>1, <2>1
    <3> QED
      BY <3>1 DEF IsCopy
  <2>5. ~MovedNow(d)
    BY <1>1 DEF MovedNow, Waiting
  <2>6. Placed(seen, d)'
    BY <2>1, <2>2, <2>3, <2>4, <2>5 DEF Placed
  <2> QED
    BY <1>3, <2>1, <2>6
<1> QED
  BY <1>4, <1>5

LEMMA OtherMirror ==
  ASSUME TypeInv, Protocol, Home, Fixed, NEW seen \in SUBSET Pid, NEW path \in SUBSET Pid,
         Walk(seen, path), Once(seen), Mirror(seen), NEW s \in SUBSET Pid, Turn(seen, s),
         [Next]_vars, ~MoveGrandchild, ~Return, \A p \in Pid : ~BeforeSchedule(p)
  PROVE  Mirror(s)'
<1> USE DEF TypeInv
<1>1. UNCHANGED <<parent, life, origin>>
  BY NextCases, StillTree DEF vars, tree
<1>2. \A c \in Pid : Listed(c) => Listed(c)'
  <2>1. CASE \E p \in Pid : AddToPidList(p) \/ SetPrime(p) \/ Untarget(p)
    BY <2>1 DEF AddToPidList, SetPrime, Untarget, Step, Listed, TypeOK, Globals
  <2>2. CASE ~(\E p \in Pid : AddToPidList(p) \/ SetPrime(p) \/ Untarget(p))
    <3>1. ff'.pid_list = ff.pid_list /\ UNCHANGED clone_pid
      BY <2>2
      DEF Next, InitModule, CleanupModule, SetEverythingDone, WakeCopies, Rest, Manager,
          Descend, Target, Wait, Manage, Return, Call, Probe, PullBack, EnterPullBack, TestClone, Claim,
          CloneThread, EndLoop, Done, WakeManager, Unclaim, Hold, vars, TypeOK, Globals
    <3>2. \A p \in Pid : pc[p] = "list" => pc'[p] = "list"
      BY <2>2
      DEF Next, InitModule, CleanupModule, SetEverythingDone, WakeCopies, Rest, Manager,
          Descend, Target, Wait, Manage, Return, Call, Probe, PullBack, EnterPullBack, TestClone, Claim,
          CloneThread, EndLoop, Done, WakeManager, Unclaim, Hold, Step, vars, TypeOK
    <3> QED
      BY <3>1, <3>2 DEF Listed
  <2> QED
    BY <2>1, <2>2
<1>3. Kept
  BY <1>1, <1>2 DEF Kept, IsCopy
<1>4. \A q \in Pid : Past(s, q)' <=> Past(seen, q)
  <2>1. CASE Target
    <3>1. s = seen \cup {node} /\ ~Aimed /\ Aimed' /\ UNCHANGED node /\ node \notin seen
      BY <2>1, TargetWalk DEF Target, Manage, Turn, Aimed, walk
    <3> QED
      BY <3>1 DEF Past
  <2>2. CASE ~Target
    <3>1. s = seen
      BY <2>2 DEF Turn
    <3>2. (~Aimed /\ ~Aimed') \/ (Aimed /\ Aimed' /\ UNCHANGED node)
      BY <2>2
      DEF Next, InitModule, CleanupModule, SetEverythingDone, WakeCopies, Rest, Manager,
          Descend, Wait, Manage, Call, Probe, AddToPidList, SetPrime, Untarget, PullBack,
          EnterPullBack, TestClone, Claim, CloneThread, EndLoop, Done, WakeManager, Unclaim, Hold, Step,
          vars, walk, Aimed
    <3> QED
      BY <3>1, <3>2 DEF Past
  <2> QED
    BY <2>1, <2>2
<1>5. manager = "reparent" =>
        manager' = "reparent" /\ UNCHANGED node /\ ff'.p_prime = ff.p_prime
  <2> SUFFICES ASSUME manager = "reparent"
               PROVE  manager' = "reparent" /\ UNCHANGED node /\ ff'.p_prime = ff.p_prime
    OBVIOUS
  <2>1. \A p \in Pid : ~Probe(p)
    BY DEF Protocol, Waiting, Settled, Probe, AddToPidList, SetPrime, Untarget, Step
  <2> QED
    BY <2>1
    DEF Next, InitModule, CleanupModule, SetEverythingDone, WakeCopies, Rest, Manager,
        Descend, Target, Wait, Manage, Call, PullBack, EnterPullBack, TestClone, Claim, CloneThread,
        EndLoop, Done, WakeManager, Unclaim, Hold, Step, vars, walk, TypeOK, Globals
<1> QED
  BY <1>3, <1>4, <1>5, MirrorKept

LEMMA MirrorStep ==
  ASSUME TypeInv, Protocol, Tracking, Home, NEW seen \in SUBSET Pid, NEW path \in SUBSET Pid,
         Walk(seen, path), Once(seen), Mirror(seen), NEW s \in SUBSET Pid, Turn(seen, s),
         [Next]_vars
  PROVE  Mirror(s)'
<1>1. MoveGrandchild \/ Return \/ (\E p \in Pid : BeforeSchedule(p)) => s = seen
  BY Copying DEF Turn, Target, MoveGrandchild, Return, Manage, Waiting
<1> QED
  BY <1>1, StepFixed, MoveMirror, ReturnMirror, CopyMirror, OtherMirror

(* No copy is released while the manager walks: system call 548 comes after*)
(* its call, insmod starts afresh, and there is no further call.           *)
LEMMA SilentStep ==
  ASSUME Patient, OneCall, TypeInv, Protocol, Tracking, Silent, NEW seen \in SUBSET Pid,
         NEW path \in SUBSET Pid, Walk(seen, path), Once(seen), [Next]_vars
  PROVE  /\ Silent'
         /\ Walking => \A c \in Pid : IsCopy(c) /\ pc[c] # "user" => pc'[c] # "user"
<1> USE DEF TypeInv
<1>1. (calls' = 0 => calls = 0) /\ (Walking' /\ ~Walking => calls = 0)
  BY DEF OneCall, Next, InitModule, CleanupModule, SetEverythingDone, WakeCopies, Rest,
         Manager, Descend, Target, Wait, MoveGrandchild, Return, Manage, Call, Probe,
         BeforeSchedule, AddToPidList, SetPrime, Untarget, PullBack, EnterPullBack, TestClone, Claim,
         CloneThread, EndLoop, Done, WakeManager, Unclaim, Hold, Step, vars, Walking, TypeOK
<1>2. /\ calls' = 0 => ~ff'.everything_done /\ ~ff'.queues
      /\ Walking' => ~ff'.everything_done
  <2>1. CASE SetEverythingDone
    BY <2>1 DEF SetEverythingDone, Silent, Walking, TypeOK
  <2>2. CASE InitModule
    BY <2>2 DEF InitModule, TypeOK, Globals
  <2>3. CASE \E p \in Pid : Call(p)
    BY <1>1, <2>3 DEF Call, Silent, Walking, TypeOK, Globals
  <2>4. CASE ~SetEverythingDone /\ ~InitModule /\ \A p \in Pid : ~Call(p)
    <3>1. ff'.everything_done = ff.everything_done /\ ff'.queues = ff.queues
      BY <2>4
      DEF Next, CleanupModule, WakeCopies, Rest, Manager, Descend, Target, Wait, Manage,
          MoveGrandchild, Return, Probe, BeforeSchedule, AddToPidList, SetPrime, Untarget,
          PullBack, EnterPullBack, TestClone, Claim, CloneThread, EndLoop, Done, WakeManager, Unclaim,
          Hold, vars, TypeOK, Globals
    <3> QED
      BY <1>1, <3>1 DEF Silent
  <2> QED
    BY <2>1, <2>2, <2>3, <2>4
<1>3. ASSUME Walking, NEW c \in Pid, IsCopy(c), pc[c] # "user" PROVE pc'[c] # "user"
  <2>0. ~IsCopy(node)
    BY <1>3 DEF Walk, Frames
  <2>1. ASSUME NEW p \in Pid, Probe(p) PROVE pc'[c] # "user"
    <3>1. CASE BeforeSchedule(p)
      <4>1. PICK d \in Pid : pc' = [pc EXCEPT ![p] = "list", ![d] = "tail"]
        BY <3>1 DEF BeforeSchedule
      <4> QED
        BY <1>3, <4>1 DEF TypeOK
    <3>2. CASE ~BeforeSchedule(p)
      <4>1. Probing(p) /\ \A q \in Pid : q # p => pc'[q] = pc[q]
        BY <2>1, <3>2 DEF Probe, AddToPidList, SetPrime, Untarget, Step, Probing, ProbePC, TypeOK
      <4>2. p = node
        BY <4>1 DEF Protocol, Settled, Talking, Probing, ProbePC
      <4> QED
        BY <1>3, <2>0, <4>1, <4>2
    <3> QED
      BY <3>1, <3>2
  <2>2. ASSUME NEW p \in Pid, PullBack(p) PROVE pc'[c] # "user"
    <3>1. CASE EnterPullBack(p)
      <4>1. pc[p] = "tail" /\ pc' = [pc EXCEPT ![p] = IF ff.loaded /\ parent[p] = ff.tracked_pid
                                                         THEN "tail_flag" ELSE "user"]
        BY <3>1 DEF EnterPullBack, Step
      <4>2. Talking(p)
        BY <4>1 DEF Protocol, Settled, Talking, ProbePC
      <4>3. ff.loaded /\ parent[p] = ff.tracked_pid
        BY <1>3, <4>1, <4>2 DEF Talking, Untold, Walking
      <4> QED
        BY <1>3, <4>1, <4>3 DEF TypeOK
    <3>2. CASE TestClone(p)
      <4>1. pc[p] = "tail_flag" /\ pc' = [pc EXCEPT ![p] = IF ff.clone THEN "user" ELSE "claim"]
        BY <3>2 DEF TestClone, Step
      <4>2. Talking(p)
        BY <4>1 DEF Protocol, Settled, Talking, ProbePC
      <4>3. ~ff.clone
        BY <4>1, <4>2 DEF Talking
      <4> QED
        BY <1>3, <4>1, <4>3 DEF TypeOK
    <3>3. CASE Hold(p)
      BY <1>3, <3>3 DEF Hold, Step, Silent, TypeOK
    <3>4. CASE ~EnterPullBack(p) /\ ~TestClone(p) /\ ~Hold(p)
      BY <1>3, <2>2, <3>4 DEF PullBack, Claim, CloneThread, EndLoop, Done, WakeManager,
                              Unclaim, Step, TypeOK
    <3> QED
      BY <3>1, <3>2, <3>3, <3>4
  <2>3. CASE \A p \in Pid : ~Probe(p) /\ ~PullBack(p)
    BY <1>3, <2>3 DEF Next, InitModule, CleanupModule, SetEverythingDone, WakeCopies, Rest,
                      Manager, Descend, Target, Wait, MoveGrandchild, Return, Manage, Call, vars
  <2> QED
    BY <2>1, <2>2, <2>3
<1>4. ASSUME Walking', NEW c \in Pid, IsCopy(c)' PROVE pc'[c] # "user"
  <2>1. CASE ~Walking
    <3>1. calls = 0
      BY <1>1, <1>4, <2>1
    <3>2. ~IsCopy(c)
      BY <3>1 DEF Once
    <3>3. \A p \in Pid : ~BeforeSchedule(p)
      BY <2>1, Copying DEF Walking, Waiting
    <3> QED
      BY <1>4, <3>2, <3>3, SameCopies
  <2>2. CASE Walking /\ IsCopy(c)
    BY <1>3, <2>2 DEF Silent
  <2>3. CASE Walking /\ ~IsCopy(c)
    <3>1. PICK p \in Pid : BeforeSchedule(p)
      BY <1>4, <2>3, SameCopies
    <3>2. \E d \in Pid : pc'[d] = "tail" /\ \A e \in Pid : e # d => (IsCopy(e)' <=> IsCopy(e))
      BY <3>1, Copying
    <3> QED
      BY <1>4, <2>3, <3>2
  <2> QED
    BY <2>1, <2>2, <2>3
<1> QED
  BY <1>2, <1>3, <1>4 DEF Silent

-----------------------------------------------------------------------------
LEMMA InitMirror == Init => MirrorInv
<1> SUFFICES ASSUME Init PROVE MirrorInv
  OBVIOUS
<1>1. \A p \in Pid : ~IsCopy(p)
  BY DEF Init, TreeInit, IsCopy
<1>2. Home /\ Silent
  BY <1>1, WorkloadAssumption DEF Init, TreeInit, Home, Original, Silent, Walking, Kernel
<1>3. Tracking
  BY DEF Init, Kernel, Tracking, Untold, Waiting
<1>4. Walk({}, {}) /\ Once({}) /\ Mirror({}) /\ Complete({})
  BY <1>1 DEF Init, Kernel, Walk, Frames, Ahead, Behind, Once, Mirror, Complete, Walking, Aimed
<1> QED
  BY <1>2, <1>3, <1>4 DEF MirrorInv

LEMMA NextMirror ==
  ASSUME OneCall
  PROVE  TypeInv /\ Ordered /\ MirrorInv /\ [Next]_vars => MirrorInv'
<1> SUFFICES ASSUME TypeInv, Ordered, MirrorInv, [Next]_vars PROVE MirrorInv'
  OBVIOUS
<1>1. PICK seen \in SUBSET Pid, path \in SUBSET Pid :
        /\ Walk(seen, path) /\ Once(seen) /\ Complete(seen)
        /\ ~overtaken => Mirror(seen)
        /\ ~overtaken /\ Patient => Silent
  BY DEF MirrorInv
<1>2. Home' /\ Tracking'
  BY <1>1, NextHome, TrackingStep DEF MirrorInv
<1>3. PICK s \in SUBSET Pid, p \in SUBSET Pid : Turn(seen, s) /\ Walk(s, p)'
  BY <1>1, WalkStep DEF MirrorInv
<1>4. Once(s)'
  BY <1>1, <1>3, OnceStep DEF MirrorInv
<1>5. Complete(s)'
  BY <1>1, <1>2, <1>3, CompleteStep
<1>6. ASSUME ~overtaken' PROVE Mirror(s)' /\ (Patient => Silent')
  <2>1. ~overtaken /\ Protocol /\ Home /\ Tracking
    BY <1>6, OvertakenStays DEF Ordered, MirrorInv
  <2>2. Mirror(s)'
    BY <1>1, <1>3, <2>1, MirrorStep
  <2>3. Patient => Silent'
    BY <1>1, <2>1, SilentStep
  <2> QED
    BY <2>2, <2>3
<1> QED
  BY <1>2, <1>3, <1>4, <1>5, <1>6 DEF MirrorInv

LEMMA InitOrdered == Init => Ordered
BY InitProtocol DEF Ordered

(* The manager goes on from a process only when the copy of that process   *)
(* stands, with every thread unless the clone of one failed: in every tree,*)
(* for one call, system call 548 at any time, and also when the manager    *)
(* overtakes the statements that follow the one that wakes it.             *)
THEOREM NobodyIsSkipped ==
  ASSUME OneCall
  PROVE  Spec => []NobodySkipped
<1>1. MirrorInv => NobodySkipped
  <2>1. MirrorInv /\ manager = "reparent" => CopyStands
    BY DEF MirrorInv, Tracking
  <2> QED
    BY <2>1 DEF CopyStands, NobodySkipped
<1> QED
  BY <1>1, InitTypeInv, StepTypeInv, InitOrdered, NextOrdered, InitMirror, NextMirror,
     PTL DEF Spec

(* Copies sleep on wq2 until system call 548, and that comes after the call*)
(* of the manager: no copy reaches user mode before, for every tree, up to *)
(* the first time that the manager overtakes.                              *)
THEOREM NothingStartsEarly ==
  ASSUME Patient, OneCall
  PROVE  Spec => NoEarlyStart
<1>1. TypeInv /\ Ordered /\ MirrorInv /\ [Next]_vars =>
        [\A c \in Pid : IsCopy(c) /\ pc[c] # "user" /\ pc'[c] = "user"
           => manager = "idle" \/ overtaken]_vars
  BY SilentStep, OvertakenStays DEF MirrorInv, Ordered, Walking
<1> QED
  BY <1>1, InitTypeInv, StepTypeInv, InitOrdered, NextOrdered, InitMirror, NextMirror,
     PTL DEF Spec, NoEarlyStart

-----------------------------------------------------------------------------
(* Tree describes a tree: who is in it is below the top.                   *)
Reachable ==
  \A S \in SUBSET Original :
    Top \in S /\ (\A p \in Original : Tree[p] \in S => p \in S) => S = Original

LEMMA TreeParents ==
  ASSUME Home, NEW p \in Original
  PROVE  /\ p \in Pid /\ parent[p] = Tree[p] /\ (p # Top => Tree[p] \in Original)
         /\ Top \in Original /\ Tree[Top] \notin Original
BY TreeAssumption, WorkloadAssumption DEF Home, Original, Pid, Outside, None

(* When the manager is done with some process it is done with all of them, *)
(* and every copy is where it belongs.                                     *)
LEMMA AllSeen ==
  ASSUME Reachable, Home, NEW seen \in SUBSET Pid, NEW path \in SUBSET Pid,
         Walk(seen, path), seen # {}, ~Walking
  PROVE  Original \subseteq seen
<1>1. PICK S \in SUBSET Original : S = seen \cap Original
  OBVIOUS
<1>2. Top \in S
  BY <1>1, WorkloadAssumption DEF Walk, Behind, Original, Pid, Outside, None
<1>3. \A p \in Original : Tree[p] \in S => p \in S
  BY <1>1 DEF Walk, Behind
<1> QED
  BY <1>1, <1>2, <1>3 DEF Reachable

LEMMA AtRest ==
  ASSUME NEW seen \in SUBSET Pid, NEW path \in SUBSET Pid, Walk(seen, path), Once(seen),
         Mirror(seen), ~Walking, NEW c \in Pid, IsCopy(c)
  PROVE  IF origin[c] = Top THEN parent[c] = Top
         ELSE /\ parent[c] \in Pid /\ IsCopy(parent[c])
              /\ origin[parent[c]] = parent[origin[c]]
<1>1. Placed(seen, c) /\ origin[c] \in seen
  BY DEF Mirror, Once
<1>2. origin[c] # Top => Past(seen, parent[origin[c]])
  BY <1>1 DEF Walk, Frames, Past, Walking, Aimed
<1> QED
  BY <1>1, <1>2 DEF Placed

(* The copy that the manager leaves behind has each process once, for     *)
(* every tree, whichever threads are missing and whether or not it has     *)
(* overtaken; and if it has not, the copy has the shape of what it copies. *)
THEOREM TreeIsMirrored ==
  ASSUME OneCall, Reachable
  PROVE  Spec => []TreeMirrored
<1>1. TypeInv /\ MirrorInv => TreeMirrored
  <2> SUFFICES ASSUME TypeInv, MirrorInv PROVE TreeMirrored
    OBVIOUS
  <2>1. PICK seen \in SUBSET Pid, path \in SUBSET Pid :
          /\ Walk(seen, path) /\ Once(seen) /\ Complete(seen)
          /\ ~overtaken => Mirror(seen)
    BY DEF MirrorInv
  <2> DEFINE copies == {c \in Pid : IsCopy(c)}
  <2>2. \A c \in copies : c \in Pid /\ IsCopy(c) /\ origin[c] \in seen
    BY <2>1 DEF Once
  <2>3. \A c, d \in copies : c # d => origin[c] # origin[d]
    BY <2>1 DEF Once
  <2>4. ASSUME manager = "idle", ~overtaken, NEW c \in copies PROVE InPlace(c)
    BY <2>1, <2>4, AtRest DEF Walking, InPlace
  <2>5. manager = "idle" /\ copies # {} =>
          {origin[c] : c \in copies} = {p \in Pid : Tree[p] # None}
    <3> SUFFICES ASSUME manager = "idle", copies # {}
                 PROVE  {origin[c] : c \in copies} = Original
      BY DEF Original
    <3>1. Original \subseteq seen
      BY <2>1, <2>2, AllSeen DEF Walking, MirrorInv
    <3>2. seen \subseteq Original
      <4> SUFFICES ASSUME NEW p \in seen PROVE Tree[p] # None
        BY DEF Original
      <4>1. p \in Pid /\ life[p] # "free" /\ ~IsCopy(p)
        BY <2>1 DEF Walk, Frames
      <4> QED
        BY <4>1 DEF MirrorInv, Home, Original
    <3>3. \A p \in seen : \E c \in copies : origin[c] = p
      BY <2>1 DEF Complete, Waiting
    <3> HIDE DEF copies
    <3> QED
      BY <2>2, <3>1, <3>2, <3>3
  <2> QED
    BY <2>3, <2>4, <2>5 DEF TreeMirrored
<1> QED
  BY <1>1, InitTypeInv, StepTypeInv, InitOrdered, NextOrdered, InitMirror, NextMirror,
     PTL DEF Spec

-----------------------------------------------------------------------------
(* The refinement.                                                         *)
places == [p \in Original |-> PlaceOf(p)]

LEMMA PlacesKept ==
  ASSUME \A c \in Pid : /\ IsCopy(c)' <=> IsCopy(c)
                        /\ IsCopy(c) => parent'[c] = parent[c] /\ origin'[c] = origin[c]
  PROVE  UNCHANGED places
<1>1. \A p : CopiesOf(p)' = CopiesOf(p)
  BY DEF CopiesOf
<1>2. \A p : \A c \in CopiesOf(p) : parent'[c] = parent[c]
  BY DEF CopiesOf
<1>3. ASSUME NEW p \in Original PROVE PlaceOf(p)' = PlaceOf(p)
  <2>1. (\A c \in CopiesOf(p)' : parent'[c] = p) <=> (\A c \in CopiesOf(p) : parent[c] = p)
    BY <1>1, <1>2
  <2>2. (\A c \in CopiesOf(p)' : parent'[c] \in CopiesOf(Tree[p])')
          <=> (\A c \in CopiesOf(p) : parent[c] \in CopiesOf(Tree[p]))
    BY <1>1, <1>2
  <2> QED
    BY <1>1, <2>1, <2>2 DEF PlaceOf
<1> QED
  BY <1>3 DEF places

LEMMA CopiesOfOne ==
  ASSUME NEW seen, Once(seen), NEW c \in Pid, IsCopy(c)
  PROVE  CopiesOf(origin[c]) = {c}
BY DEF CopiesOf, Once

(* Nothing of the copy runs before or after a step of the walk.            *)
LEMMA NotStarted ==
  ASSUME Silent, Silent', Walking, Walking'
  PROVE  Started = FALSE /\ Started' = FALSE
BY DEF Silent, Started

(* A process is copied: what is below it is beside its originals.          *)
LEMMA CopyPlaces ==
  ASSUME TypeInv, Protocol, Tracking, Home, Silent, Silent', NEW seen \in SUBSET Pid,
         NEW path \in SUBSET Pid, Walk(seen, path), Once(seen), Mirror(seen), Complete(seen),
         NEW p \in Pid, BeforeSchedule(p)
  PROVE  [TheCopy!Next]_(TheCopy!vars)
<1> USE DEF TypeInv
<1>1. PICK c \in Pid :
           /\ p = node /\ Waiting /\ ff.pid_to_fork = p /\ ff.tracked_pid = p
           /\ UNCHANGED <<ff, threads, manager, node, calls>>
           /\ life[c] = "free" /\ c # p /\ ~IsCopy(c) /\ pc[p] = "user"
           /\ life'[c] = "alive" /\ origin'[c] = p /\ parent'[c] = p /\ IsCopy(c)'
           /\ pc'[p] = "list" /\ pc'[c] = "tail" /\ clone_pid'[p] = c
           /\ \A d \in Pid : d # c =>
                /\ IsCopy(d)' <=> IsCopy(d)
                /\ origin'[d] = origin[d] /\ parent'[d] = parent[d] /\ life'[d] = life[d]
                /\ d # p => pc'[d] = pc[d] /\ clone_pid'[d] = clone_pid[d]
  BY Copying
<1>2. p \in seen /\ Aimed /\ Walking /\ Walking' /\ ~Probing(p) /\ p # -1
  BY <1>1 DEF Walk, Frames, Waiting, Aimed, Walking, Probing, ProbePC, Pid
<1>3. /\ CopiesOf(p) = {} /\ CopiesOf(p)' = {c}
      /\ \A q : q # p => CopiesOf(q)' = CopiesOf(q) /\ c \notin CopiesOf(q)
  BY <1>1, <1>2 DEF CopiesOf, Once
<1>4. UNCHANGED Started
  BY <1>2, NotStarted
<1>5. ASSUME NEW q \in Original, q # p, NEW d \in CopiesOf(q), Tree[q] = p
      PROVE  CopiesOf(q) = {d} /\ parent[d] = q
  <2>1. d \in Pid /\ IsCopy(d) /\ origin[d] = q /\ Placed(seen, d)
    BY DEF CopiesOf, Mirror
  <2>2. q # Top /\ parent[q] = p
    BY <1>5, TreeParents, WorkloadAssumption DEF Outside, Pid
  <2>3. ~Past(seen, parent[q]) /\ ~MovedNow(d)
    BY <1>1, <1>2, <2>1, <2>2 DEF Past, MovedNow, Waiting
  <2> QED
    BY <2>1, <2>2, <2>3, CopiesOfOne DEF Placed
<1>6. ASSUME NEW q \in Original, q # p PROVE PlaceOf(q)' = PlaceOf(q)
  <2>1. CopiesOf(q)' = CopiesOf(q) /\ \A d \in CopiesOf(q) : parent'[d] = parent[d]
    BY <1>1, <1>3, <1>6 DEF CopiesOf
  <2>2. CASE Tree[q] # p
    <3>1. CopiesOf(Tree[q])' = CopiesOf(Tree[q])
      BY <1>3, <2>2
    <3>2. (\A d \in CopiesOf(q)' : parent'[d] = q) <=> (\A d \in CopiesOf(q) : parent[d] = q)
      BY <2>1
    <3>3. (\A d \in CopiesOf(q)' : parent'[d] \in CopiesOf(Tree[q])')
            <=> (\A d \in CopiesOf(q) : parent[d] \in CopiesOf(Tree[q]))
      BY <2>1, <3>1
    <3> QED
      BY <2>1, <3>2, <3>3 DEF PlaceOf
  <2>3. CASE Tree[q] = p
    <3>1. \A d \in CopiesOf(q) : parent[d] = q
      BY <1>5, <1>6, <2>3
    <3>2. \A d \in CopiesOf(q)' : parent'[d] = q
      BY <2>1, <3>1
    <3> QED
      BY <2>1, <3>1, <3>2 DEF PlaceOf
  <2> QED
    BY <2>2, <2>3
<1>7. p \in Original
  BY <1>1, <1>2 DEF Home, Walk, Frames
<1>8. PlaceOf(p) = "none" /\ PlaceOf(p)' = "beside"
  BY <1>1, <1>3 DEF PlaceOf
<1>9. ASSUME NEW q \in Original, Tree[q] = p PROVE PlaceOf(q) = "beside"
  <2>1. q \in seen /\ q # p
    BY <1>2, <1>7, <1>9, TreeParents, TreeAssumption DEF Walk, Behind
  <2>2. PICK d \in Pid : IsCopy(d) /\ origin[d] = q
    BY <1>1, <2>1 DEF Complete
  <2>3. CopiesOf(q) = {d} /\ parent[d] = q
    BY <1>5, <1>9, <2>1, <2>2 DEF CopiesOf
  <2> QED
    BY <2>3 DEF PlaceOf
<1>10. places' = [places EXCEPT ![p] = "beside"]
  BY <1>6, <1>7, <1>8 DEF places
<1>11. TheCopy!Copy(p)
  BY <1>4, <1>7, <1>8, <1>9, <1>10 DEF TheCopy!Copy, TheCopy!Below, places
<1> QED
  BY <1>7, <1>11 DEF TheCopy!Next

(* A copy moves below the copy of the parent of its original.              *)
LEMMA MovePlaces ==
  ASSUME TypeInv, Protocol, Home, Silent, Silent', NEW seen \in SUBSET Pid,
         NEW path \in SUBSET Pid, Walk(seen, path), Once(seen), Mirror(seen), MoveGrandchild
  PROVE  [TheCopy!Next]_(TheCopy!vars)
<1>1. PICK g \in Pid : Movable(g) /\ Reparent(g, ff.p_prime)
  BY DEF MoveGrandchild
<1>2. /\ manager = "reparent" /\ manager' = manager /\ UNCHANGED <<life, origin>>
      /\ parent'[g] = ff.p_prime /\ \A c \in Pid : c # g => parent'[c] = parent[c]
  BY <1>1 DEF MoveGrandchild, Manage, Reparent, TypeInv, TypeOK, ProcessTypeOK
<1>3. IsCopy(g) /\ origin[g] \in Pid /\ parent[origin[g]] = node /\ parent[g] = origin[g]
  BY <1>1, <1>2, MovesBelow
<1>4. /\ ff.p_prime \in Pid /\ IsCopy(ff.p_prime)
      /\ origin[ff.p_prime] = node /\ parent[ff.p_prime] = node
  BY <1>2 DEF Protocol, Answer, TypeInv, CopiesKnown, TypeOK, Globals
<1>5. CopiesOf(node) = {ff.p_prime} /\ CopiesOf(origin[g]) = {g}
  BY <1>3, <1>4, CopiesOfOne
<1>6. \A q : CopiesOf(q)' = CopiesOf(q)
  BY <1>2 DEF CopiesOf, IsCopy
<1>7. UNCHANGED Started
  BY <1>2, NotStarted DEF Walking
<1>8. ASSUME NEW q \in Original, q # origin[g] PROVE PlaceOf(q)' = PlaceOf(q)
  <2>1. \A d \in CopiesOf(q) : parent'[d] = parent[d]
    BY <1>2, <1>8 DEF CopiesOf
  <2>2. (\A d \in CopiesOf(q)' : parent'[d] = q) <=> (\A d \in CopiesOf(q) : parent[d] = q)
    BY <1>6, <2>1
  <2>3. (\A d \in CopiesOf(q)' : parent'[d] \in CopiesOf(Tree[q])')
          <=> (\A d \in CopiesOf(q) : parent[d] \in CopiesOf(Tree[q]))
    BY <1>6, <2>1
  <2> QED
    BY <1>6, <2>2, <2>3 DEF PlaceOf
<1>9. /\ origin[g] \in Original /\ ~IsCopy(origin[g])
      /\ node \in Original /\ ~IsCopy(node)
  BY <1>2, <1>3 DEF Once, Walk, Frames, Aimed, Home
<1>10. PICK p \in Original, n \in Original, f \in Pid :
         p = origin[g] /\ n = node /\ f = ff.p_prime
  BY <1>4, <1>9
<1>11. Tree[p] = n
  BY <1>3, <1>10 DEF Home
<1>12. PlaceOf(p) = "beside" /\ PlaceOf(n) = "beside"
  BY <1>3, <1>4, <1>5, <1>10 DEF PlaceOf
<1>13. PlaceOf(p)' = "moved"
  <2>1. CopiesOf(p)' = {g} /\ CopiesOf(n)' = {f} /\ parent'[g] = f /\ f # p
    BY <1>2, <1>4, <1>5, <1>6, <1>9, <1>10
  <2> QED
    BY <1>11, <2>1 DEF PlaceOf
<1>14. places' = [places EXCEPT ![p] = "moved"]
  BY <1>8, <1>10, <1>13 DEF places
<1>15. TheCopy!Move(p)
  BY <1>7, <1>11, <1>12, <1>14 DEF TheCopy!Move, places
<1> QED
  BY <1>15 DEF TheCopy!Next

(* The first copy reaches user mode when the copy of the tree is complete. *)
LEMMA StartPlaces ==
  ASSUME Reachable, Home, NEW seen \in SUBSET Pid, NEW path \in SUBSET Pid, Walk(seen, path),
         Once(seen), Mirror(seen), Complete(seen), ~Walking, UNCHANGED <<parent, life, origin>>,
         Started'
  PROVE  TheCopy!Next
<1>1. UNCHANGED places
  BY PlacesKept DEF IsCopy
<1>2. seen # {}
  BY DEF Started, IsCopy, Once
<1>3. ASSUME NEW p \in Original
      PROVE  PlaceOf(p) = IF Tree[p] \in Original THEN "moved" ELSE "beside"
  <2>1. p \in seen /\ p \in Pid /\ parent[p] = Tree[p] /\ ~IsCopy(p)
    BY <1>2, AllSeen, TreeParents DEF Home
  <2>2. PICK c \in Pid : IsCopy(c) /\ origin[c] = p
    BY <2>1 DEF Complete, Waiting, Walking
  <2>3. CopiesOf(p) = {c}
    BY <2>2, CopiesOfOne
  <2>4. CASE p = Top
    BY <2>2, <2>3, <2>4, AtRest, TreeParents DEF PlaceOf
  <2>5. CASE p # Top
    <3>1. Tree[p] \in Original
      BY <2>5, TreeParents
    <3>2. parent[c] \in CopiesOf(Tree[p]) /\ parent[c] # p
      BY <2>1, <2>2, <2>5, AtRest DEF CopiesOf
    <3> QED
      BY <2>3, <3>1, <3>2 DEF PlaceOf
  <2> QED
    BY <2>4, <2>5
<1>4. Started' = TRUE
  BY DEF Started
<1>5. TheCopy!Start
  BY <1>1, <1>3, <1>4 DEF TheCopy!Start, places
<1> QED
  BY <1>5 DEF TheCopy!Next

(* The other steps: of the tree nothing changes, and a copy that is in user*)
(* mode stays there.                                                       *)
LEMMA OtherPlaces ==
  ASSUME Reachable, TypeInv, Protocol, Home, Silent, Silent', NEW seen \in SUBSET Pid,
         NEW path \in SUBSET Pid, Walk(seen, path), Once(seen), Mirror(seen), Complete(seen),
         [Next]_vars, ~MoveGrandchild, \A p \in Pid : ~BeforeSchedule(p),
         Walking => \A c \in Pid : IsCopy(c) /\ pc[c] # "user" => pc'[c] # "user"
  PROVE  [TheCopy!Next]_(TheCopy!vars)
<1>1. UNCHANGED <<parent, life, origin>>
  BY NextCases, StillTree DEF vars, tree
<1>2. UNCHANGED places /\ \A c \in Pid : IsCopy(c)' <=> IsCopy(c)
  BY <1>1, PlacesKept DEF IsCopy
<1>3. CASE UNCHANGED Started
  BY <1>2, <1>3 DEF TheCopy!vars, places
<1>4. CASE Started' /\ ~Walking
  BY <1>1, <1>4, StartPlaces
<1>5. CASE Started' /\ Walking
  <2>1. Started
    BY <1>2, <1>5 DEF Started
  <2> QED
    BY <1>3, <1>5, <2>1 DEF Started
<1>6. CASE Started /\ ~Started'
  <2>1. PICK c \in Pid : IsCopy(c) /\ pc[c] = "user" /\ pc'[c] # "user"
    BY <1>2, <1>6 DEF Started
  <2>2. FALSE
    BY <2>1
    DEF Next, InitModule, CleanupModule, SetEverythingDone, WakeCopies, Rest, Manager, Descend,
        Target, Wait, Return, Manage, Call, Probe, AddToPidList, SetPrime, Untarget, PullBack,
        EnterPullBack, TestClone, Claim, CloneThread, EndLoop, Done, WakeManager, Unclaim, Hold, Step,
        vars, TypeInv, TypeOK
  <2> QED
    BY <2>2
<1> QED
  BY <1>3, <1>4, <1>5, <1>6 DEF Started

LEMMA InitPlaces == Init => TheCopy!Init
<1> SUFFICES ASSUME Init PROVE TheCopy!Init
  OBVIOUS
<1>1. \A p \in Pid : ~IsCopy(p)
  BY DEF Init, TreeInit, IsCopy
<1>2. (\A p : CopiesOf(p) = {}) /\ Started = FALSE
  BY <1>1 DEF CopiesOf, Started
<1> QED
  BY <1>2 DEF TheCopy!Init, PlaceOf

(* The manager, the probes, the pull_back hook and the two system calls    *)
(* amount to a copy of the tree from the leaves up, each process once, that*)
(* starts when all of it is in place: for every tree, however many threads *)
(* its processes have and whichever of their clones fail, up to the first  *)
(* time that the manager overtakes.                                        *)
THEOREM TreeCloneIsATreeCopy ==
  ASSUME Patient, OneCall, Reachable
  PROVE  Spec => ImplementsTreeCopy
<1>1. TypeInv /\ Ordered /\ MirrorInv /\ [Next]_vars =>
        [overtaken' \/ TheCopy!Next]_(TheCopy!vars)
  <2> SUFFICES ASSUME TypeInv, Ordered, MirrorInv, [Next]_vars, ~overtaken'
               PROVE  [TheCopy!Next]_(TheCopy!vars)
    OBVIOUS
  <2>1. ~overtaken /\ Protocol /\ Tracking
    BY OvertakenStays DEF Ordered, MirrorInv
  <2>2. PICK seen \in SUBSET Pid, path \in SUBSET Pid :
          Walk(seen, path) /\ Once(seen) /\ Mirror(seen) /\ Complete(seen)
    BY <2>1 DEF MirrorInv
  <2>3. /\ Home /\ Silent /\ Silent'
        /\ Walking => \A c \in Pid : IsCopy(c) /\ pc[c] # "user" => pc'[c] # "user"
    BY <2>1, <2>2, SilentStep DEF MirrorInv
  <2>4. CASE \E p \in Pid : BeforeSchedule(p)
    BY <2>1, <2>2, <2>3, <2>4, CopyPlaces
  <2>5. CASE MoveGrandchild
    BY <2>1, <2>2, <2>3, <2>5, MovePlaces
  <2> QED
    BY <2>1, <2>2, <2>3, <2>4, <2>5, OtherPlaces
<1> QED
  BY <1>1, InitTypeInv, StepTypeInv, InitOrdered, NextOrdered, InitMirror, NextMirror,
     InitPlaces, PTL DEF Spec, ImplementsTreeCopy
=============================================================================
