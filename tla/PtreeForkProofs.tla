--------------------------- MODULE PtreeForkProofs ---------------------------
(***************************************************************************)
(* Theorems about PtreeFork that hold for every tree, whatever its         *)
(* processes do while it is copied and however often it is copied.         *)
(***************************************************************************)
EXTENDS PtreeFork, TLAPS

(* What TypeOK needs to be preserved, as dfs returns to the parent of its  *)
(* node: whoever exists has a parent that exists, or one outside the tree. *)
Rooted ==
  \A p \in Pid : /\ life[p] = "free" <=> parent[p] = None
                 /\ parent[p] \in Pid => life[parent[p]] # "free"

(* Whatever the globals and the probes name as a copy is one.              *)
CopiesKnown ==
  /\ ff.p_prime # None => IsCopy(ff.p_prime)
  /\ \A c \in ff.pid_list : IsCopy(c)
  /\ \A p \in Pid : probe[p] # "user" => /\ clone_pid[p] \in Pid
                                         /\ IsCopy(clone_pid[p])

TypeInv == TypeOK /\ Rooted /\ CopiesKnown /\ life[node] # "free"

(* No step makes a process free, or a copy an original, or the reverse.    *)
Lasting ==
  \A p \in Pid : life[p] # "free" => life'[p] # "free" /\ origin'[p] = origin[p]

-----------------------------------------------------------------------------
(* What the operations on the tree do.                                     *)

LEMMA NewChildType ==
  ASSUME ProcessTypeOK, Rooted, NEW c \in Pid, NEW p \in Pid, life[p] # "free",
         FreshPid(c), NEW s \in {"new", "alive"}, NEW o \in Pid,
         NewChild(c, p, s, o)
  PROVE  /\ ProcessTypeOK' /\ Rooted' /\ Lasting
         /\ life'[c] = s /\ origin'[c] = o /\ parent'[c] = p
<1>1. ProcessTypeOK' /\ life'[c] = s /\ origin'[c] = o /\ parent'[c] = p
  BY DEF ProcessTypeOK, NewChild
<1>2. Lasting
  BY DEF ProcessTypeOK, NewChild, FreshPid, Lasting
<1>3. Rooted'
  BY DEF ProcessTypeOK, NewChild, FreshPid, Rooted, Pid, None, Outside
<1> QED
  BY <1>1, <1>2, <1>3

LEMMA ReparentType ==
  ASSUME ProcessTypeOK, Rooted, NEW g \in Pid, NEW q \in Pid,
         life[g] # "free", life[q] # "free", Reparent(g, q)
  PROVE  ProcessTypeOK' /\ Rooted' /\ Lasting
<1>1. ProcessTypeOK' /\ Lasting
  BY DEF ProcessTypeOK, Reparent, Lasting
<1>2. Rooted'
  BY DEF ProcessTypeOK, Reparent, Rooted, Pid, None, Outside
<1> QED
  BY <1>1, <1>2

LEMMA WakeType ==
  ASSUME ProcessTypeOK, Rooted, NEW p \in Pid, life[p] # "free",
         life' = [life EXCEPT ![p] = "alive"], UNCHANGED <<parent, origin>>
  PROVE  ProcessTypeOK' /\ Rooted' /\ Lasting
<1>1. ProcessTypeOK' /\ Lasting
  BY DEF ProcessTypeOK, Lasting
<1>2. Rooted'
  BY DEF ProcessTypeOK, Rooted, Pid, None, Outside
<1> QED
  BY <1>1, <1>2

LEMMA EndedType ==
  ASSUME ProcessTypeOK, Rooted, NEW p \in Pid, life[p] # "free", Ended(p),
         UNCHANGED origin
  PROVE  ProcessTypeOK' /\ Rooted' /\ Lasting
<1>1. ProcessTypeOK' /\ Lasting
  BY DEF ProcessTypeOK, Ended, Lasting
<1>2. Rooted'
  BY DEF ProcessTypeOK, Ended, Rooted, Pid, None, Outside
<1> QED
  BY <1>1, <1>2

LEMMA TreeKept ==
  ASSUME ProcessTypeOK, Rooted, UNCHANGED tree
  PROVE  ProcessTypeOK' /\ Rooted' /\ Lasting
BY DEF ProcessTypeOK, Rooted, Lasting, tree

LEMMA CopiesStay ==
  ASSUME Lasting, NEW c \in Pid, IsCopy(c)
  PROVE  IsCopy(c)'
BY DEF Lasting, IsCopy

LEMMA CopiesKnownKept ==
  ASSUME TypeOK, CopiesKnown, Lasting, UNCHANGED prob,
         ff' = ff \/ (ff'.p_prime = ff.p_prime /\ ff'.pid_list = ff.pid_list)
  PROVE  CopiesKnown'
BY CopiesStay DEF CopiesKnown, TypeOK, Globals, prob

-----------------------------------------------------------------------------
LEMMA InitTypeInv == Init => TypeInv
<1> SUFFICES ASSUME Init PROVE TypeInv
  OBVIOUS
<1>1. TypeOK
  BY TreeAssumption, WorkloadAssumption
  DEF Init, TreeInit, TypeOK, ProcessTypeOK, Globals, FreshModule, ProbePC, CallerPC,
      Pid, None, Outside
<1>2. Rooted
  BY TreeAssumption, WorkloadAssumption
  DEF Init, TreeInit, Rooted, Pid, None, Outside
<1>3. CopiesKnown /\ life[node] # "free"
  BY WorkloadAssumption
  DEF Init, TreeInit, CopiesKnown, FreshModule, None, Outside
<1> QED
  BY <1>1, <1>2, <1>3 DEF TypeInv

LEMMA ModuleTypeInv ==
  ASSUME TypeInv, InitModule \/ CleanupModule
  PROVE  TypeInv' /\ Lasting
<1> USE DEF TypeInv
<1>1. ProcessTypeOK' /\ Rooted' /\ Lasting
  BY TreeKept DEF TypeOK, InitModule, CleanupModule
<1>2. TypeOK' /\ life'[node'] # "free"
  BY <1>1 DEF TypeOK, InitModule, CleanupModule, FreshModule, Globals, walk, prob, tree
<1>3. CopiesKnown'
  <2>1. CASE InitModule
    BY <2>1, <1>1, CopiesStay
    DEF InitModule, FreshModule, CopiesKnown, TypeOK, prob
  <2>2. CASE CleanupModule
    BY <2>2, <1>1, CopiesKnownKept DEF CleanupModule, TypeOK, Globals
  <2> QED
    BY <2>1, <2>2
<1> QED
  BY <1>1, <1>2, <1>3

(* The steps of the caller that leave the tree alone.                      *)
Quiet ==
  \/ Call \/ Descend \/ ChildrenDone \/ Target \/ Wait \/ Interrupt \/ ClearDone
  \/ MovesDone \/ Oops \/ Return

LEMMA QuietTypeInv ==
  ASSUME TypeInv, Quiet
  PROVE  TypeInv' /\ Lasting
<1> USE DEF TypeInv
<1>1. UNCHANGED <<tree, prob>>
  BY DEF Quiet, Call, Descend, ChildrenDone, Target, Wait, Interrupt, ClearDone,
         MovesDone, Oops, Return
<1>2. ProcessTypeOK' /\ Rooted' /\ Lasting
  BY <1>1, TreeKept DEF TypeOK
<1>3. node' \in Pid /\ cursor' \in Pid \cup {Outside} /\ life[node'] # "free"
  <2>1. CASE Descend
    BY <2>1 DEF Descend, IsNextChild, Children, Rooted, TypeOK, Pid, None
  <2>2. CASE Return
    BY <2>2 DEF Return, Outer, Rooted, TypeOK, ProcessTypeOK, walk
  <2>3. CASE Call
    BY <2>3, WorkloadAssumption DEF Call
  <2> QED
    BY <2>1, <2>2, <2>3
    DEF Quiet, ChildrenDone, Target, Wait, Interrupt, ClearDone, MovesDone, Oops,
        TypeOK, walk
<1>4. ff' \in Globals /\ ff'.p_prime = ff.p_prime /\ ff'.pid_list = ff.pid_list
  BY DEF Quiet, Call, Descend, ChildrenDone, Target, Wait, Interrupt, ClearDone,
         MovesDone, Oops, Return, TypeOK, Globals
<1>5. pc' \in CallerPC /\ calls' \in 0 .. MaxCalls
  BY WorkloadAssumption
  DEF Quiet, Call, Descend, ChildrenDone, Target, Wait, Interrupt, ClearDone,
      MovesDone, Oops, Return, Outer, Caller, CallerPC, TypeOK
<1>6. CopiesKnown'
  BY <1>1, <1>2, <1>4, CopiesKnownKept
<1> QED
  BY <1>1, <1>2, <1>3, <1>4, <1>5, <1>6 DEF TypeOK, prob, tree

(* The steps of the caller that change the tree.                           *)
LEMMA MoveTypeInv ==
  ASSUME TypeInv, MoveGrandchild
  PROVE  TypeInv' /\ Lasting
<1> USE DEF TypeInv
<1>1. PICK g \in Pid : Movable(g) /\ Reparent(g, ff.p_prime)
  BY DEF MoveGrandchild
<1>2. ff.p_prime \in Pid /\ life[ff.p_prime] # "free" /\ life[g] # "free"
  BY <1>1 DEF MoveGrandchild, Movable, in_pid_list, CopiesKnown, IsCopy, TypeOK, Globals
<1>3. ProcessTypeOK' /\ Rooted' /\ Lasting
  BY <1>1, <1>2, ReparentType DEF TypeOK
<1>4. CopiesKnown' /\ life'[node'] # "free"
  BY <1>3, CopiesKnownKept DEF MoveGrandchild, Lasting, TypeOK, walk
<1> QED
  BY <1>3, <1>4 DEF MoveGrandchild, Caller, CallerPC, TypeOK, prob, walk

(* The copy that Finish wakes is p_prime, if there is one.                 *)
PrimeAtFinish == pc \in {"return", "finish"} => ff.p_prime # None

LEMMA FinishTypeInv ==
  ASSUME TypeInv, PrimeAtFinish, Finish
  PROVE  TypeInv' /\ Lasting
<1> USE DEF TypeInv
<1>1. ff.p_prime \in Pid /\ life[ff.p_prime] # "free"
  BY DEF Finish, Caller, PrimeAtFinish, CopiesKnown, IsCopy, TypeOK, Globals
<1>2. ProcessTypeOK' /\ Rooted' /\ Lasting
  BY <1>1, WakeType DEF Finish, TypeOK
<1>3. CopiesKnown' /\ life'[node'] # "free"
  BY <1>2, CopiesKnownKept DEF Finish, Lasting, TypeOK, walk
<1> QED
  BY <1>2, <1>3 DEF Finish, Caller, CallerPC, TypeOK, prob, walk

-----------------------------------------------------------------------------
LEMMA ForkTypeInv ==
  ASSUME TypeInv, NEW p \in Pid, AfterSchedule(p)
  PROVE  TypeInv' /\ Lasting
<1> USE DEF TypeInv
<1>1. PICK c \in Pid : fullfork(c, p) /\ clone_pid' = [clone_pid EXCEPT ![p] = c]
  BY DEF AfterSchedule
<1>2. life[p] = "alive" /\ life[c] = "free" /\ c # p
  BY <1>1 DEF AfterSchedule, fullfork, FreshPid
<1>3. /\ ProcessTypeOK' /\ Rooted' /\ Lasting
      /\ life'[c] = "new" /\ origin'[c] = p
  BY <1>1, <1>2, NewChildType DEF fullfork, TypeOK
<1>4. IsCopy(c)'
  BY <1>2, <1>3 DEF IsCopy
<1>5. CopiesKnown'
  BY <1>1, <1>3, <1>4, CopiesStay
  DEF CopiesKnown, AfterSchedule, Probing, TypeOK, Globals
<1>6. probe' \in [Pid -> ProbePC] /\ clone_pid' \in [Pid -> Pid \cup {None}]
  BY <1>1 DEF AfterSchedule, Probing, ProbePC, TypeOK
<1> QED
  BY <1>3, <1>5, <1>6 DEF AfterSchedule, Probing, TypeOK, Lasting, walk

(* The other steps of a probe, which say what has been forked.             *)
Answering(p) ==
  \/ AddToList(p) \/ SetPrime(p) \/ Untarget(p) \/ SetDone(p) \/ WakeCaller(p)

LEMMA AnsweringTypeInv ==
  ASSUME TypeInv, NEW p \in Pid, Answering(p)
  PROVE  TypeInv' /\ Lasting
<1> USE DEF TypeInv
<1>1. UNCHANGED <<tree, clone_pid>> /\ probe[p] # "user"
  BY DEF Answering, AddToList, SetPrime, Untarget, SetDone, WakeCaller, Probing
<1>2. ProcessTypeOK' /\ Rooted' /\ Lasting
  BY <1>1, TreeKept DEF TypeOK
<1>3. clone_pid[p] \in Pid /\ IsCopy(clone_pid[p])
  BY <1>1 DEF CopiesKnown
<1>4. ff' \in Globals
  BY <1>3 DEF Answering, AddToList, SetPrime, Untarget, SetDone, WakeCaller, TypeOK,
              Globals
<1>5. /\ ff'.p_prime \in {ff.p_prime, clone_pid[p]}
      /\ ff'.pid_list \subseteq ff.pid_list \cup {clone_pid[p]}
  BY DEF Answering, AddToList, SetPrime, Untarget, SetDone, WakeCaller, TypeOK, Globals
<1>6. /\ probe' \in [Pid -> ProbePC] /\ pc' \in CallerPC
      /\ \A q \in Pid : q # p => probe'[q] = probe[q]
      /\ UNCHANGED <<walk, calls>>
  BY DEF Answering, AddToList, SetPrime, Untarget, SetDone, WakeCaller, Probing,
         ProbePC, CallerPC, TypeOK
<1>7. CopiesKnown'
  <2>1. (ff.p_prime # None => IsCopy(ff.p_prime))'
    BY <1>2, <1>3, <1>5 DEF CopiesKnown, TypeOK, Globals, Lasting, IsCopy
  <2>2. (\A c \in ff.pid_list : IsCopy(c))'
    BY <1>2, <1>3, <1>5 DEF CopiesKnown, TypeOK, Globals, Lasting, IsCopy
  <2>3. (\A q \in Pid : probe[q] # "user" => clone_pid[q] \in Pid /\ IsCopy(clone_pid[q]))'
    BY <1>1, <1>2, <1>3, <1>6 DEF CopiesKnown, Lasting, IsCopy
  <2> QED
    BY <2>1, <2>2, <2>3 DEF CopiesKnown
<1> QED
  BY <1>1, <1>2, <1>4, <1>6, <1>7 DEF TypeOK, Lasting, walk

LEMMA ProgramTypeInv ==
  ASSUME TypeInv, NEW p \in Pid, Fork(p) \/ Exit(p)
  PROVE  TypeInv' /\ Lasting
<1> USE DEF TypeInv
<1>1. ProcessTypeOK' /\ Rooted' /\ Lasting
  <2>1. CASE Fork(p)
    BY <2>1, NewChildType DEF Fork, TypeOK
  <2>2. CASE Exit(p)
    BY <2>2, EndedType DEF Exit, TypeOK
  <2> QED
    BY <2>1, <2>2
<1>2. UNCHANGED <<ff, prob, pc, walk, calls>>
  BY DEF Fork, Exit
<1> QED
  BY <1>1, <1>2, CopiesKnownKept DEF TypeOK, Lasting, prob, walk

-----------------------------------------------------------------------------
(* The module stays while it is in use, so a copy that was found to exist  *)
(* when the moves were done is still there at the end.                     *)
Session ==
  /\ ~ff.loaded => pc \in {"user", "oops"} /\ \A p \in Pid : probe[p] = "user"
  /\ PrimeAtFinish

Inv == TypeInv /\ Session

LEMMA CallerSession ==
  ASSUME Inv, Call \/ Handler
  PROVE  Session'
<1> USE DEF Inv, TypeInv
<1>1. UNCHANGED prob /\ ff'.loaded = ff.loaded /\ ff'.p_prime = ff.p_prime
  BY DEF Handler, Call, Descend, ChildrenDone, Target, Wait, Interrupt, ClearDone,
         MoveGrandchild, MovesDone, Oops, Return, Finish, TypeOK, Globals
<1>2. ff.loaded \/ pc' \in {"user", "oops"}
  BY DEF Handler, Call, Descend, ChildrenDone, Target, Wait, Interrupt, ClearDone,
         MoveGrandchild, MovesDone, Oops, Return, Finish, Caller, Session
<1>3. PrimeAtFinish'
  BY <1>1
  DEF Handler, Call, Descend, ChildrenDone, Target, Wait, Interrupt, ClearDone,
      MoveGrandchild, MovesDone, Oops, Return, Outer, Finish, Caller, Session,
      PrimeAtFinish
<1> QED
  BY <1>1, <1>2, <1>3 DEF Session, prob

LEMMA ProbeSession ==
  ASSUME Inv, NEW p \in Pid, Probe(p)
  PROVE  Session'
<1> USE DEF Inv, TypeInv
<1>1. ff.loaded /\ ff'.loaded
  BY DEF Probe, AfterSchedule, AddToList, SetPrime, Untarget, SetDone, WakeCaller,
         Probing, Session, TypeOK, Globals
<1>2. pc' \in {"return", "finish"} => pc' = pc
  BY DEF Probe, AfterSchedule, AddToList, SetPrime, Untarget, SetDone, WakeCaller
<1>3. ff.p_prime # None => ff'.p_prime # None
  BY DEF Probe, AfterSchedule, AddToList, SetPrime, Untarget, SetDone, WakeCaller,
         Probing, TypeOK, Globals, CopiesKnown, Pid, None
<1> QED
  BY <1>1, <1>2, <1>3 DEF Session, PrimeAtFinish

LEMMA InitInv == Init => Inv
<1>1. Init => Session
  BY DEF Init, FreshModule, Session, PrimeAtFinish
<1> QED
  BY <1>1, InitTypeInv DEF Inv

LEMMA StutterInv ==
  ASSUME Inv, UNCHANGED vars
  PROVE  Inv' /\ Lasting
<1> USE DEF Inv, TypeInv
<1>1. UNCHANGED <<tree, parent, life, origin, ff, prob, probe, clone_pid, pc, node, cursor, calls>>
  BY DEF vars, tree, prob, walk
<1>2. ProcessTypeOK' /\ Rooted' /\ Lasting
  BY <1>1, TreeKept DEF TypeOK
<1>3. CopiesKnown'
  BY <1>1, <1>2, CopiesKnownKept
<1>4. Session'
  BY <1>1 DEF Session, PrimeAtFinish
<1> QED
  BY <1>1, <1>2, <1>3, <1>4 DEF TypeOK

LEMMA NextTypeInv ==
  ASSUME Inv, Next
  PROVE  TypeInv' /\ Lasting
<1> USE DEF Inv
<1>1. CASE InitModule \/ CleanupModule
  BY <1>1, ModuleTypeInv
<1>2. CASE Call \/ Handler
  BY <1>2, QuietTypeInv, MoveTypeInv, FinishTypeInv DEF Handler, Quiet, Session
<1>3. CASE Rest
  BY <1>3, StutterInv DEF Rest, Inv
<1>4. CASE \E p \in Pid : Probe(p) \/ Fork(p) \/ Exit(p)
  BY <1>4, ForkTypeInv, AnsweringTypeInv, ProgramTypeInv DEF Probe, Answering
<1> QED
  BY <1>1, <1>2, <1>3, <1>4 DEF Next

LEMMA NextInv == Inv /\ [Next]_vars => Inv'
<1> SUFFICES ASSUME Inv, [Next]_vars PROVE Inv'
  OBVIOUS
<1>1. CASE UNCHANGED vars
  BY <1>1, StutterInv
<1>2. CASE Next
  <2>1. TypeInv'
    BY <1>2, NextTypeInv
  <2>2. Session'
    <3>1. CASE Call \/ Handler
      BY <3>1, CallerSession
    <3>2. CASE \E p \in Pid : Probe(p)
      BY <3>2, ProbeSession
    <3>3. CASE InitModule \/ CleanupModule
      BY <3>3 DEF InitModule, CleanupModule, Inv, Session, PrimeAtFinish, FreshModule,
                  TypeInv, TypeOK, Globals, prob
    <3>4. CASE Rest \/ \E p \in Pid : Fork(p) \/ Exit(p)
      BY <3>4 DEF Rest, Fork, Exit, Inv, Session, PrimeAtFinish, vars, prob
    <3> QED
      BY <1>2, <3>1, <3>2, <3>3, <3>4 DEF Next
  <2> QED
    BY <2>1, <2>2 DEF Inv
<1> QED
  BY <1>1, <1>2

(* Every variable keeps its type; the walk never leaves the tree, whatever *)
(* forks, exits and signals there are and however copies are moved.        *)
THEOREM TypeCorrect == Spec => []TypeOK
<1>1. Inv => TypeOK
  BY DEF Inv, TypeInv
<1> QED
  BY <1>1, InitInv, NextInv, PTL DEF Spec

(* The system call moves nothing but copies, even if interrupted waits and *)
(* late answers confuse whose copy it is: the list holds only copies.      *)
THEOREM OriginalsStayPut == Spec => OriginalsStay
<1> DEFINE A == \A p \in Pid : life[p] # "free" /\ ~IsCopy(p) => parent'[p] = parent[p]
<1>1. Inv /\ [Next]_vars => [A]_vars
  <2> SUFFICES ASSUME Inv, Next PROVE A
    BY DEF vars, tree
  <2> USE DEF Inv, TypeInv
  <2>1. CASE UNCHANGED parent
    BY <2>1
  <2>2. CASE MoveGrandchild
    <3>1. PICK g \in Pid : in_pid_list(g) /\ Reparent(g, ff.p_prime)
      BY <2>2 DEF MoveGrandchild, Movable
    <3> QED
      BY <3>1 DEF in_pid_list, CopiesKnown, Reparent, TypeOK, ProcessTypeOK
  <2>3. CASE \E p \in Pid : AfterSchedule(p) \/ Fork(p)
    <3>1. PICK c \in Pid, p \in Pid, s \in {"new", "alive"}, o \in Pid :
            FreshPid(c) /\ NewChild(c, p, s, o)
      BY <2>3 DEF AfterSchedule, Fork, fullfork
    <3> QED
      BY <3>1 DEF FreshPid, NewChild, TypeOK, ProcessTypeOK
  <2>4. CASE \E p \in Pid : Exit(p)
    BY <2>4 DEF Exit, Ended, Children, TypeOK, ProcessTypeOK
  <2> QED
    BY <2>1, <2>2, <2>3, <2>4
    DEF Next, InitModule, CleanupModule, Call, Handler, Descend, ChildrenDone, Target,
        Wait, Interrupt, ClearDone, MovesDone, Oops, Return, Finish, Rest, Probe,
        AddToList, SetPrime, Untarget, SetDone, WakeCaller, tree, vars
<1> QED
  BY <1>1, InitInv, NextInv, PTL DEF Spec, OriginalsStay

-----------------------------------------------------------------------------
(* The protocol between the caller and the probes, without signals.        *)

Waiting   == pc \in {"wait", "asleep"}
Active(p) == probe[p] \in {"add", "prime", "untarget", "done"}

(* c is the copy that p has just made of itself, before p ended or not.    *)
Answer(c, p) ==
  /\ c \in Pid /\ life[c] = "new" /\ origin[c] = p
  /\ parent[c] = IF life[p] = "alive" THEN p ELSE Outside

(* A target is set for the node of a caller that waits and has no answer;  *)
(* only that node's probe is at work, and what it has found is an answer;  *)
(* done says that p_prime is the answer for the node.                      *)
Protocol ==
  /\ \A p \in Pid : parent[p] # p
  /\ ff.target_pid # -1 => ff.target_pid = node /\ Waiting /\ ~ff.done
  /\ \A p \in Pid : Active(p) => p = node /\ Waiting /\ ~ff.done /\ Answer(clone_pid[p], p)
  /\ \A p \in Pid : probe[p] \in {"untarget", "done"} => ff.p_prime = clone_pid[p]
  /\ \A p \in Pid : probe[p] = "done" => ff.target_pid = -1
  /\ ff.done => (Waiting \/ pc = "clear") /\ Answer(ff.p_prime, node)
  /\ pc = "clear" => ff.done
  /\ pc = "reparent" => Answer(ff.p_prime, node)

LEMMA InitProtocol == Init => Protocol
<1> SUFFICES ASSUME Init PROVE Protocol
  OBVIOUS
<1>1. \A p \in Pid : parent[p] # p
  BY TreeAssumption DEF Init, TreeInit, Pid, None, Outside
<1> QED
  BY <1>1 DEF Init, FreshModule, Protocol, Active

LEMMA QuietProtocol ==
  ASSUME ~Interruptible, Inv, Protocol, Quiet
  PROVE  Protocol'
<1> USE DEF Inv, TypeInv
<1>1. /\ UNCHANGED <<parent, life, origin, probe, clone_pid>>
      /\ ff'.p_prime = ff.p_prime
  BY DEF Quiet, Call, Descend, ChildrenDone, Target, Wait, Interrupt, ClearDone,
         MovesDone, Oops, Return, tree, prob, TypeOK, Globals
<1>2. CASE Call \/ Descend \/ ChildrenDone
  BY <1>1, <1>2
  DEF Call, Descend, ChildrenDone, Caller, Protocol, Active, Waiting, Answer, TypeOK,
      Globals
<1>3. CASE Target
  BY <1>1, <1>3 DEF Target, Caller, Protocol, Active, Waiting, Answer, TypeOK, Globals,
                    walk
<1>4. CASE Wait \/ Interrupt
  BY <1>1, <1>4 DEF Wait, Interrupt, Caller, Protocol, Active, Waiting, Answer, TypeOK,
                    Globals, walk
<1>5. CASE ClearDone \/ MovesDone \/ Return
  BY <1>1, <1>5 DEF ClearDone, MovesDone, Return, Outer, Caller, Protocol, Active, Waiting,
                    Answer, TypeOK, Globals, walk
<1>6. CASE Oops
  BY <1>6 DEF Oops, Caller, Protocol, Answer, Pid, None
<1> QED
  BY <1>2, <1>3, <1>4, <1>5, <1>6 DEF Quiet

(* The one move that could turn an answer into something else would be of  *)
(* the answer below itself: it is no child of a child of the node.         *)
LEMMA MoveProtocol ==
  ASSUME Inv, Protocol, MoveGrandchild
  PROVE  Protocol'
<1> USE DEF Inv, TypeInv
<1>1. PICK g \in Pid : Movable(g) /\ Reparent(g, ff.p_prime)
  BY DEF MoveGrandchild
<1>2. pc = "reparent" /\ pc' = pc /\ UNCHANGED <<ff, prob, walk, life, origin>>
  BY <1>1 DEF MoveGrandchild, Caller, Reparent
<1>3. Answer(ff.p_prime, node)
  BY <1>2 DEF Protocol
<1>4. g # ff.p_prime
  BY <1>1, <1>3 DEF Movable, Children, Answer, Protocol, TypeOK, Pid, Outside
<1>5. /\ parent'[ff.p_prime] = parent[ff.p_prime]
      /\ \A p \in Pid : parent'[p] # p
  BY <1>1, <1>3, <1>4 DEF Reparent, Answer, Protocol, TypeOK, ProcessTypeOK
<1> QED
  BY <1>2, <1>3, <1>5 DEF Protocol, Active, Waiting, Answer, prob, walk

(* A fork makes the answer; a fork of some other process changes none.     *)
LEMMA ForkProtocol ==
  ASSUME Inv, Protocol, NEW p \in Pid, AfterSchedule(p)
  PROVE  Protocol'
<1> USE DEF Inv, TypeInv
<1>1. PICK c \in Pid : fullfork(c, p) /\ clone_pid' = [clone_pid EXCEPT ![p] = c]
  BY DEF AfterSchedule
<1>2. /\ life[c] = "free" /\ life[p] = "alive" /\ probe[p] = "user"
      /\ probe' = [probe EXCEPT ![p] = "add"] /\ UNCHANGED <<ff, pc, node>>
      /\ ff.target_pid = p
  BY <1>1 DEF AfterSchedule, Probing, fullfork, FreshPid, walk
<1>3. p = node /\ Waiting /\ ~ff.done
  BY <1>2 DEF Protocol, Pid
<1>4. \A q \in Pid : ~Active(q)
  BY <1>2, <1>3 DEF Protocol, Active
<1>5. Answer(c, p)' /\ \A q \in Pid : parent'[q] # q
  BY <1>1, <1>2 DEF fullfork, NewChild, Answer, Protocol, TypeOK, ProcessTypeOK
<1>6. clone_pid'[p] = c /\ probe'[p] = "add" /\ \A q \in Pid : Active(q)' => q = p
  BY <1>1, <1>2, <1>4 DEF Active, TypeOK
<1> QED
  BY <1>2, <1>3, <1>5, <1>6 DEF Protocol, Active, Waiting, Answer

LEMMA AnsweringProtocol ==
  ASSUME Inv, Protocol, NEW p \in Pid, Answering(p)
  PROVE  Protocol'
<1> USE DEF Inv, TypeInv
<1>1. UNCHANGED <<parent, life, origin, clone_pid, node>>
  BY DEF Answering, AddToList, SetPrime, Untarget, SetDone, WakeCaller, Probing, tree,
         walk
<1>2. CASE AddToList(p) \/ SetPrime(p) \/ Untarget(p)
  BY <1>1, <1>2 DEF AddToList, SetPrime, Untarget, Probing, Protocol, Active, Waiting,
                    Answer, TypeOK, Globals
<1>3. CASE SetDone(p)
  BY <1>1, <1>3 DEF SetDone, Probing, Protocol, Active, Waiting, Answer, TypeOK, Globals
<1>4. CASE WakeCaller(p)
  BY <1>1, <1>4 DEF WakeCaller, Probing, Protocol, Active, Waiting, Answer, TypeOK,
                    Globals
<1> QED
  BY <1>2, <1>3, <1>4 DEF Answering

LEMMA ProgramProtocol ==
  ASSUME Inv, Protocol, NEW p \in Pid, Fork(p) \/ Exit(p)
  PROVE  Protocol'
<1> USE DEF Inv, TypeInv
<1>1. UNCHANGED <<ff, probe, clone_pid, pc, node>>
  BY DEF Fork, Exit, prob, walk
<1>2. /\ \A q \in Pid : parent'[q] # q
      /\ \A c \in Pid : Answer(c, node) => Answer(c, node)'
  <2>1. CASE Fork(p)
    BY <2>1 DEF Fork, FreshPid, NewChild, Answer, Protocol, TypeOK, ProcessTypeOK, walk
  <2>2. CASE Exit(p)
    <3>1. \A q \in Pid : parent'[q] # q
      BY <2>2 DEF Exit, Ended, Protocol, TypeOK, ProcessTypeOK, Pid, Outside
    <3>2. ASSUME NEW c \in Pid, Answer(c, node) PROVE Answer(c, node)'
      <4>1. c # p /\ node \in Pid /\ UNCHANGED <<origin, node>>
        BY <2>2, <3>2 DEF Exit, Answer, TypeOK, walk
      <4>2. life'[c] = "new" /\ life'[node] = IF node = p THEN "zombie" ELSE life[node]
        BY <2>2, <3>2, <4>1 DEF Exit, Ended, Answer, TypeOK, ProcessTypeOK
      <4>3. parent'[c] = IF parent[c] = p THEN Outside ELSE parent[c]
        BY <2>2 DEF Exit, Ended
      <4>4. life[p] = "alive" /\ p # Outside
        BY <2>2 DEF Exit, Pid, Outside
      <4> QED
        BY <3>2, <4>1, <4>2, <4>3, <4>4 DEF Answer
    <3> QED
      BY <3>1, <3>2
  <2> QED
    BY <2>1, <2>2
<1>3. ff.done \/ pc = "reparent" => Answer(ff.p_prime, node)'
  BY <1>1, <1>2 DEF Protocol, Answer, TypeOK
<1>4. \A q \in Pid : Active(q) => Answer(clone_pid[q], q)'
  BY <1>1, <1>2 DEF Protocol, Answer
<1> QED
  BY <1>1, <1>2, <1>3, <1>4 DEF Protocol, Active, Waiting, Answer

LEMMA NextProtocol ==
  ASSUME ~Interruptible
  PROVE  Inv /\ Protocol /\ [Next]_vars => Protocol'
<1> SUFFICES ASSUME Inv, Protocol, [Next]_vars PROVE Protocol'
  OBVIOUS
<1>1. CASE UNCHANGED vars
  BY <1>1 DEF Protocol, Active, Waiting, Answer, vars, tree, prob, walk
<1>2. CASE InitModule \/ CleanupModule
  BY <1>2 DEF InitModule, CleanupModule, FreshModule, Inv, TypeInv, TypeOK, Globals,
              Session, Protocol, Active, Waiting, Answer, tree, prob, walk
<1>3. CASE Finish
  BY <1>3 DEF Finish, Caller, Protocol, Active, Waiting, Answer, prob, walk
<1>4. CASE Call \/ Handler
  BY <1>3, <1>4, QuietProtocol, MoveProtocol DEF Handler, Quiet
<1>5. CASE \E p \in Pid : Probe(p) \/ Fork(p) \/ Exit(p)
  BY <1>5, ForkProtocol, AnsweringProtocol, ProgramProtocol DEF Probe, Answering
<1> QED
  BY <1>1, <1>2, <1>4, <1>5 DEF Next, Rest

(* As long as no signal ends a wait, an answer is that of the process that *)
(* the caller waits for, in every tree and in every call, even if that     *)
(* process ends between its answer and the use the caller makes of it: its *)
(* copy is then a child of init, and p_prime all the same.                 *)
THEOREM AnswersMatch ==
  ASSUME ~Interruptible
  PROVE  Spec => []AnswerMatches
<1>1. Protocol => AnswerMatches
  BY DEF Protocol, Answer, AnswerMatches, Pid, None
<1> QED
  BY <1>1, InitInv, NextInv, InitProtocol, NextProtocol, PTL DEF Spec

-----------------------------------------------------------------------------
(* The wake-up of the caller.  Whatever it waits for is on its way: the    *)
(* target of the node, its probe, or the wake-up that follows done.        *)
Coming ==
  /\ Waiting /\ ~ff.done => ff.target_pid = node \/ Active(node)
  /\ NoLostWakeUp

LEMMA QuietComing ==
  ASSUME Inv, Protocol, Coming, Quiet \/ MoveGrandchild \/ Finish
  PROVE  Coming'
<1> USE DEF Inv, TypeInv
<1>1. UNCHANGED probe
  BY DEF Quiet, Call, Descend, ChildrenDone, Target, Wait, Interrupt, ClearDone,
         MoveGrandchild, MovesDone, Oops, Return, Finish, prob
<1>2. CASE Target
  BY <1>1, <1>2 DEF Target, Caller, Coming, NoLostWakeUp, Waiting, Active, walk, TypeOK,
                    Globals
<1>3. CASE Wait
  <2>1. /\ ff'.target_pid = ff.target_pid /\ ff'.done = ff.done /\ node' = node
        /\ pc' = "asleep" => ff'.wq /\ ~ff.done
        /\ pc = "wait" /\ pc' \in {"clear", "asleep"}
    BY <1>3 DEF Wait, Caller, walk, TypeOK, Globals
  <2> QED
    BY <1>1, <2>1 DEF Coming, NoLostWakeUp, Waiting, Active
<1>4. CASE (Quiet /\ ~Target /\ ~Wait) \/ MoveGrandchild \/ Finish
  <2>1. pc' \notin {"wait", "asleep"}
    BY <1>4 DEF Quiet, Call, Descend, ChildrenDone, Interrupt, ClearDone, MoveGrandchild,
                MovesDone, Oops, Return, Outer, Finish, Caller
  <2> QED
    BY <2>1 DEF Coming, NoLostWakeUp, Waiting
<1> QED
  BY <1>2, <1>3, <1>4

LEMMA ProbeComing ==
  ASSUME Inv, Protocol, Coming, NEW p \in Pid, Probe(p)
  PROVE  Coming'
<1> USE DEF Inv, TypeInv
<1>1. UNCHANGED node /\ \A q \in Pid : q # p => probe'[q] = probe[q]
  BY DEF Probe, AfterSchedule, AddToList, SetPrime, Untarget, SetDone, WakeCaller, Probing,
         walk, TypeOK
<1>2. CASE AfterSchedule(p) \/ AddToList(p) \/ SetPrime(p) \/ Untarget(p)
  <2>1. /\ pc' = pc /\ ff'.done = ff.done /\ ff'.wq = ff.wq /\ probe[p] # "wake"
        /\ probe'[p] \in {"add", "prime", "untarget", "done"}
    BY <1>2 DEF AfterSchedule, AddToList, SetPrime, Untarget, Probing, TypeOK, Globals
  <2>2. p = node
    BY <1>2 DEF AfterSchedule, AddToList, SetPrime, Untarget, Probing, Protocol, Active, Pid
  <2> QED
    BY <1>1, <2>1, <2>2 DEF Coming, NoLostWakeUp, Waiting, Active
<1>3. CASE SetDone(p)
  BY <1>1, <1>3 DEF SetDone, Probing, Coming, NoLostWakeUp, Waiting, Active, TypeOK, Globals
<1>4. CASE WakeCaller(p)
  <2>1. /\ pc' = IF ff.wq /\ pc = "asleep" THEN "wait" ELSE pc
        /\ ff'.done = ff.done /\ ff'.target_pid = ff.target_pid
    BY <1>4 DEF WakeCaller, Probing, TypeOK, Globals
  <2>2. pc' # "asleep" /\ (Waiting' => Waiting)
    BY <2>1 DEF Coming, NoLostWakeUp, Waiting
  <2>3. Active(node)' <=> Active(node)
    BY <1>1, <1>4 DEF WakeCaller, Probing, Active, TypeOK
  <2> QED
    BY <1>1, <2>1, <2>2, <2>3 DEF Coming, NoLostWakeUp
<1> QED
  BY <1>2, <1>3, <1>4 DEF Probe

LEMMA NextComing ==
  Inv /\ Protocol /\ Coming /\ [Next]_vars => Coming'
<1> SUFFICES ASSUME Inv, Protocol, Coming, [Next]_vars PROVE Coming'
  OBVIOUS
<1>1. CASE UNCHANGED vars
  BY <1>1 DEF Coming, NoLostWakeUp, Active, Waiting, vars, prob, walk
<1>2. CASE InitModule \/ CleanupModule
  BY <1>2 DEF InitModule, CleanupModule, Inv, Session, Coming, NoLostWakeUp, Waiting
<1>3. CASE Call \/ Handler
  BY <1>3, QuietComing DEF Handler, Quiet
<1>4. CASE \E p \in Pid : Fork(p) \/ Exit(p)
  BY <1>4 DEF Fork, Exit, Coming, NoLostWakeUp, Active, Waiting, prob, walk
<1>5. CASE \E p \in Pid : Probe(p)
  BY <1>5, ProbeComing
<1> QED
  BY <1>1, <1>2, <1>3, <1>4, <1>5 DEF Next, Rest

(* The caller never sleeps through its wake-up, whichever of the steps of  *)
(* its wait and of the probes come first: done is set before the wake-up,  *)
(* and tested after the caller has joined the queue.                       *)
THEOREM WakeUpIsComing ==
  ASSUME ~Interruptible
  PROVE  Spec => []NoLostWakeUp
<1>1. Init => Coming
  BY DEF Init, Coming, NoLostWakeUp, Waiting
<1>2. Coming => NoLostWakeUp
  BY DEF Coming
<1> QED
  BY <1>1, <1>2, InitInv, NextInv, InitProtocol, NextProtocol, NextComing, PTL DEF Spec
=============================================================================
