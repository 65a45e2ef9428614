-------------------------- MODULE TestProgramsProofs --------------------------
(***************************************************************************)
(* The whole full forks of a careful program can be joined: for all        *)
(* programs in which nobody forks a process that joins while threads run   *)
(* beside him, from where and in which processes system call 548 is made,  *)
(* however its steps fall between forks, ends and other calls, and         *)
(* whichever full forks fail.                                              *)
(***************************************************************************)
EXTENDS TestPrograms, TLAPS

(* The types of a process, whose threads run the scripts in Scripts.       *)
Todos(Scripts) == UNION {[D -> Scripts] : D \in SUBSET Nat}

Entry(Scripts) ==
  [state : {"running", "zombie", "gone"}, todo : Todos(Scripts), ending : SUBSET Nat,
   tids : SUBSET Nat, leader : Nat, phase : {"out", "begun", "frozen", "await"},
   hook : {"user", "tail", "build"}, parent : Seq(Int), clone : BOOLEAN, flaw : Flaws]

Typed(Scripts) == Process \subseteq Seq(Nat) /\ process \in [Process -> Entry(Scripts)]

(* A thread that joins finds its joinees, unless the process is a full fork*)
(* still to be built; one that forks a process that joins is alone.  In the*)
(* call the leader is there; a new process has only the leader.            *)
MeetsJoinees(r, Joins) ==
  r.flaw = "whole" /\ (r.hook = "user" \/ ~r.clone) =>
    \A x \in DOMAIN r.todo : Joins[r.todo[x]] \cap r.tids \subseteq DOMAIN r.todo \cup r.ending

ForksAlone(r, Joins) ==
  r.flaw # "mixed" =>
    \A x \in DOMAIN r.todo : ForksJoiner(r.todo[x], Joins) => r.tids = {} /\ DOMAIN r.todo = {x}

HasLeader(r) ==
  /\ r.phase # "out" => r.leader \in DOMAIN r.todo /\ r.hook = "user"
  /\ r.hook # "user" => DOMAIN r.todo = {r.leader} /\ r.ending = {}
  /\ r.hook = "build" => r.clone \/ r.flaw = "mixed"

Joinable(r, Joins) == MeetsJoinees(r, Joins) /\ ForksAlone(r, Joins) /\ HasLeader(r)

(* A full fork c still to be built, and the process r that waits for it.   *)
InStep(c, r) ==
  /\ r.phase \in {"await", "out"}
  /\ r.phase = "await" =>
       /\ c.leader = r.leader /\ c.todo[c.leader] = r.todo[c.leader]
       /\ r.flaw = "mixed" => c.flaw = "mixed"
       /\ c.flaw = "whole" => r.flaw = "whole" /\ c.tids = r.tids /\ r.ending = {}

ToBuild(c) == c.clone /\ c.hook # "user"

Waited ==
  \A q \in Process : ToBuild(process[q]) =>
    \/ process[q].parent = TheInit
    \/ /\ process[q].parent \in Process /\ q = Append(process[q].parent, Clone)
       /\ InStep(process[q], process[process[q].parent])

JoinInv(Scripts, Joins) ==
  Typed(Scripts) /\ (\A p \in Process : Joinable(process[p], Joins)) /\ Waited

(* What no step does to a process r that waits, or that is to be built.    *)
Follows(r, n) ==
  /\ n.clone = r.clone /\ n.parent \in {r.parent, TheInit}
  /\ n.hook # "user" => /\ r.hook # "user" /\ n.leader = r.leader /\ n.todo = r.todo
                        /\ n.tids = r.tids /\ (n.clone => n.flaw = r.flaw)
  /\ r.phase = "await" =>
       \/ n.phase = "out"
       \/ /\ n.phase = "await" /\ n.leader = r.leader /\ n.todo = r.todo /\ n.flaw = r.flaw
          /\ r.ending = {} => n.tids = r.tids /\ n.ending = {}

(* The call is made but once.                                              *)
CallsOnce(p, n) == process[p].phase = "out" => n.phase = "out" \/ IsFirst(p, Clone)

(* The fields that an operation of a thread leaves alone.                  *)
Alike(r, n) ==
  /\ n.clone = r.clone /\ n.parent = r.parent /\ n.hook = r.hook
  /\ n.phase = r.phase /\ n.flaw = r.flaw /\ n.leader = r.leader

-----------------------------------------------------------------------------
(* A function that gets one more entry, or keeps the one it has.           *)
LEMMA AddedType ==
  ASSUME NEW S, NEW f, \A z \in DOMAIN f : f[z] \in S, NEW a, NEW b \in S
  PROVE  Extended(f, a, b) \in [DOMAIN f \cup {a} -> S]
BY DEF Extended

(* The threads of a process and what they have to do.                      *)
LEMMA TypedThreads ==
  ASSUME NEW Scripts, NEW p, process[p] \in Entry(Scripts)
  PROVE  /\ process[p].todo \in [Threads(p) -> Scripts] /\ Threads(p) \in SUBSET Nat
         /\ \A x \in Threads(p) : Rest(p, x) \in Scripts
         /\ process[p].tids \in SUBSET Nat /\ process[p].ending \in SUBSET Nat
<1>1. /\ process[p].todo \in Todos(Scripts)
      /\ process[p].tids \in SUBSET Nat /\ process[p].ending \in SUBSET Nat
  BY DEF Entry
<1>2. PICK D \in SUBSET Nat : process[p].todo \in [D -> Scripts]
  BY <1>1 DEF Todos
<1> QED
  BY <1>1, <1>2 DEF Threads, Rest

LEMMA AnyTodo ==
  ASSUME NEW Scripts, NEW D \in SUBSET Nat, NEW f \in [D -> Scripts]
  PROVE  f \in Todos(Scripts)
BY DEF Todos

(* What a script leaves when its first operation is done.                  *)
LEMMA RestOfScript ==
  ASSUME NEW Scripts, NEW Ops, NEW Joins, Careful(Scripts, Ops, Joins),
         NEW s \in Scripts, s # <<>>
  PROVE  /\ Head(s) \in Operations(Scripts) /\ Head(s).body \in Scripts
         /\ Head(s).op \in {"create", "fork"} => Joins[Head(s).body] \subseteq Joins[s]
         /\ Head(s).op = "create" =>
              ~ForksJoiner(Tail(s), Joins) /\ ~ForksJoiner(Head(s).body, Joins)
         /\ Tail(s) \in Scripts
         /\ Joins[Tail(s)] \subseteq Joins[s]
         /\ ForksJoiner(Tail(s), Joins) => ForksJoiner(s, Joins)
         /\ Head(s).op = "fork" /\ Joins[Head(s).body] # {} => ForksJoiner(s, Joins)
         /\ Joins[s] \in SUBSET Nat
<1>1. s \in Seq(Ops) /\ Tail(s) \in Scripts /\ Joins[Tail(s)] \subseteq Joins[s]
      /\ Joins[s] \in SUBSET Nat
  BY DEF Careful
<1>2. Head(s) \in Ops /\ Head(s) = s[1] /\ 1 \in DOMAIN s
  BY <1>1
<1>3. \A i \in DOMAIN Tail(s) : i + 1 \in DOMAIN s /\ Tail(s)[i] = s[i + 1]
  BY <1>1
<1>4. Head(s) \in Operations(Scripts) /\ Head(s).body \in Scripts
  BY <1>2 DEF Careful, Operations
<1>7. /\ Head(s).op \in {"create", "fork"} => Joins[Head(s).body] \subseteq Joins[s]
      /\ Head(s).op = "create" =>
           ~ForksJoiner(Tail(s), Joins) /\ ~ForksJoiner(Head(s).body, Joins)
  BY <1>2 DEF Careful
<1>5. ForksJoiner(Tail(s), Joins) => ForksJoiner(s, Joins)
  BY <1>3 DEF ForksJoiner
<1>6. Head(s).op = "fork" /\ Joins[Head(s).body] # {} => ForksJoiner(s, Joins)
  BY <1>2 DEF ForksJoiner
<1> QED
  BY <1>1, <1>4, <1>5, <1>6, <1>7

(* A process after one of its threads has done an operation that touches   *)
(* nothing else.                                                           *)
LEMMA DoneIsJoinable ==
  ASSUME NEW Scripts, NEW Ops, NEW Joins, Careful(Scripts, Ops, Joins),
         NEW p \in Process, process[p] \in Entry(Scripts), Joinable(process[p], Joins),
         NEW x \in Threads(p), Rest(p, x) # <<>>
  PROVE  /\ Done(p, x) \in Entry(Scripts) /\ Joinable(Done(p, x), Joins)
         /\ Done(p, x) = [process[p] EXCEPT !.todo = Done(p, x).todo]
         /\ Alike(process[p], Done(p, x)) /\ Done(p, x).ending = process[p].ending
         /\ Done(p, x).tids = process[p].tids
         /\ DOMAIN Done(p, x).todo = Threads(p)
         /\ \A y \in Threads(p) :
              Done(p, x).todo[y] = IF y = x THEN Tail(Rest(p, x)) ELSE Rest(p, y)
<1> DEFINE r == process[p]
           d == Done(p, x)
<1>2. /\ r.todo \in [Threads(p) -> Scripts] /\ Threads(p) \in SUBSET Nat
      /\ Rest(p, x) \in Scripts
  BY TypedThreads
<1>3. /\ Tail(Rest(p, x)) \in Scripts /\ Joins[Tail(Rest(p, x))] \subseteq Joins[Rest(p, x)]
      /\ ForksJoiner(Tail(Rest(p, x)), Joins) => ForksJoiner(Rest(p, x), Joins)
  BY <1>2, RestOfScript
<1>4. d = [r EXCEPT !.todo = [r.todo EXCEPT ![x] = Tail(Rest(p, x))]]
  BY DEF Done, Rest, Entry
<1>5. /\ d.todo = [r.todo EXCEPT ![x] = Tail(Rest(p, x))]
      /\ d.tids = r.tids /\ d.ending = r.ending /\ Alike(r, d)
  BY <1>4 DEF Entry, Alike
<1>6. d.todo \in [Threads(p) -> Scripts]
  BY <1>2, <1>3, <1>5
<1>7. d.todo \in Todos(Scripts)
  BY <1>2, <1>6, AnyTodo
<1>8. d \in Entry(Scripts) /\ d = [r EXCEPT !.todo = d.todo]
  BY <1>4, <1>5, <1>7 DEF Entry
<1>9. \A y \in Threads(p) : d.todo[y] = IF y = x THEN Tail(Rest(p, x)) ELSE Rest(p, y)
  BY <1>2, <1>5 DEF Rest
<1>10. DOMAIN d.todo = Threads(p)
  BY <1>6
<1> HIDE DEF d
<1>11. MeetsJoinees(d, Joins)
  BY <1>3, <1>5, <1>9, <1>10 DEF Joinable, MeetsJoinees, Threads, Rest, Alike
<1>12. ForksAlone(d, Joins)
  BY <1>3, <1>5, <1>9, <1>10 DEF Joinable, ForksAlone, Threads, Rest, Alike
<1>13. HasLeader(d)
  BY <1>5, <1>10 DEF Joinable, HasLeader, Threads, Alike
<1> QED
  BY <1>5, <1>8, <1>9, <1>10, <1>11, <1>12, <1>13 DEF d, Joinable

LEMMA AlikeFollows ==
  ASSUME NEW r, NEW n, Alike(r, n), r.hook = "user", r.phase \in {"out", "begun"}
  PROVE  Follows(r, n)
BY DEF Alike, Follows

(* A full fork that is to be built stays in step with whoever waits.       *)
LEMMA WaitedStays ==
  ASSUME Waited, NEW q \in Process, Process \subseteq Process',
         \A z \in Process : Follows(process[z], process'[z]) /\ CallsOnce(z, process'[z]),
         ToBuild(process'[q])
  PROVE  \/ process'[q].parent = TheInit
         \/ /\ process'[q].parent \in Process' /\ q = Append(process'[q].parent, Clone)
            /\ InStep(process'[q], process'[process'[q].parent])
<1> SUFFICES ASSUME process'[q].parent # TheInit
             PROVE  /\ process'[q].parent \in Process' /\ q = Append(process'[q].parent, Clone)
                    /\ InStep(process'[q], process'[process'[q].parent])
  OBVIOUS
<1>1. PICK c, d : c = process[q] /\ d = process'[q]
  OBVIOUS
<1>2. Follows(c, d) /\ ToBuild(d) /\ d.parent # TheInit
  BY <1>1
<1>3. /\ ToBuild(c) /\ d.parent = c.parent /\ d.leader = c.leader /\ d.todo = c.todo
      /\ d.tids = c.tids /\ d.flaw = c.flaw
  BY <1>2 DEF Follows, ToBuild
<1>4. PICK p \in Process : p = c.parent /\ q = Append(p, Clone) /\ InStep(c, process[p])
  BY <1>1, <1>2, <1>3 DEF Waited
<1>5. PICK r, n : r = process[p] /\ n = process'[p]
  OBVIOUS
<1>6. Follows(r, n) /\ (r.phase = "out" => n.phase = "out") /\ InStep(c, r)
  BY <1>4, <1>5 DEF CallsOnce, IsFirst
<1>7. InStep(d, n)
  BY <1>3, <1>6 DEF Follows, InStep
<1> QED
  BY <1>1, <1>3, <1>4, <1>5, <1>7

(* One process changes, and one may be added.                              *)
LEMMA ChangesKeep ==
  ASSUME NEW Scripts, NEW Joins, JoinInv(Scripts, Joins), NEW q, q \in Seq(Nat),
         process' = [z \in DOMAIN process' |-> process'[z]],
         Process \subseteq Process', Process' \subseteq Process \cup {q},
         \A z \in Process' : process'[z] \in Entry(Scripts) /\ Joinable(process'[z], Joins),
         \A z \in Process : Follows(process[z], process'[z]) /\ CallsOnce(z, process'[z]),
         q \notin Process /\ ToBuild(process'[q]) =>
           /\ process'[q].parent \in Process /\ q = Append(process'[q].parent, Clone)
           /\ InStep(process'[q], process'[process'[q].parent])
  PROVE  JoinInv(Scripts, Joins)'
<1>1. Typed(Scripts)'
  BY DEF JoinInv, Typed, Process
<1>2. Waited'
  <2> SUFFICES ASSUME NEW z \in Process', ToBuild(process'[z])
               PROVE  \/ process'[z].parent = TheInit
                      \/ /\ process'[z].parent \in Process'
                         /\ z = Append(process'[z].parent, Clone)
                         /\ InStep(process'[z], process'[process'[z].parent])
    BY DEF Waited, ToBuild, InStep
  <2>1. CASE z \in Process
    BY <2>1, WaitedStays DEF JoinInv
  <2>2. CASE z \notin Process
    BY <2>2
  <2> QED
    BY <2>1, <2>2
<1> QED
  BY <1>1, <1>2 DEF JoinInv, Joinable, MeetsJoinees, ForksAlone, HasLeader

LEMMA FollowsItself ==
  ASSUME NEW p
  PROVE  Follows(process[p], process[p]) /\ CallsOnce(p, process[p])
BY DEF Follows, CallsOnce

LEMMA BecomesKeeps ==
  ASSUME NEW Scripts, NEW Joins, JoinInv(Scripts, Joins), NEW p \in Process,
         NEW new \in Entry(Scripts), Joinable(new, Joins), Becomes(p, new),
         Follows(process[p], new), CallsOnce(p, new)
  PROVE  JoinInv(Scripts, Joins)'
<1>1. /\ Process' = Process /\ process'[p] = new /\ p \in Seq(Nat)
      /\ \A z \in Process : z # p => process'[z] = process[z]
      /\ process' = [z \in DOMAIN process' |-> process'[z]]
  BY DEF JoinInv, Typed, Process, Becomes
<1>2. \A z \in Process : process'[z] \in Entry(Scripts) /\ Joinable(process'[z], Joins)
  BY <1>1 DEF JoinInv, Typed
<1>3. \A z \in Process : Follows(process[z], process'[z]) /\ CallsOnce(z, process'[z])
  BY <1>1, FollowsItself
<1> QED
  BY <1>1, <1>2, <1>3, ChangesKeep

(* An operation of a thread.                                               *)
LEMMA OperationKeeps ==
  ASSUME NEW Scripts, NEW Joins, JoinInv(Scripts, Joins), NEW p \in Process,
         NEW new \in Entry(Scripts), Joinable(new, Joins), Becomes(p, new),
         Alike(process[p], new), NEW x, Runs(p, x)
  PROVE  JoinInv(Scripts, Joins)'
<1>1. Follows(process[p], new)
  BY AlikeFollows DEF Runs
<1>2. CallsOnce(p, new)
  BY DEF CallsOnce, Alike
<1> QED
  BY <1>1, <1>2, BecomesKeeps

LEMMA AddsKeeps ==
  ASSUME NEW Scripts, NEW Joins, JoinInv(Scripts, Joins), NEW p \in Process,
         NEW new \in Entry(Scripts), Joinable(new, Joins),
         Follows(process[p], new), CallsOnce(p, new),
         NEW q \in Seq(Nat), NEW born \in Entry(Scripts), Joinable(born, Joins), q \notin Process,
         ToBuild(born) => born.parent = p /\ q = Append(p, Clone) /\ InStep(born, new),
         process' = Extended([process EXCEPT ![p] = new], q, born)
  PROVE  JoinInv(Scripts, Joins)'
<1> DEFINE f == [process EXCEPT ![p] = new]
<1>1. /\ DOMAIN f = Process /\ f[p] = new
      /\ \A z \in Process : z # p => f[z] = process[z]
  BY DEF JoinInv, Typed, Process
<1>2. process' = Extended(f, q, born)
  OBVIOUS
<1> HIDE DEF f
<1>3. /\ Process' = Process \cup {q} /\ process'[p] = new /\ process'[q] = born
      /\ \A z \in Process : z # p => process'[z] = process[z]
      /\ process' = [z \in DOMAIN process' |-> process'[z]]
  BY <1>1, <1>2 DEF Extended, Process
<1>4. \A z \in Process' : process'[z] \in Entry(Scripts) /\ Joinable(process'[z], Joins)
  BY <1>3 DEF JoinInv, Typed
<1>5. \A z \in Process : Follows(process[z], process'[z]) /\ CallsOnce(z, process'[z])
  BY <1>3, FollowsItself
<1> QED
  BY <1>3, <1>4, <1>5, ChangesKeep

-----------------------------------------------------------------------------
(* The steps of the program.                                               *)

LEMMA CreateKeeps ==
  ASSUME NEW Scripts, NEW Ops, NEW Joins, Careful(Scripts, Ops, Joins),
         JoinInv(Scripts, Joins), NEW p \in Process, NEW x, Create(p, x)
  PROVE  JoinInv(Scripts, Joins)'
<1> DEFINE s == Rest(p, x)
           d == Done(p, x)
<1>1. x \in Threads(p) /\ s # <<>> /\ Head(s).op = "create" /\ Runs(p, x)
  BY DEF Create, Does, Runs
<1>2. process[p] \in Entry(Scripts) /\ Joinable(process[p], Joins)
  BY DEF JoinInv, Typed
<1>3. s \in Scripts
  BY <1>1, <1>2, TypedThreads
<1>4. PICK n \in Head(s).who :
        Becomes(p, [d EXCEPT !.todo = Extended(@, n, Head(s).body), !.tids = @ \cup {n}])
  BY DEF Create
<1> DEFINE new == [d EXCEPT !.todo = Extended(@, n, Head(s).body), !.tids = @ \cup {n}]
<1>5. /\ d \in Entry(Scripts) /\ Joinable(d, Joins) /\ DOMAIN d.todo = Threads(p)
      /\ d.todo[x] = Tail(s) /\ Alike(process[p], d)
      /\ d.tids = process[p].tids /\ d.ending = process[p].ending
  <2> HIDE DEF d
  <2> USE <1>1, <1>2, DoneIsJoinable
  <2>1. /\ d \in Entry(Scripts) /\ Joinable(d, Joins) /\ DOMAIN d.todo = Threads(p)
        /\ Alike(process[p], d) /\ d.tids = process[p].tids
        /\ d.ending = process[p].ending
    BY DEF d
  <2>2. \A y \in Threads(p) : d.todo[y] = IF y = x THEN Tail(s) ELSE Rest(p, y)
    BY DEF d
  <2> QED
    BY <2>1, <2>2, <1>1
<1>6. /\ Head(s) \in Operations(Scripts) /\ Joins[Head(s).body] \subseteq Joins[s]
      /\ ~ForksJoiner(Tail(s), Joins) /\ ~ForksJoiner(Head(s).body, Joins)
  BY <1>1, <1>3, RestOfScript
<1>7. n \in Nat /\ Head(s).body \in Scripts
  BY <1>3, <1>1, <1>6, RestOfScript DEF Operations
<1> HIDE DEF d
<1>8. /\ DOMAIN new.todo = Threads(p) \cup {n} /\ new.tids = d.tids \cup {n}
      /\ new.ending = d.ending /\ Alike(process[p], new)
      /\ new.todo = Extended(d.todo, n, Head(s).body)
  <2>1. new.todo = Extended(d.todo, n, Head(s).body)
    BY <1>5 DEF Entry
  <2>2. DOMAIN new.todo = Threads(p) \cup {n}
    BY <1>5, <2>1 DEF Extended
  <2> QED
    BY <1>5, <2>1, <2>2 DEF Entry, Alike
<1>9. /\ \A y \in Threads(p) : new.todo[y] = d.todo[y]
      /\ n \notin Threads(p) => new.todo[n] = Head(s).body
  BY <1>5, <1>8 DEF Extended
<1>10. new \in Entry(Scripts)
  <2>1. d.todo \in [Threads(p) -> Scripts] /\ Threads(p) \in SUBSET Nat
    <3>1. PICK D \in SUBSET Nat : d.todo \in [D -> Scripts]
      BY <1>5 DEF Entry, Todos
    <3> QED
      BY <1>5, <3>1
  <2>2. new.todo \in [Threads(p) \cup {n} -> Scripts] /\ Threads(p) \cup {n} \in SUBSET Nat
    BY <1>7, <1>8, <1>9, <2>1 DEF Extended
  <2>3. new.todo \in Todos(Scripts)
    BY <2>2, AnyTodo
  <2> QED
    BY <1>5, <1>7, <1>8, <2>3 DEF Entry
<1> HIDE DEF new
<1>11. Joinable(new, Joins)
  <2>0. /\ new.flaw = d.flaw /\ new.hook = "user" /\ d.hook = "user" /\ new.leader = d.leader
        /\ new.phase = d.phase
    BY <1>1, <1>5, <1>8 DEF Alike, Runs
  <2>1. d.flaw = "whole" => Joins[s] \cap d.tids \subseteq Threads(p) \cup d.ending
    BY <1>1, <1>2, <1>5 DEF Joinable, MeetsJoinees, Alike, Runs, Threads, Rest
  <2>2. \A y \in Threads(p) \cup {n} : y \notin Threads(p) \/ y = x \/ y \in Threads(p) \ {x}
    OBVIOUS
  <2>3. MeetsJoinees(new, Joins)
    <3> SUFFICES ASSUME NEW y \in Threads(p) \cup {n}, d.flaw = "whole"
                 PROVE  Joins[new.todo[y]] \cap (d.tids \cup {n})
                          \subseteq Threads(p) \cup {n} \cup d.ending
      BY <1>8, <2>0 DEF MeetsJoinees
    <3>1. CASE y \notin Threads(p)
      BY <1>6, <1>9, <2>1, <3>1
    <3>2. CASE y \in Threads(p)
      BY <1>5, <1>9, <2>0, <3>2 DEF Joinable, MeetsJoinees
    <3> QED
      BY <3>1, <3>2
  <2>4. ForksAlone(new, Joins)
    <3> SUFFICES ASSUME NEW y \in Threads(p) \cup {n}, d.flaw # "mixed"
                 PROVE  ~ForksJoiner(new.todo[y], Joins)
      BY <1>8, <2>0 DEF ForksAlone
    <3>1. CASE y \notin Threads(p)
      BY <1>6, <1>9, <3>1
    <3>2. CASE y = x
      BY <1>1, <1>5, <1>6, <1>9, <3>2
    <3>3. CASE y \in Threads(p) \ {x}
      BY <1>1, <1>5, <1>9, <3>3 DEF Joinable, ForksAlone
    <3> QED
      BY <3>1, <3>2, <3>3
  <2>5. HasLeader(new)
    BY <1>5, <1>8, <2>0 DEF Joinable, HasLeader
  <2> QED
    BY <2>3, <2>4, <2>5 DEF Joinable
<1> QED
  BY <1>1, <1>4, <1>8, <1>10, <1>11, OperationKeeps DEF d, new

LEMMA JoinKeeps ==
  ASSUME NEW Scripts, NEW Ops, NEW Joins, Careful(Scripts, Ops, Joins),
         JoinInv(Scripts, Joins), NEW p \in Process, NEW x, Join(p, x)
  PROVE  JoinInv(Scripts, Joins)'
<1>1. x \in Threads(p) /\ Rest(p, x) # <<>> /\ Becomes(p, Done(p, x)) /\ Runs(p, x)
  BY DEF Join, Does, Runs
<1>2. process[p] \in Entry(Scripts) /\ Joinable(process[p], Joins)
  BY DEF JoinInv, Typed
<1> QED
  BY <1>1, <1>2, DoneIsJoinable, OperationKeeps

LEMMA ForkKeeps ==
  ASSUME NEW Scripts, NEW Ops, NEW Joins, Careful(Scripts, Ops, Joins),
         JoinInv(Scripts, Joins), NEW p \in Process, NEW x \in Nat, Fork(p, x)
  PROVE  JoinInv(Scripts, Joins)'
<1> DEFINE r == process[p]
           s == Rest(p, x)
           body == Head(s).body
           todo == Only(x, body)
           flaw == IF r.flaw = "mixed" THEN "mixed" ELSE "whole"
           born == NewProcess(p, x, todo, r.tids, flaw)
<1>1. x \in Threads(p) /\ s # <<>> /\ Head(s).op = "fork" /\ Runs(p, x) /\ IsFirst(p, x)
  BY DEF Fork, Does, Runs
<1>2. r \in Entry(Scripts) /\ Joinable(r, Joins) /\ p \in Seq(Nat)
  BY DEF JoinInv, Typed
<1>3. s \in Scripts
  BY <1>1, <1>2, TypedThreads
<1>4. body \in Scripts /\ (Joins[body] # {} => ForksJoiner(s, Joins))
  BY <1>1, <1>3, RestOfScript
<1>5. ForksJoiner(s, Joins) /\ r.flaw # "mixed" => r.tids = {}
  BY <1>1, <1>2 DEF Joinable, ForksAlone, Threads, Rest
<1>6. ForksJoiner(body, Joins) => Joins[body] # {}
  <2>1. ASSUME NEW i \in DOMAIN body, body[i].op = "fork",
               Joins[body[i].body] # {}
        PROVE  Joins[body] # {}
    BY <2>1, <1>4 DEF Careful
  <2> QED
    BY <2>1 DEF ForksJoiner
<1>7. todo \in Todos(Scripts) /\ DOMAIN todo = {x} /\ todo[x] = body
  <2>1. todo \in [{x} -> Scripts]
    BY <1>4 DEF Only
  <2> QED
    BY <2>1, AnyTodo DEF Only
<1> HIDE DEF todo, body, s
<1>8. /\ born \in Entry(Scripts) /\ born.todo = todo /\ born.tids = r.tids /\ ~born.clone
      /\ born.flaw = flaw /\ born.hook = "tail" /\ born.phase = "out" /\ born.leader = x
      /\ born.ending = {}
  <2>1. p \in Seq(Int) /\ flaw \in Flaws
    BY <1>2 DEF Flaws
  <2> HIDE DEF flaw
  <2> QED
    BY <1>2, <1>7, <2>1 DEF Entry, NewProcess
<1>9. process' = Extended([process EXCEPT ![p] = Done(p, x)], Append(p, x), born)
  BY DEF Fork, todo, body, s
<1>10. Append(p, x) \in Seq(Nat) /\ Append(p, x) \notin Process
  BY <1>1, <1>2 DEF IsFirst
<1> HIDE DEF born
<1>11. Joinable(born, Joins)
  BY <1>4, <1>5, <1>6, <1>7, <1>8 DEF Joinable, MeetsJoinees, ForksAlone, HasLeader
<1>12. /\ Done(p, x) \in Entry(Scripts) /\ Joinable(Done(p, x), Joins)
       /\ Alike(r, Done(p, x))
  BY <1>1, <1>2, DoneIsJoinable DEF s
<1>13. Follows(r, Done(p, x)) /\ CallsOnce(p, Done(p, x))
  BY <1>1, <1>12, AlikeFollows DEF Runs, CallsOnce, Alike
<1>14. ~ToBuild(born)
  BY <1>8 DEF ToBuild
<1> QED
  BY <1>8, <1>9, <1>10, <1>11, <1>12, <1>13, <1>14, AddsKeeps

(* A process changes in nothing but its state.                             *)
LEMMA OtherState ==
  ASSUME NEW Scripts, NEW Joins, NEW r \in Entry(Scripts), Joinable(r, Joins)
  PROVE  LET n == [r EXCEPT !.state = "gone"]
         IN  /\ n \in Entry(Scripts) /\ Joinable(n, Joins)
             /\ \A b : Follows(b, r) => Follows(b, n)
             /\ n.phase = r.phase
<1> DEFINE n == [r EXCEPT !.state = "gone"]
<1>1. /\ n \in Entry(Scripts) /\ n.todo = r.todo /\ n.tids = r.tids
      /\ n.ending = r.ending /\ Alike(r, n)
  BY DEF Entry, Alike
<1> HIDE DEF n
<1>2. Joinable(n, Joins)
  BY <1>1 DEF Alike, Joinable, MeetsJoinees, ForksAlone, HasLeader
<1>3. \A b : Follows(b, r) => Follows(b, n)
  BY <1>1 DEF Alike, Follows
<1> QED
  BY <1>1, <1>2, <1>3 DEF n, Alike

LEMMA WaitKeeps ==
  ASSUME NEW Scripts, NEW Ops, NEW Joins, Careful(Scripts, Ops, Joins),
         JoinInv(Scripts, Joins), NEW p \in Process, NEW x, Wait(p, x)
  PROVE  JoinInv(Scripts, Joins)'
<1> DEFINE d == Done(p, x)
<1>1. x \in Threads(p) /\ Rest(p, x) # <<>> /\ Runs(p, x)
  BY DEF Wait, Does, Runs
<1>2. process[p] \in Entry(Scripts) /\ Joinable(process[p], Joins)
  BY DEF JoinInv, Typed
<1>3. d \in Entry(Scripts) /\ Joinable(d, Joins) /\ Alike(process[p], d)
  BY <1>1, <1>2, DoneIsJoinable
<1> HIDE DEF d
<1>4. CASE Becomes(p, d)
  BY <1>1, <1>3, <1>4, OperationKeeps
<1>5. ASSUME NEW q \in Process,
             process' = [process EXCEPT ![p] = d, ![q].state = "gone"]
      PROVE  JoinInv(Scripts, Joins)'
  <2> DEFINE f == [process EXCEPT ![p] = d]
  <2>0. Follows(process[p], d) /\ CallsOnce(p, d)
    BY <1>1, <1>3, AlikeFollows DEF Runs, CallsOnce, Alike
  <2>1. /\ f \in [Process -> Entry(Scripts)]
        /\ \A z \in Process : f[z] \in Entry(Scripts) /\ Joinable(f[z], Joins)
        /\ \A z \in Process : Follows(process[z], f[z]) /\ CallsOnce(z, f[z])
    BY <1>3, <2>0, FollowsItself DEF JoinInv, Typed
  <2>2. process' = [f EXCEPT ![q].state = "gone"]
    BY <1>5
  <2> HIDE DEF f
  <2> DEFINE gone == [f[q] EXCEPT !.state = "gone"]
  <2>3. /\ gone \in Entry(Scripts) /\ Joinable(gone, Joins)
        /\ Follows(process[q], gone) /\ CallsOnce(q, gone)
    BY <2>1, OtherState DEF CallsOnce
  <2>4. process' = [f EXCEPT ![q] = gone]
    BY <2>2
  <2> HIDE DEF gone
  <2>5. /\ Process' = Process /\ process' = [z \in DOMAIN process' |-> process'[z]]
        /\ \A z \in Process : process'[z] = IF z = q THEN gone ELSE f[z]
    BY <2>1, <2>4 DEF Process
  <2>6. q \in Seq(Nat)
    BY DEF JoinInv, Typed
  <2> QED
    BY <2>1, <2>3, <2>5, <2>6, ChangesKeep
<1> QED
  BY <1>4, <1>5 DEF Wait, d

LEMMA EndKeeps ==
  ASSUME NEW Scripts, NEW Joins, JoinInv(Scripts, Joins), NEW p \in Process, NEW x, End(p, x)
  PROVE  JoinInv(Scripts, Joins)'
<1> DEFINE r == process[p]
           todo == Without(r.todo, x)
<1>1. x \in Threads(p) /\ x # r.leader /\ Runs(p, x)
  BY DEF End, Runs
<1>2. r \in Entry(Scripts) /\ Joinable(r, Joins)
  BY DEF JoinInv, Typed
<1>3. /\ r.todo \in [Threads(p) -> Scripts] /\ Threads(p) \in SUBSET Nat
      /\ r.tids \in SUBSET Nat /\ r.ending \in SUBSET Nat
  BY <1>2, TypedThreads
<1>4. DOMAIN todo = Threads(p) \ {x} /\ \A y \in DOMAIN todo : todo[y] = r.todo[y]
  BY <1>3 DEF Without, Restrict
<1>5. todo \in [Threads(p) \ {x} -> Scripts]
  BY <1>3 DEF Without, Restrict
<1>6. todo \in Todos(Scripts)
  BY <1>3, <1>5, AnyTodo
<1> DEFINE ended == [r EXCEPT !.todo = todo, !.tids = @ \ {x}]
           left  == [r EXCEPT !.todo = todo, !.ending = @ \cup {x}]
<1>7. Becomes(p, ended) \/ Becomes(p, left)
  BY DEF End
<1> HIDE DEF todo
<1>8. /\ ended \in Entry(Scripts) /\ ended.todo = todo /\ ended.tids = r.tids \ {x}
      /\ ended.ending = r.ending /\ Alike(r, ended)
  BY <1>2, <1>6 DEF Entry, Alike
<1>9. /\ left \in Entry(Scripts) /\ left.todo = todo /\ left.tids = r.tids
      /\ left.ending = r.ending \cup {x} /\ Alike(r, left)
  BY <1>1, <1>2, <1>3, <1>6 DEF Entry, Alike
<1> HIDE DEF ended, left
<1>10. Joinable(ended, Joins)
  <2>1. MeetsJoinees(ended, Joins)
    BY <1>2, <1>4, <1>8 DEF Joinable, MeetsJoinees, Threads, Alike
  <2>2. ForksAlone(ended, Joins)
    BY <1>1, <1>2, <1>4, <1>8 DEF Joinable, ForksAlone, Threads, Alike
  <2>3. HasLeader(ended)
    BY <1>1, <1>2, <1>4, <1>8 DEF Joinable, HasLeader, Threads, Alike, Runs
  <2> QED
    BY <2>1, <2>2, <2>3 DEF Joinable
<1>11. Joinable(left, Joins)
  <2>1. MeetsJoinees(left, Joins)
    BY <1>2, <1>4, <1>9 DEF Joinable, MeetsJoinees, Threads, Alike
  <2>2. ForksAlone(left, Joins)
    BY <1>1, <1>2, <1>4, <1>9 DEF Joinable, ForksAlone, Threads, Alike
  <2>3. HasLeader(left)
    BY <1>1, <1>2, <1>4, <1>9 DEF Joinable, HasLeader, Threads, Alike, Runs
  <2> QED
    BY <2>1, <2>2, <2>3 DEF Joinable
<1> QED
  BY <1>1, <1>7, <1>8, <1>9, <1>10, <1>11, OperationKeeps

LEMMA ClearTidKeeps ==
  ASSUME NEW Scripts, NEW Joins, JoinInv(Scripts, Joins), NEW p \in Process, NEW x,
         ClearTid(p, x)
  PROVE  JoinInv(Scripts, Joins)'
<1> DEFINE r == process[p]
           new == [r EXCEPT !.ending = @ \ {x}, !.tids = @ \ {x}]
<1>1. r \in Entry(Scripts) /\ Joinable(r, Joins)
  BY DEF JoinInv, Typed
<1>2. /\ new \in Entry(Scripts) /\ new.todo = r.todo /\ new.tids = r.tids \ {x}
      /\ new.ending = r.ending \ {x} /\ Alike(r, new)
  BY <1>1 DEF Entry, Alike
<1>3. Becomes(p, new) /\ r.ending # {}
  BY DEF ClearTid
<1> HIDE DEF new
<1>4. MeetsJoinees(new, Joins) /\ ForksAlone(new, Joins)
  BY <1>1, <1>2 DEF Joinable, MeetsJoinees, ForksAlone, Alike
<1>5. HasLeader(new) /\ r.hook = "user"
  BY <1>1, <1>2, <1>3 DEF Joinable, HasLeader, Alike
<1>6. Follows(r, new)
  BY <1>2, <1>3, <1>5 DEF Follows, Alike
<1>7. CallsOnce(p, new)
  BY <1>2 DEF CallsOnce, Alike
<1> QED
  BY <1>2, <1>3, <1>4, <1>5, <1>6, <1>7, BecomesKeeps DEF Joinable

LEMMA ExitKeeps ==
  ASSUME NEW Scripts, NEW Joins, JoinInv(Scripts, Joins), NEW p \in Process, NEW x,
         Exit(p, x)
  PROVE  JoinInv(Scripts, Joins)'
<1>1. \A q \in Process : process[q] \in Entry(Scripts) /\ Joinable(process[q], Joins)
  BY DEF JoinInv, Typed
<1>2. process[p].hook = "user"
  BY DEF Exit, Does, Runs
<1> DEFINE over == [process[p] EXCEPT
                      !.state = IF process[p].parent = TheInit THEN "gone" ELSE "zombie",
                      !.todo = <<>>, !.ending = {}, !.tids = {}, !.phase = "out"]
           left(q) == [process[q] EXCEPT !.parent = TheInit,
                                         !.state = IF @ = "zombie" THEN "gone" ELSE @]
<1>3. /\ over \in Entry(Scripts) /\ Joinable(over, Joins)
      /\ Follows(process[p], over) /\ CallsOnce(p, over)
  <2>1. <<>> \in Todos(Scripts) /\ DOMAIN <<>> = {}
    <3>1. <<>> \in [{} -> Scripts]
      OBVIOUS
    <3> QED
      BY <3>1, AnyTodo
  <2>2. /\ over \in Entry(Scripts) /\ over.todo = <<>> /\ over.phase = "out"
        /\ over.hook = "user" /\ over.clone = process[p].clone
        /\ over.parent = process[p].parent
    BY <1>1, <1>2, <2>1 DEF Entry
  <2> HIDE DEF over
  <2> QED
    BY <2>1, <2>2 DEF Joinable, MeetsJoinees, ForksAlone, HasLeader, Follows, CallsOnce
<1>4. ASSUME NEW q \in Process
      PROVE  /\ left(q) \in Entry(Scripts) /\ Joinable(left(q), Joins)
             /\ Follows(process[q], left(q)) /\ CallsOnce(q, left(q))
  <2>1. TheInit \in Seq(Int)
    BY DEF TheInit
  <2>2. /\ left(q) \in Entry(Scripts) /\ left(q).parent = TheInit
        /\ left(q).todo = process[q].todo /\ left(q).tids = process[q].tids
        /\ left(q).ending = process[q].ending /\ left(q).flaw = process[q].flaw
        /\ left(q).hook = process[q].hook /\ left(q).phase = process[q].phase
        /\ left(q).leader = process[q].leader /\ left(q).clone = process[q].clone
    BY <1>1, <2>1 DEF Entry
  <2> HIDE DEF left
  <2>3. Joinable(left(q), Joins)
    BY <1>1, <2>2 DEF Joinable, MeetsJoinees, ForksAlone, HasLeader
  <2>4. Follows(process[q], left(q)) /\ CallsOnce(q, left(q))
    BY <2>2 DEF Follows, CallsOnce
  <2> QED
    BY <2>2, <2>3, <2>4
<1>5. process' = [q \in Process |-> IF q = p THEN over
                                    ELSE IF IsChild(q, p) THEN left(q) ELSE process[q]]
  BY DEF Exit
<1> HIDE DEF over, left
<1>6. /\ Process' = Process /\ process' = [z \in DOMAIN process' |-> process'[z]]
      /\ \A z \in Process :
           process'[z] \in {IF z = p THEN over ELSE left(z), IF z = p THEN over ELSE process[z]}
  BY <1>5 DEF Process
<1>7. \A z \in Process :
        /\ process'[z] \in Entry(Scripts) /\ Joinable(process'[z], Joins)
        /\ Follows(process[z], process'[z]) /\ CallsOnce(z, process'[z])
  <2> TAKE z \in Process
  <2>1. CASE z = p
    BY <1>3, <1>6, <2>1
  <2>2. CASE z # p
    BY <1>1, <1>4, <1>6, <2>2, FollowsItself
  <2> QED
    BY <2>1, <2>2
<1>8. p \in Seq(Nat)
  BY DEF JoinInv, Typed
<1> QED
  BY <1>6, <1>7, <1>8, ChangesKeep

-----------------------------------------------------------------------------
(* The steps of the system call.                                           *)

LEMMA NewPhase ==
  ASSUME NEW Scripts, NEW Joins, NEW r \in Entry(Scripts), Joinable(r, Joins),
         NEW next \in {"out", "begun", "frozen", "await"},
         next # "out" => r.leader \in DOMAIN r.todo /\ r.hook = "user",
         NEW n, n = [r EXCEPT !.phase = next]
  PROVE  /\ n \in Entry(Scripts) /\ Joinable(n, Joins) /\ n.phase = next
         /\ n.todo = r.todo /\ n.tids = r.tids /\ n.ending = r.ending
         /\ n.leader = r.leader /\ n.flaw = r.flaw /\ n.hook = r.hook
         /\ n.clone = r.clone /\ n.parent = r.parent
<1>1. /\ n \in Entry(Scripts) /\ n.phase = next
      /\ n.todo = r.todo /\ n.tids = r.tids /\ n.ending = r.ending
      /\ n.leader = r.leader /\ n.flaw = r.flaw /\ n.hook = r.hook
      /\ n.clone = r.clone /\ n.parent = r.parent
  BY DEF Entry
<1>2. Joinable(n, Joins)
  BY <1>1 DEF Joinable, MeetsJoinees, ForksAlone, HasLeader
<1> QED
  BY <1>1, <1>2

(* Whoever gets as far as to have stopped the others or to have given up is*)
(* not yet waited for.                                                     *)
LEMMA PhaseKeeps ==
  ASSUME NEW Scripts, NEW Joins, JoinInv(Scripts, Joins), NEW p \in Process,
         NEW r \in Entry(Scripts), Joinable(r, Joins),
         r.hook = "user" /\ r.leader \in DOMAIN r.todo /\ r.clone = process[p].clone
           /\ r.parent = process[p].parent,
         NEW next \in {"out", "begun", "frozen", "await"},
         next = "out" \/ process[p].phase # "await",
         next = "out" \/ process[p].phase # "out" \/ IsFirst(p, Clone),
         Becomes(p, [r EXCEPT !.phase = next])
  PROVE  JoinInv(Scripts, Joins)'
<1>2. PICK n : n = [r EXCEPT !.phase = next] /\ Becomes(p, n)
  OBVIOUS
<1>1. /\ n \in Entry(Scripts) /\ Joinable(n, Joins) /\ n.phase = next
      /\ n.hook = "user" /\ n.clone = process[p].clone /\ n.parent = process[p].parent
  BY <1>2, NewPhase
<1>3. Follows(process[p], n) /\ CallsOnce(p, n)
  BY <1>1 DEF Follows, CallsOnce
<1> QED
  BY <1>1, <1>2, <1>3, BecomesKeeps

LEMMA CallKeeps ==
  ASSUME NEW Scripts, NEW Ops, NEW Joins, Careful(Scripts, Ops, Joins),
         JoinInv(Scripts, Joins), NEW p \in Process, Call(p)
  PROVE  JoinInv(Scripts, Joins)'
<1> DEFINE x == process[p].leader
           d == Done(p, x)
<1>1. process[p] \in Entry(Scripts) /\ Joinable(process[p], Joins)
  BY DEF JoinInv, Typed
<1>2. /\ x \in Threads(p) /\ Rest(p, x) # <<>> /\ IsFirst(p, Clone)
      /\ process[p].phase = "out" /\ process[p].hook = "user"
  BY DEF Call, Does, Runs
<1>3. /\ d \in Entry(Scripts) /\ Joinable(d, Joins) /\ Alike(process[p], d)
      /\ DOMAIN d.todo = Threads(p)
  BY <1>1, <1>2, DoneIsJoinable
<1>4. PICK next \in {"begun", "frozen"} : Becomes(p, [d EXCEPT !.phase = next])
  BY DEF Call
<1> HIDE DEF d
<1> QED
  BY <1>2, <1>3, <1>4, PhaseKeeps DEF Alike

LEMMA StopReturnKeep ==
  ASSUME NEW Scripts, NEW Joins, JoinInv(Scripts, Joins), NEW p \in Process,
         Stop(p) \/ Return(p)
  PROVE  JoinInv(Scripts, Joins)'
<1>1. /\ process[p] \in Entry(Scripts) /\ Joinable(process[p], Joins)
      /\ process[p].phase \in {"begun", "await"}
  BY DEF JoinInv, Typed, Stop, Return
<1>2. process[p].hook = "user" /\ process[p].leader \in DOMAIN process[p].todo
  BY <1>1 DEF Joinable, HasLeader
<1>3. PICK next \in {"out", "frozen"} :
        /\ Becomes(p, [process[p] EXCEPT !.phase = next])
        /\ next = "out" \/ process[p].phase # "await"
  BY DEF Stop, Return, Thawed
<1> QED
  BY <1>1, <1>2, <1>3, PhaseKeeps

LEMMA LeaderCloneKeeps ==
  ASSUME NEW Scripts, NEW Joins, JoinInv(Scripts, Joins), NEW p \in Process, LeaderClone(p)
  PROVE  JoinInv(Scripts, Joins)'
<1> DEFINE r == process[p]
           x == r.leader
           todo == Restrict(r.todo, {x})
           flaw == IF r.flaw # "whole" THEN r.flaw
                   ELSE IF r.ending # {} THEN "halfway" ELSE "whole"
           born == [NewProcess(p, x, todo, r.tids, flaw) EXCEPT !.clone = TRUE]
           q == Append(p, Clone)
<1>1. /\ r \in Entry(Scripts) /\ Joinable(r, Joins) /\ r.phase = "frozen" /\ p \in Seq(Nat)
      /\ r.todo \in [Threads(p) -> Scripts] /\ Threads(p) \in SUBSET Nat
  BY TypedThreads DEF JoinInv, Typed, LeaderClone
<1>2. r.hook = "user" /\ x \in DOMAIN r.todo
  BY <1>1 DEF Joinable, HasLeader
<1>3. CASE Becomes(p, Thawed(p))
  BY <1>1, <1>2, <1>3, PhaseKeeps DEF Thawed
<1>4. CASE process' = Extended([process EXCEPT ![p].phase = "await"], q, born)
  <2>1. todo \in [{x} -> Scripts] /\ todo[x] = r.todo[x] /\ x \in Nat
    BY <1>1, <1>2 DEF Restrict, Entry
  <2>2. todo \in Todos(Scripts) /\ DOMAIN todo = {x}
    BY <2>1, AnyTodo
  <2> HIDE DEF todo
  <2>3. p \in Seq(Int) /\ flaw \in Flaws
    BY <1>1 DEF Flaws, Entry
  <2>4. /\ r.flaw = "mixed" <=> flaw = "mixed"
        /\ flaw = "whole" => r.flaw = "whole" /\ r.ending = {}
    OBVIOUS
  <2> HIDE DEF flaw
  <2>5. /\ born \in Entry(Scripts) /\ born.todo = todo /\ born.tids = r.tids /\ born.clone
        /\ born.flaw = flaw /\ born.hook = "tail" /\ born.phase = "out" /\ born.leader = x
        /\ born.ending = {} /\ born.parent = p
    BY <1>1, <2>1, <2>2, <2>3 DEF Entry, NewProcess
  <2> HIDE DEF born
  <2>6. Joinable(born, Joins)
    BY <1>1, <1>2, <2>1, <2>2, <2>4, <2>5 DEF Joinable, MeetsJoinees, ForksAlone, HasLeader
  <2>0. PICK new : new = [r EXCEPT !.phase = "await"]
    OBVIOUS
  <2>7. /\ new \in Entry(Scripts) /\ Joinable(new, Joins) /\ new.phase = "await"
        /\ new.todo = r.todo /\ new.tids = r.tids /\ new.ending = r.ending
        /\ new.leader = x /\ new.flaw = r.flaw /\ new.hook = "user"
        /\ new.clone = r.clone /\ new.parent = r.parent
    BY <1>1, <1>2, <2>0, NewPhase
  <2>8. process' = Extended([process EXCEPT ![p] = new], q, born)
    BY <1>4, <2>0
  <2>9. InStep(born, new)
    BY <2>1, <2>4, <2>5, <2>7 DEF InStep
  <2>10. Follows(r, new) /\ CallsOnce(p, new)
    BY <1>1, <2>7 DEF Follows, CallsOnce
  <2>11. CASE q \notin Process
    <3>1. q \in Seq(Nat)
      BY <1>1 DEF Clone
    <3> HIDE DEF q
    <3>2. q = Append(p, Clone)
      BY DEF q
    <3> QED
      BY <2>5, <2>6, <2>7, <2>8, <2>9, <2>10, <2>11, <3>1, <3>2, AddsKeeps
  <2>12. CASE q \in Process
    <3>1. Becomes(p, new)
      BY <2>8, <2>12 DEF Extended, Becomes, Process, JoinInv, Typed
    <3> QED
      BY <2>7, <2>10, <3>1, BecomesKeeps
  <2> QED
    BY <2>11, <2>12
<1> QED
  BY <1>3, <1>4 DEF LeaderClone

LEMMA EnterPullBackKeeps ==
  ASSUME NEW Scripts, NEW Joins, JoinInv(Scripts, Joins), NEW q \in Process, EnterPullBack(q)
  PROVE  JoinInv(Scripts, Joins)'
<1> DEFINE r == process[q]
           built == [r EXCEPT !.hook = "build", !.flaw = IF r.clone THEN @ ELSE "mixed"]
           left  == [r EXCEPT !.hook = "user", !.flaw = IF r.clone THEN "mixed" ELSE @]
<1>1. r \in Entry(Scripts) /\ Joinable(r, Joins) /\ r.hook = "tail"
  BY DEF JoinInv, Typed, EnterPullBack
<1>2. /\ r.phase = "out" /\ r.ending = {} /\ DOMAIN r.todo = {r.leader}
      /\ "mixed" \in Flaws /\ r.flaw \in Flaws
  BY <1>1 DEF Joinable, HasLeader, Flaws, Entry
<1>3. /\ built \in Entry(Scripts) /\ built.hook = "build" /\ built.todo = r.todo
      /\ built.tids = r.tids /\ built.ending = r.ending /\ built.leader = r.leader
      /\ built.phase = "out" /\ built.clone = r.clone /\ built.parent = r.parent
      /\ built.flaw = IF r.clone THEN r.flaw ELSE "mixed"
  BY <1>1, <1>2 DEF Entry
<1>4. /\ left \in Entry(Scripts) /\ left.hook = "user" /\ left.todo = r.todo
      /\ left.tids = r.tids /\ left.ending = r.ending /\ left.leader = r.leader
      /\ left.phase = "out" /\ left.clone = r.clone /\ left.parent = r.parent
      /\ left.flaw = IF r.clone THEN "mixed" ELSE r.flaw
  BY <1>1, <1>2 DEF Entry
<1>5. Becomes(q, built) \/ Becomes(q, left)
  BY DEF EnterPullBack
<1> HIDE DEF built, left
<1>6. Joinable(built, Joins) /\ Follows(r, built) /\ CallsOnce(q, built)
  BY <1>1, <1>2, <1>3 DEF Joinable, MeetsJoinees, ForksAlone, HasLeader, Follows, CallsOnce
<1>7. Joinable(left, Joins) /\ Follows(r, left) /\ CallsOnce(q, left)
  BY <1>1, <1>2, <1>4 DEF Joinable, MeetsJoinees, ForksAlone, HasLeader, Follows, CallsOnce
<1> QED
  BY <1>3, <1>4, <1>5, <1>6, <1>7, BecomesKeeps

LEMMA NotInit == TheInit \notin Seq(Nat)
<1> SUFFICES ASSUME NEW t \in Seq(Nat), t = TheInit PROVE FALSE
  OBVIOUS
<1>1. Len(t) = 1 /\ t[1] = -2
  BY DEF TheInit
<1>2. t \in [1 .. Len(t) -> Nat]
  OBVIOUS
<1>3. t[1] \in Nat
  BY <1>1, <1>2
<1> QED
  BY <1>1, <1>3

(* A full fork that is awaited, and whole when it is built, has whoever the*)
(* process has that it is made of.                                         *)
LEMMA BuildKeeps ==
  ASSUME NEW Scripts, NEW Joins, JoinInv(Scripts, Joins), NEW q \in Process, Build(q)
  PROVE  JoinInv(Scripts, Joins)'
<1> DEFINE c == process[q]
           p == c.parent
           r == process[p]
<1>1. c \in Entry(Scripts) /\ Joinable(c, Joins) /\ c.hook = "build" /\ c.todo \in Todos(Scripts)
  BY DEF JoinInv, Typed, Build, Entry
<1>2. /\ c.phase = "out" /\ c.ending = {} /\ DOMAIN c.todo = {c.leader}
      /\ c.clone \/ c.flaw = "mixed"
  BY <1>1 DEF Joinable, HasLeader
<1>3. PICK S \in {ToClone(q)} \cup UpToFailure(q, ToClone(q)) :
        Becomes(q, [c EXCEPT
                      !.hook = "user",
                      !.todo = [y \in S \cup DOMAIN @ |->
                                  IF y \in DOMAIN @ THEN @[y] ELSE Rest(p, y)],
                      !.flaw = IF ~IsAwaited(q) THEN "mixed"
                               ELSE IF @ = "whole" /\ S # ToClone(q) THEN "partial"
                               ELSE @])
  BY DEF Build
<1> DEFINE todo == [y \in S \cup {c.leader} |-> IF y = c.leader THEN c.todo[y] ELSE Rest(p, y)]
           flaw == IF ~IsAwaited(q) THEN "mixed"
                   ELSE IF c.flaw = "whole" /\ S # ToClone(q) THEN "partial"
                   ELSE c.flaw
           new == [c EXCEPT !.hook = "user", !.todo = todo, !.flaw = flaw]
<1>4. /\ S \subseteq ToClone(q) /\ ToClone(q) = Alive(q) \ {c.leader}
      /\ ~(p \in Process) => Alive(q) = {}
      /\ p \in Process => Alive(q) = Threads(p)
  BY DEF UpToFailure, ToClone, Alive
<1>5. todo \in Todos(Scripts)
  <2>1. p \in Process => /\ Threads(p) \in SUBSET Nat
                         /\ \A y \in Threads(p) : Rest(p, y) \in Scripts
    BY TypedThreads DEF JoinInv, Typed
  <2>2. c.leader \in Nat /\ c.todo[c.leader] \in Scripts
    BY <1>1, <1>2, TypedThreads DEF Threads, Rest, Entry
  <2>3. todo \in [S \cup {c.leader} -> Scripts] /\ S \cup {c.leader} \in SUBSET Nat
    BY <1>4, <2>1, <2>2
  <2> QED
    BY <2>3, AnyTodo
<1>6. Becomes(q, new)
  BY <1>2, <1>3
<1>7. /\ DOMAIN todo = S \cup {c.leader} /\ todo[c.leader] = c.todo[c.leader]
      /\ \A y \in S : y # c.leader => todo[y] = Rest(p, y)
  OBVIOUS
<1> HIDE DEF todo
<1>8. flaw \in Flaws
  BY <1>1 DEF Flaws, Entry
<1>9. flaw # "mixed" => /\ IsAwaited(q) /\ c.flaw # "mixed"
                        /\ flaw = "whole" => c.flaw = "whole" /\ S = ToClone(q)
  OBVIOUS
<1> HIDE DEF flaw
<1>10. /\ new \in Entry(Scripts) /\ new.hook = "user" /\ new.todo = todo /\ new.flaw = flaw
       /\ new.tids = c.tids /\ new.ending = {} /\ new.phase = "out" /\ new.clone = c.clone
       /\ new.parent = c.parent
  BY <1>1, <1>2, <1>5, <1>8 DEF Entry
<1> HIDE DEF new
<1>11. ASSUME flaw # "mixed"
       PROVE  /\ p \in Process /\ Joinable(r, Joins) /\ r.phase = "await" /\ InStep(c, r)
              /\ r.hook = "user" /\ r.leader \in Threads(p) /\ c.leader = r.leader
  <2>1. p \in Process /\ r.phase = "await" /\ c.clone
    BY <1>2, <1>9, <1>11 DEF IsAwaited
  <2>2. p # TheInit
    BY <2>1, NotInit DEF JoinInv, Typed
  <2>3. InStep(c, r)
    BY <1>1, <2>1, <2>2 DEF JoinInv, Waited, ToBuild
  <2> QED
    BY <2>1, <2>3 DEF JoinInv, Joinable, HasLeader, InStep, Threads
<1>12. ASSUME flaw # "mixed"
       PROVE  \A y \in DOMAIN todo : y \in Threads(p) /\ todo[y] = r.todo[y]
  BY <1>4, <1>7, <1>11, <1>12 DEF InStep, Rest
<1>13. MeetsJoinees(new, Joins)
  <2> SUFFICES ASSUME flaw = "whole", NEW y \in DOMAIN todo
               PROVE  Joins[todo[y]] \cap c.tids \subseteq DOMAIN todo
    BY <1>10 DEF MeetsJoinees
  <2>1. DOMAIN todo = Threads(p)
    BY <1>4, <1>7, <1>9, <1>11
  <2>2. r.flaw = "whole" /\ c.tids = r.tids /\ r.ending = {}
    BY <1>9, <1>11 DEF InStep
  <2> QED
    BY <1>11, <1>12, <2>1, <2>2 DEF Joinable, MeetsJoinees, Threads
<1>14. ForksAlone(new, Joins)
  <2> SUFFICES ASSUME flaw # "mixed", NEW y \in DOMAIN todo, ForksJoiner(todo[y], Joins)
               PROVE  c.tids = {} /\ DOMAIN todo = {y}
    BY <1>10 DEF ForksAlone
  <2>1. r.flaw # "mixed"
    BY <1>9, <1>11 DEF InStep
  <2>2. Threads(p) = {y} /\ y = c.leader
    BY <1>11, <1>12, <2>1 DEF Joinable, ForksAlone, Threads
  <2>3. DOMAIN todo = {y}
    BY <1>12, <2>2
  <2>4. c.tids = {}
    BY <1>1, <1>2, <1>7, <1>9, <2>2 DEF Joinable, ForksAlone
  <2> QED
    BY <2>3, <2>4
<1>15. HasLeader(new)
  BY <1>10 DEF HasLeader
<1>16. Follows(c, new) /\ CallsOnce(q, new)
  BY <1>2, <1>10 DEF Follows, CallsOnce
<1> QED
  BY <1>6, <1>10, <1>13, <1>14, <1>15, <1>16, BecomesKeeps DEF Joinable

-----------------------------------------------------------------------------
LEMMA InitJoinInv ==
  ASSUME NEW Scripts, NEW Joins, Programs \subseteq Scripts, Init
  PROVE  JoinInv(Scripts, Joins)
<1>1. PICK program \in Scripts :
        process = Only(<<>>, [NewProcess(TheInit, Main, Only(Main, program), {}, "whole")
                                EXCEPT !.hook = "user"])
  BY DEF Init
<1> DEFINE todo == Only(Main, program)
           first == [NewProcess(TheInit, Main, todo, {}, "whole") EXCEPT !.hook = "user"]
<1>2. todo \in [{Main} -> Scripts] /\ Main \in Nat /\ TheInit \in Seq(Int)
  BY DEF Only, Main, TheInit
<1>3. todo \in Todos(Scripts) /\ DOMAIN todo = {Main}
  BY <1>2, AnyTodo
<1> HIDE DEF todo
<1>4. /\ first \in Entry(Scripts) /\ first.todo = todo /\ first.tids = {}
      /\ first.ending = {} /\ first.hook = "user" /\ first.phase = "out"
  BY <1>2, <1>3 DEF Entry, NewProcess, Flaws
<1>5. process = Only(<<>>, first)
  BY <1>1 DEF todo
<1> HIDE DEF first
<1>6. Joinable(first, Joins)
  BY <1>3, <1>4 DEF Joinable, MeetsJoinees, ForksAlone, HasLeader
<1>7. Process = {<<>>} /\ process[<<>>] = first /\ process \in [Process -> Entry(Scripts)]
  BY <1>4, <1>5 DEF Process, Only
<1>8. Typed(Scripts) /\ \A p \in Process : Joinable(process[p], Joins)
  BY <1>6, <1>7 DEF Typed
<1>9. Waited
  BY <1>4, <1>7 DEF Waited, ToBuild
<1> QED
  BY <1>8, <1>9 DEF JoinInv

LEMMA NextJoinInv ==
  ASSUME NEW Scripts, NEW Ops, NEW Joins, Careful(Scripts, Ops, Joins),
         JoinInv(Scripts, Joins), [Next]_vars
  PROVE  JoinInv(Scripts, Joins)'
<1>1. CASE UNCHANGED vars
  <2>1. process' = process
    BY <1>1 DEF vars
  <2>2. Typed(Scripts)' /\ \A p \in Process' : Joinable(process'[p], Joins)
    BY <2>1 DEF JoinInv, Typed, Process
  <2>3. Waited'
    BY <2>1 DEF JoinInv, Waited, Process, ToBuild, InStep
  <2> QED
    BY <2>2, <2>3 DEF JoinInv, Joinable, MeetsJoinees, ForksAlone, HasLeader
<1>2. ASSUME NEW p \in Process, System(p) PROVE JoinInv(Scripts, Joins)'
  BY <1>2, CallKeeps, StopReturnKeep, LeaderCloneKeeps, EnterPullBackKeeps, BuildKeeps
     DEF System
<1>3. ASSUME NEW p \in Process, NEW x \in 0 .. 4, Program(p, x)
      PROVE  JoinInv(Scripts, Joins)'
  <2>1. x \in Nat
    OBVIOUS
  <2> QED
    BY <1>3, <2>1, CreateKeeps, JoinKeeps, ForkKeeps, WaitKeeps, EndKeeps,
       ClearTidKeeps, ExitKeeps DEF Program
<1> QED
  BY <1>1, <1>2, <1>3 DEF Next, Step

LEMMA JoinInvMeans ==
  ASSUME NEW Scripts, NEW Ops, NEW Joins, Careful(Scripts, Ops, Joins),
         JoinInv(Scripts, Joins)
  PROVE  JoineesExist
<1> SUFFICES ASSUME NEW p \in Process, process[p].flaw = "whole", process[p].hook = "user",
                    NEW x \in Threads(p), NEW y \in ToJoin(p, x), y \in process[p].tids
             PROVE  y \in Threads(p) \cup process[p].ending
  BY DEF JoineesExist, Joinees
<1>1. Rest(p, x) \in Scripts /\ MeetsJoinees(process[p], Joins)
  BY TypedThreads DEF JoinInv, Typed, Joinable
<1>2. y \in Joins[Rest(p, x)]
  <2>1. PICK i \in DOMAIN Rest(p, x) : Rest(p, x)[i].op = "join" /\ y \in Rest(p, x)[i].who
    BY DEF ToJoin
  <2> QED
    BY <1>1, <2>1 DEF Careful
<1> QED
  BY <1>1, <1>2 DEF MeetsJoinees, Threads, Rest

(* Whatever the programs are, as long as nobody forks a process that joins *)
(* threads while his own process has any (Careful, which every program in  *)
(* the repository is): a thread of a process that is whole never joins one *)
(* that does not exist.  Threads fork while the call goes on, end halfway  *)
(* through it, and several processes call at once; only a full fork that   *)
(* one of these has harmed (partial, halfway, mixed) may differ.           *)
THEOREM JoineesAlwaysExist ==
  ASSUME NEW Scripts, NEW Ops, NEW Joins, Careful(Scripts, Ops, Joins),
         Programs \subseteq Scripts
  PROVE  Spec => []JoineesExist
<1>1. Init => JoinInv(Scripts, Joins)
  BY InitJoinInv
<1>2. JoinInv(Scripts, Joins) /\ [Next]_vars => JoinInv(Scripts, Joins)'
  BY NextJoinInv
<1>3. JoinInv(Scripts, Joins) => JoineesExist
  BY JoinInvMeans
<1> QED
  BY <1>1, <1>2, <1>3, PTL DEF Spec
=============================================================================
