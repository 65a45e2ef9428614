-------------------------- MODULE PtreeForkCopyProofs --------------------------
(***************************************************************************)
(* What one call of PtreeFork makes of the tree.  The frames of dfs and    *)
(* what it has already walked are not variables of the model: the proofs   *)
(* carry them as two sets that exist in every state.                       *)
(***************************************************************************)
EXTENDS PtreeForkProofs, FiniteSetTheorems

(* The first call since the module's processes began: those that an        *)
(* earlier call has left asleep would be copied, and counted, too.         *)
OneCall == MaxCalls \in {0, 1}

Walking == pc \in {"children", "target", "wait", "asleep", "clear", "reparent", "return"}
Aimed   == pc \in {"wait", "asleep", "clear", "reparent", "return"}

(* Originals stay where they are.                                          *)
Home == parent[Root] = Outside /\ \A p \in Original : ~IsCopy(p) /\ parent[p] = Tree[p]

(* Whoever is on the path of the open frames is below the root.            *)
Linked(path) ==
  \A S \in SUBSET path :
    Root \in S /\ (\A p \in path : p # Root /\ parent[p] \in S => p \in S) => S = path

(* seen: the processes that dfs has set as its target in this call; path:  *)
(* those of its open frames.  The path leads from the root to the node, one*)
(* child at each level; behind it, by pid, all has been seen, ahead of it  *)
(* and of the cursor nothing, and what has been seen has a parent that is  *)
(* on the path or has been seen itself.                                    *)
Frames(seen, path) ==
  /\ \A p \in seen \cup path : p \in Pid /\ life[p] # "free" /\ ~IsCopy(p)
  /\ Walking => Root \in path /\ node \in path
  /\ Aimed => node \in seen
  /\ \A p \in path : p = Root \/ parent[p] \in path
  /\ Walking => \A p \in path : parent[p] # node
  /\ \A p, q \in path : p # Root /\ q # Root /\ parent[p] = parent[q] => p = q
  /\ \A p \in seen : p = Root \/ parent[p] \in seen \cup path
  /\ Walking => \A p \in seen \cap path : p = node /\ Aimed
  /\ Walking => Linked(path)
  /\ pc = "finish" => \A p \in seen : p = Root \/ parent[p] \in seen

Ahead(seen, path) ==
  /\ \A p \in path : p # Root =>
       \A c \in Pid : parent[c] = parent[p] /\ c > p => c \notin seen
  /\ pc = "children" => \A c \in Pid : parent[c] = node /\ c > cursor => c \notin seen

Behind(seen, path) ==
  /\ \A p \in path : p # Root =>
       \A c \in Original : Tree[c] = parent[p] /\ c < p => c \in seen
  /\ pc = "children" => \A c \in Original : Tree[c] = node /\ c =< cursor => c \in seen
  /\ pc = "target" => \A c \in Original : Tree[c] = node => c \in seen
  /\ \A p \in seen : \A c \in Original : Tree[c] = p => c \in seen
  /\ pc = "finish" => Root \in seen

(* The copies of this call: each is of a process that has been a target,   *)
(* hangs below it, below init or below another copy, and is the only one.  *)
Hangs(c) ==
  parent[c] \in {origin[c], Outside} \/ (parent[c] \in Pid /\ IsCopy(parent[c]))

Once(seen) ==
  /\ \A c \in Pid : IsCopy(c) => origin[c] \in seen /\ Hangs(c)
  /\ \A c, d \in Pid : IsCopy(c) /\ IsCopy(d) /\ origin[c] = origin[d] => c = d
  /\ ff.target_pid # -1 =>
       /\ ff.target_pid \in seen
       /\ (\E c \in Pid : IsCopy(c) /\ origin[c] = ff.target_pid)
            => probe[ff.target_pid] \in {"add", "prime", "untarget"}
  /\ calls = 0 => pc = "user" /\ ff.target_pid = -1 /\ \A c \in Pid : ~IsCopy(c)

WalkInv(seen, path) ==
  Frames(seen, path) /\ Ahead(seen, path) /\ Behind(seen, path) /\ Once(seen)

(* Whoever sleeps since it was created is a copy.                          *)
Asleep == \A c \in Pid : life[c] = "new" => origin[c] # c

OnceInv == Home /\ Asleep /\ \E seen, path \in SUBSET Pid : WalkInv(seen, path)

-----------------------------------------------------------------------------
(* Every non-empty set of numbers has a least one: among the sets of what  *)
(* lies under a member there is one that has no proper subset.             *)
LEMMA Least ==
  ASSUME NEW S, S \subseteq Nat, S # {}
  PROVE  \E m \in S : \A n \in S : m =< n
<1> DEFINE Under(n) == {k \in S : k < n}
           R == StrictSubsetOrdering(S)
<1>0. \A n \in S : n \in Nat
  OBVIOUS
<1>1. \A n \in S : Under(n) \in FiniteSubsetsOf(S)
  <2> SUFFICES ASSUME NEW n \in S PROVE IsFiniteSet(Under(n))
    BY DEF FiniteSubsetsOf
  <2>1. IsFiniteSet(0 .. n)
    BY FS_Interval
  <2>2. ASSUME NEW k \in S, k < n PROVE k \in 0 .. n
    BY <1>0, <2>2
  <2> QED
    BY <2>1, <2>2, FS_Subset
<1>2. PICK m \in S : \A n \in S : <<Under(n), Under(m)>> \notin R
  <2> DEFINE T == {Under(n) : n \in S}
  <2>1. IsWellFoundedOn(R, FiniteSubsetsOf(S))
    BY FS_StrictSubsetOrderingWellFounded
  <2>2. T \subseteq FiniteSubsetsOf(S) /\ T # {}
    BY <1>1
  <2>3. \E x \in T : \A y \in T : <<y, x>> \notin R
    <3> HIDE DEF T, R
    <3> QED
      BY <2>1, <2>2, WFMin
  <2> QED
    BY <2>3
<1>3. ASSUME NEW n \in S, n < m PROVE FALSE
  <2>0. n \in Nat /\ m \in Nat
    BY <1>0
  <2>1. /\ \A k \in S : k < n => k < m
        /\ n < m /\ ~(n < n)
    <3>1. ASSUME NEW k \in S, k < n PROVE k < m
      <4>1. k \in Nat
        BY <1>0
      <4> QED
        BY <1>3, <2>0, <3>1, <4>1
    <3> QED
      BY <1>3, <2>0, <3>1
  <2>2. /\ Under(n) \in SUBSET S /\ Under(m) \in SUBSET S
        /\ Under(n) \subseteq Under(m) /\ Under(n) # Under(m)
    BY <2>1
  <2>3. <<Under(n), Under(m)>> \in R
    <3> HIDE DEF Under
    <3> QED
      BY <2>2 DEF StrictSubsetOrdering
  <2> QED
    BY <1>2, <2>3
<1> QED
  BY <1>0, <1>3

-----------------------------------------------------------------------------
(* What no step changes: an original and its place, and a copy's origin.   *)
Fixed == \A p \in Pid : life[p] # "free" =>
           /\ life'[p] # "free" /\ (IsCopy(p)' <=> IsCopy(p)) /\ origin'[p] = origin[p]
           /\ ~IsCopy(p) => parent'[p] = parent[p]

LEMMA NextFixed ==
  ASSUME Inv, Next
  PROVE  Fixed
<1> USE DEF Inv, TypeInv
<1>0. Lasting
  BY NextTypeInv
<1>1. ASSUME NEW p \in Pid, life[p] # "free", ~IsCopy(p) PROVE parent'[p] = parent[p]
  <2>2. CASE MoveGrandchild
    <3>1. PICK g \in Pid : in_pid_list(g) /\ Reparent(g, ff.p_prime)
      BY <2>2 DEF MoveGrandchild, Movable
    <3> QED
      BY <1>1, <3>1 DEF in_pid_list, CopiesKnown, Reparent, TypeOK, ProcessTypeOK
  <2>3. CASE \E q \in Pid : AfterSchedule(q) \/ Fork(q)
    <3>1. PICK c \in Pid, q \in Pid, s \in {"new", "alive"}, o \in Pid :
            FreshPid(c) /\ NewChild(c, q, s, o)
      BY <2>3 DEF AfterSchedule, Fork, fullfork
    <3> QED
      BY <1>1, <3>1 DEF FreshPid, NewChild, TypeOK, ProcessTypeOK
  <2>4. CASE \E q \in Pid : Exit(q)
    BY <1>1, <2>4 DEF Exit, Ended, Children
  <2> QED
    BY <2>2, <2>3, <2>4
    DEF Next, InitModule, CleanupModule, Call, Handler, Descend, ChildrenDone, Target,
        Wait, Interrupt, ClearDone, MovesDone, Oops, Return, Finish, Rest, Probe,
        AddToList, SetPrime, Untarget, SetDone, WakeCaller, tree, vars
<1> QED
  BY <1>0, <1>1 DEF Fixed, Lasting, IsCopy

LEMMA HomeKept ==
  ASSUME Inv, Home, Fixed
  PROVE  Home'
<1>1. \A p \in Original : p \in Pid /\ Tree[p] # None
  BY DEF Original
<1>2. Root \in Original
  BY WorkloadAssumption DEF Original, Outside, None
<1>3. \A p \in Original : life[p] # "free"
  BY <1>1 DEF Home, Inv, TypeInv, Rooted
<1> QED
  BY <1>1, <1>2, <1>3 DEF Home, Fixed

(* The walk does not notice a step that leaves the caller's place alone.   *)
LEMMA WalkKept ==
  ASSUME Inv, Fixed, NEW seen \in SUBSET Pid, NEW path \in SUBSET Pid,
         Frames(seen, path), Ahead(seen, path), Behind(seen, path),
         UNCHANGED <<node, cursor>>, pc' = pc \/ (Aimed /\ Aimed')
  PROVE  Frames(seen, path)' /\ Ahead(seen, path)' /\ Behind(seen, path)'
<1>1. \A p \in seen \cup path : /\ p \in Pid /\ life[p] # "free" /\ ~IsCopy(p)
                                /\ life'[p] # "free" /\ ~IsCopy(p)' /\ parent'[p] = parent[p]
  BY DEF Frames, Fixed
<1>2. (Walking' <=> Walking) /\ (Aimed' <=> Aimed)
  BY DEF Walking, Aimed
<1>3. Frames(seen, path)'
  <2>1. Linked(path) => Linked(path)'
    BY <1>1 DEF Linked
  <2>2. pc' = "finish" => pc = "finish"
    BY DEF Aimed
  <2> QED
    BY <1>1, <1>2, <2>1, <2>2 DEF Frames
<1>4. Ahead(seen, path)'
  BY <1>1 DEF Ahead, Aimed
<1>5. Behind(seen, path)'
  BY <1>1 DEF Behind, Aimed
<1> QED
  BY <1>3, <1>4, <1>5

-----------------------------------------------------------------------------
(* The steps of dfs, which leave the tree alone.                           *)
Walk(seen, path) == Frames(seen, path) /\ Ahead(seen, path) /\ Behind(seen, path)

LEMMA CallWalk ==
  ASSUME Inv, Home, Call
  PROVE  Walk({}, {Root})'
<1>1. pc' = "children" /\ node' = Root /\ cursor' = Outside /\ UNCHANGED <<parent, life, origin>>
  BY DEF Call, Caller, tree
<1>2. life[Root] # "free" /\ ~IsCopy(Root) /\ Root \in Pid /\ Tree[Root] = Outside
  BY WorkloadAssumption DEF Home, Original, Inv, TypeInv, Rooted, Outside, None
<1>3. Frames({}, {Root})'
  <2>1. \A S \in SUBSET {Root} : Root \in S => S = {Root}
    OBVIOUS
  <2>2. Linked({Root})'
    BY <2>1 DEF Linked
  <2> QED
    BY <1>1, <1>2, <2>2 DEF Frames, Walking, Aimed, Home, IsCopy, Pid, Outside
<1>4. Ahead({}, {Root})' /\ Behind({}, {Root})'
  BY <1>1 DEF Ahead, Behind, Original, Pid, Outside
<1> QED
  BY <1>3, <1>4 DEF Walk

LEMMA DescendWalk ==
  ASSUME Inv, Home, NEW seen \in SUBSET Pid, NEW path \in SUBSET Pid, Walk(seen, path),
         Once(seen), Descend
  PROVE  \E below \in SUBSET Pid : Walk(seen, below)'
<1> USE DEF Walk
<1>1. PICK c \in Pid : IsNextChild(node, cursor, c) /\ node' = c
  BY DEF Descend
<1>2. /\ pc = "children" /\ pc' = "children" /\ cursor' = Outside
      /\ UNCHANGED <<parent, life, origin>>
  BY DEF Descend, Caller, tree
<1>3. /\ parent[c] = node /\ c > cursor /\ \A d \in Pid : parent[d] = node /\ d > cursor => c =< d
      /\ node \in path /\ Root \in path
  BY <1>1, <1>2 DEF IsNextChild, Children, Frames, Walking
<1>4. c # Root /\ c \notin seen /\ c \notin path /\ node \notin seen
  BY <1>2, <1>3 DEF Home, Ahead, Frames, Walking, Aimed, Pid, Outside
<1>5. life[c] # "free" /\ ~IsCopy(c) /\ ~IsCopy(node)
  BY <1>3, <1>4 DEF Inv, TypeInv, Rooted, Once, Hangs, Frames, Pid, None, Outside
<1> DEFINE below == path \cup {c}
<1>6. Frames(seen, below)'
  <2>1. \A p \in below : p # Root => parent[p] \in path
    BY <1>3 DEF Frames
  <2>2. \A p \in below : parent[p] # c
    BY <1>4, <2>1 DEF Home, Pid, Outside
  <2>3. \A p \in path : parent[p] # node
    BY <1>2 DEF Frames, Walking
  <2>4. \A p, q \in below : p # Root /\ q # Root /\ parent[p] = parent[q] => p = q
    BY <1>3, <2>3 DEF Frames
  <2>5. seen \cap below = {}
    BY <1>2, <1>4 DEF Frames, Walking, Aimed
  <2>6. Linked(below)
    <3> SUFFICES ASSUME NEW S \in SUBSET below, Root \in S,
                        \A p \in below : p # Root /\ parent[p] \in S => p \in S
                 PROVE  S = below
      BY DEF Linked
    <3>1. Linked(path)
      BY <1>2 DEF Frames, Walking
    <3>2. \A p \in path : p # Root /\ parent[p] \in S \cap path => p \in S \cap path
      OBVIOUS
    <3>3. S \cap path = path
      BY <1>3, <3>1, <3>2 DEF Linked
    <3> QED
      BY <1>3, <1>4, <3>3
  <2>7. Linked(below)'
    BY <1>2, <2>6 DEF Linked
  <2> QED
    BY <1>1, <1>2, <1>3, <1>5, <2>1, <2>2, <2>4, <2>5, <2>7 DEF Frames, Walking, Aimed, IsCopy
<1>7. Ahead(seen, below)'
  <2>1. \A d \in Pid : parent[d] = node /\ d > c => d \notin seen
    BY <1>2, <1>3 DEF Ahead, Inv, TypeInv, TypeOK, Pid, Outside
  <2>2. \A d \in Pid : parent[d] = c => d \notin seen
    BY <1>4 DEF Frames, Home, Pid, Outside
  <2> QED
    BY <1>1, <1>2, <1>3, <2>1, <2>2 DEF Ahead
<1>8. Behind(seen, below)'
  <2>1. \A d \in Original : Tree[d] = node /\ d < c => d \in seen
    <3> SUFFICES ASSUME NEW d \in Original, Tree[d] = node, d < c PROVE d \in seen
      OBVIOUS
    <3>1. d \in Pid /\ parent[d] = node
      BY DEF Original, Home
    <3>2. d =< cursor
      BY <1>3, <3>1 DEF Inv, TypeInv, TypeOK, Pid, Outside
    <3> QED
      BY <1>2, <3>2 DEF Behind
  <2>2. \A d \in Original : ~(d =< Outside)
    BY DEF Original, Pid, Outside
  <2> QED
    BY <1>1, <1>2, <1>3, <2>1, <2>2 DEF Behind
<1> QED
  BY <1>6, <1>7, <1>8

LEMMA ChildrenDoneWalk ==
  ASSUME Inv, Home, NEW seen \in SUBSET Pid, NEW path \in SUBSET Pid, Walk(seen, path),
         ChildrenDone
  PROVE  Walk(seen, path)'
<1> USE DEF Walk
<1>1. /\ pc = "children" /\ pc' = "target"
      /\ UNCHANGED <<parent, life, origin, node, cursor>>
  BY DEF ChildrenDone, Caller, tree, walk
<1>2. Frames(seen, path)' /\ Ahead(seen, path)'
  BY <1>1 DEF Frames, Ahead, Linked, Walking, Aimed, IsCopy
<1>3. \A c \in Original : Tree[c] = node => c \in seen
  <2> SUFFICES ASSUME NEW c \in Original, Tree[c] = node, c \notin seen PROVE FALSE
    OBVIOUS
  <2> DEFINE later == {d \in Pid : parent[d] = node /\ d > cursor}
  <2>1. c \in later
    BY <1>1 DEF Behind, Original, Home, Inv, TypeInv, TypeOK, Pid, Outside
  <2>2. \E d \in later : \A e \in later : d =< e
    <3> HIDE DEF later
    <3>1. later \subseteq Nat
      BY DEF later, Pid
    <3> QED
      BY <2>1, <3>1, Least
  <2> QED
    BY <2>2 DEF ChildrenDone, IsNextChild, Children
<1>4. Behind(seen, path)'
  BY <1>1, <1>3 DEF Behind
<1> QED
  BY <1>2, <1>4

LEMMA TargetWalk ==
  ASSUME Inv, Home, NEW seen \in SUBSET Pid, NEW path \in SUBSET Pid, Walk(seen, path),
         Target
  PROVE  node \in Pid /\ node \notin seen /\ Walk(seen \cup {node}, path)'
<1> USE DEF Walk
<1>1. /\ pc = "target" /\ pc' = "wait"
      /\ UNCHANGED <<parent, life, origin, node, cursor>>
  BY DEF Target, Caller, tree, walk
<1>2. /\ node \in path /\ node \in Pid /\ node \notin seen /\ seen \cap path = {}
      /\ life[node] # "free" /\ ~IsCopy(node)
  BY <1>1 DEF Frames, Walking, Aimed
<1>3. Frames(seen \cup {node}, path)'
  BY <1>1, <1>2 DEF Frames, Linked, Walking, Aimed, IsCopy
<1>4. Ahead(seen \cup {node}, path)'
  <2> SUFFICES ASSUME NEW p \in path, p # Root, NEW c \in Pid, parent[c] = parent[p], c > p,
                      c = node
               PROVE  FALSE
    BY <1>1 DEF Ahead
  <2>1. parent[p] \in Pid
    BY DEF Frames
  <2>2. node # Root
    BY <2>1 DEF Home, Pid, Outside
  <2>3. p = node
    BY <1>2, <2>2 DEF Frames
  <2> QED
    BY <2>3 DEF Pid
<1>5. Behind(seen \cup {node}, path)'
  BY <1>1, <1>2 DEF Behind
<1> QED
  BY <1>2, <1>3, <1>4, <1>5

(* dfs returns to the frame of the parent of its node.                     *)
LEMMA ReturnWalk ==
  ASSUME Inv, Home, NEW seen \in SUBSET Pid, NEW path \in SUBSET Pid, Walk(seen, path),
         Return
  PROVE  \E above \in SUBSET Pid : Walk(seen, above)'
<1> USE DEF Walk
<1>1. /\ pc = "return" /\ UNCHANGED <<parent, life, origin>>
      /\ node \in seen /\ node \in path /\ Root \in path
      /\ \A p \in path : parent[p] # node
      /\ \A p \in seen \cap path : p = node
  BY DEF Return, Caller, tree, Frames, Walking, Aimed
<1>2. CASE node = Root
  <2>1. pc' = "finish" /\ UNCHANGED <<node, cursor>>
    BY <1>2 DEF Return, Outer, Caller, walk
  <2>2. path = {Root}
    <3>1. {Root} \in SUBSET path /\ Linked(path)
      BY <1>1 DEF Frames, Walking
    <3>2. \A p \in path : p # Root /\ parent[p] \in {Root} => p \in {Root}
      BY <1>1, <1>2
    <3> QED
      BY <3>1, <3>2 DEF Linked
  <2>3. Frames(seen, path)'
    BY <1>1, <1>2, <2>1, <2>2 DEF Frames, Walking, Aimed, IsCopy
  <2>4. Ahead(seen, path)' /\ Behind(seen, path)'
    BY <1>1, <1>2, <2>1 DEF Ahead, Behind
  <2> QED
    BY <2>3, <2>4
<1>3. CASE node # Root
  <2>1. pc' = "children" /\ node' = parent[node] /\ cursor' = node
    <3>1. parent[node] # Outside
      BY <1>1, <1>3 DEF Frames, Pid, Outside
    <3> QED
      BY <1>3, <3>1 DEF Return, Outer, Caller
  <2>0. PICK above \in SUBSET Pid : above = path \ {node}
    OBVIOUS
  <2> USE <2>0
  <2>2. parent[node] \in above /\ Root \in above /\ parent[node] \in Pid
    BY <1>1, <1>3 DEF Frames
  <2>3. Frames(seen, above)'
    <3>1. \A p \in above : p # Root => parent[p] \in above
      BY <1>1 DEF Frames
    <3>2. \A p \in above : parent[p] # parent[node]
      <4> SUFFICES ASSUME NEW p \in above, parent[p] = parent[node] PROVE FALSE
        OBVIOUS
      <4>1. p # Root
        BY <2>2 DEF Home, Pid, Outside
      <4> QED
        BY <1>1, <1>3, <4>1 DEF Frames
    <3>3. seen \cap above = {}
      BY <1>1
    <3>4. \A p \in seen : p = Root \/ parent[p] \in seen \cup above
      BY <1>1 DEF Frames
    <3>5. /\ above \subseteq path
          /\ \A p \in seen \cup above : p \in Pid /\ life[p] # "free" /\ ~IsCopy(p)
          /\ \A p, q \in above : p # Root /\ q # Root /\ parent[p] = parent[q] => p = q
      BY DEF Frames
    <3>6. \A p \in Pid : IsCopy(p)' <=> IsCopy(p)
      BY <1>1 DEF IsCopy
    <3>7. Linked(above)
      <4> SUFFICES ASSUME NEW S \in SUBSET above, Root \in S,
                          \A p \in above : p # Root /\ parent[p] \in S => p \in S
                   PROVE  S = above
        BY DEF Linked
      <4>1. Linked(path) /\ S \cup {node} \in SUBSET path
        BY <1>1 DEF Frames, Walking
      <4>2. \A p \in path : p # Root /\ parent[p] \in S \cup {node} => p \in S \cup {node}
        BY <1>1
      <4>3. S \cup {node} = path
        BY <4>1, <4>2 DEF Linked
      <4> QED
        BY <4>3
    <3>8. Linked(above)'
      BY <1>1, <3>7 DEF Linked
    <3> QED
      BY <1>1, <2>1, <2>2, <3>1, <3>2, <3>3, <3>4, <3>5, <3>6, <3>8 DEF Frames, Walking, Aimed
  <2>4. Ahead(seen, above)'
    BY <1>1, <1>3, <2>1 DEF Ahead
  <2>5. Behind(seen, above)'
    <3>1. \A c \in Original : Tree[c] = parent[node] /\ c =< node => c \in seen
      <4> SUFFICES ASSUME NEW c \in Original, Tree[c] = parent[node], c =< node, c # node
                   PROVE  c \in seen
        BY <1>1
      <4>1. c < node
        BY DEF Original, Pid, Inv, TypeInv, TypeOK
      <4> QED
        BY <1>1, <1>3, <4>1 DEF Behind
    <3> QED
      BY <1>1, <2>1, <3>1 DEF Behind
  <2> QED
    BY <2>3, <2>4, <2>5
<1> QED
  BY <1>2, <1>3

LEMMA OopsWalk ==
  ASSUME Inv, NEW seen \in SUBSET Pid, NEW path \in SUBSET Pid, Walk(seen, path),
         Oops \/ Finish
  PROVE  Walk(seen, path)'
<1>1. /\ pc' \in {"oops", "user"} /\ UNCHANGED <<parent, origin, node, cursor>>
      /\ \A p \in Pid : life[p] # "free" => life'[p] # "free"
  BY DEF Oops, Finish, Caller, tree, walk, Inv, TypeInv, TypeOK, ProcessTypeOK
<1>2. Frames(seen, path)'
  BY <1>1 DEF Walk, Frames, Walking, Aimed, IsCopy
<1>3. Ahead(seen, path)' /\ Behind(seen, path)'
  BY <1>1 DEF Walk, Ahead, Behind
<1> QED
  BY <1>2, <1>3 DEF Walk

-----------------------------------------------------------------------------
(* Steps that make no copy.                                                *)
SameCopies ==
  \A q \in Pid :
    /\ IsCopy(q)' <=> IsCopy(q)
    /\ IsCopy(q) => /\ origin'[q] = origin[q]
                    /\ \/ parent'[q] \in {parent[q], Outside}
                       \/ parent'[q] \in Pid /\ IsCopy(parent'[q])

Copying(p) == probe[p] \in {"add", "prime", "untarget"}

LEMMA OnceKept ==
  ASSUME Inv, NEW seen \in SUBSET Pid, Once(seen), SameCopies,
         \/ ff'.target_pid = -1
         \/ /\ ff'.target_pid = ff.target_pid
            /\ \A p \in Pid : Copying(p) => Copying(p)' \/ ff'.target_pid # p,
         calls' = calls, calls = 0 => pc' = "user"
  PROVE  Once(seen)'
<1>1. \A c \in Pid : IsCopy(c)' => origin'[c] \in seen /\ Hangs(c)'
  <2> SUFFICES ASSUME NEW c \in Pid, IsCopy(c) PROVE origin'[c] \in seen /\ Hangs(c)'
    BY DEF SameCopies
  <2>1. origin'[c] = origin[c] /\ origin[c] \in seen /\ Hangs(c)
    BY DEF Once, SameCopies
  <2>2. parent'[c] \in Pid /\ IsCopy(parent'[c]) => IsCopy(parent[c])'
    BY DEF SameCopies, IsCopy
  <2>3. Hangs(c)'
    BY <2>1, <2>2 DEF Hangs, SameCopies
  <2> QED
    BY <2>1, <2>3
<1>2. \A c, d \in Pid : IsCopy(c)' /\ IsCopy(d)' /\ origin'[c] = origin'[d] => c = d
  BY DEF Once, SameCopies
<1>3. ff'.target_pid # -1 =>
        /\ ff'.target_pid \in seen
        /\ (\E c \in Pid : IsCopy(c)' /\ origin'[c] = ff'.target_pid) => Copying(ff.target_pid)'
  BY DEF Once, SameCopies, Copying
<1>4. calls' = 0 => pc' = "user" /\ ff'.target_pid = -1 /\ \A c \in Pid : ~IsCopy(c)'
  BY DEF Once, SameCopies
<1> QED
  BY <1>1, <1>2, <1>3, <1>4 DEF Once, Copying

LEMMA MoveSameCopies ==
  ASSUME Inv, MoveGrandchild
  PROVE  SameCopies
<1> USE DEF Inv, TypeInv
<1>1. PICK g \in Pid : Reparent(g, ff.p_prime)
  BY DEF MoveGrandchild
<1>2. ff.p_prime \in Pid /\ IsCopy(ff.p_prime)
  BY DEF MoveGrandchild, CopiesKnown, TypeOK, Globals
<1> QED
  BY <1>1, <1>2 DEF Reparent, SameCopies, IsCopy, TypeOK, ProcessTypeOK

LEMMA ForkSameCopies ==
  ASSUME Inv, NEW p \in Pid, Fork(p)
  PROVE  SameCopies
<1> USE DEF Inv, TypeInv
<1>1. PICK c \in Pid : FreshPid(c) /\ NewChild(c, p, "alive", c)
  BY DEF Fork
<1> QED
  BY <1>1 DEF FreshPid, NewChild, SameCopies, IsCopy, TypeOK, ProcessTypeOK

LEMMA LifeSameCopies ==
  ASSUME Inv, (\E p \in Pid : Exit(p)) \/ Finish
  PROVE  SameCopies
<1> USE DEF Inv, TypeInv
<1>1. \A q \in Pid : life[q] = "free" <=> life'[q] = "free"
  <2>1. CASE \E p \in Pid : Exit(p)
    BY <2>1 DEF Exit, Ended, TypeOK, ProcessTypeOK
  <2>2. CASE Finish
    <3>1. ff.p_prime \in Pid /\ life[ff.p_prime] # "free"
      BY <2>2 DEF Finish, Caller, Session, PrimeAtFinish, CopiesKnown, IsCopy, TypeOK, Globals
    <3> QED
      BY <2>2, <3>1 DEF Finish, TypeOK, ProcessTypeOK
  <2> QED
    BY <2>1, <2>2
<1> QED
  BY <1>1 DEF Exit, Ended, Finish, SameCopies, IsCopy

(* The one step that makes a copy.                                         *)
LEMMA CopyOnce ==
  ASSUME Inv, NEW seen \in SUBSET Pid, Once(seen), NEW p \in Pid, AfterSchedule(p)
  PROVE  Once(seen)'
<1> USE DEF Inv, TypeInv
<1>1. PICK c \in Pid : fullfork(c, p)
  BY DEF AfterSchedule
<1>2. /\ ff.target_pid = p /\ p # -1 /\ probe[p] = "user" /\ probe'[p] = "add"
      /\ life[c] = "free" /\ life[p] = "alive" /\ c # p
      /\ UNCHANGED <<ff, calls>>
  BY <1>1 DEF AfterSchedule, Probing, fullfork, FreshPid, TypeOK, Pid
<1>3. p \in seen /\ calls # 0 /\ \A d \in Pid : ~(IsCopy(d) /\ origin[d] = p)
  BY <1>2 DEF Once
<1>4. /\ IsCopy(c)' /\ ~IsCopy(c) /\ origin'[c] = p /\ parent'[c] = p
      /\ \A d \in Pid : d # c => /\ IsCopy(d)' <=> IsCopy(d)
                                 /\ origin'[d] = origin[d] /\ parent'[d] = parent[d]
  BY <1>1, <1>2 DEF fullfork, NewChild, IsCopy, TypeOK, ProcessTypeOK
<1>5. \A d \in Pid : IsCopy(d)' => origin'[d] \in seen /\ Hangs(d)'
  <2> SUFFICES ASSUME NEW d \in Pid, IsCopy(d)', d # c
               PROVE  origin'[d] \in seen /\ Hangs(d)'
    BY <1>3, <1>4 DEF Hangs
  <2>1. IsCopy(d) /\ origin'[d] = origin[d] /\ parent'[d] = parent[d]
    BY <1>4
  <2>2. origin[d] \in seen /\ Hangs(d)
    BY <2>1 DEF Once
  <2>3. parent[d] \in Pid /\ IsCopy(parent[d]) => parent'[d] \in Pid /\ IsCopy(parent[d])'
    BY <1>4, <2>1 DEF IsCopy
  <2> QED
    BY <2>1, <2>2, <2>3 DEF Hangs
<1>6. \A d, e \in Pid : IsCopy(d)' /\ IsCopy(e)' /\ origin'[d] = origin'[e] => d = e
  BY <1>3, <1>4 DEF Once
<1> QED
  BY <1>2, <1>3, <1>5, <1>6 DEF Once

LEMMA TargetOnce ==
  ASSUME Inv, NEW seen \in SUBSET Pid, Once(seen), node \in Pid, node \notin seen, Target
  PROVE  Once(seen \cup {node})'
<1>1. /\ pc = "target" /\ ff'.target_pid = node
      /\ UNCHANGED <<parent, life, origin, probe, node, calls>>
  BY DEF Target, Caller, tree, prob, walk, Inv, TypeInv, TypeOK, Globals
<1>2. /\ \A c \in Pid : IsCopy(c)' <=> IsCopy(c)
      /\ \A c \in Pid : IsCopy(c) => origin[c] # node
  BY <1>1 DEF Once, IsCopy
<1> QED
  BY <1>1, <1>2 DEF Once, Hangs, IsCopy

LEMMA CallOnce ==
  ASSUME OneCall, Inv, NEW seen \in SUBSET Pid, Once(seen), Call
  PROVE  Once({})'
<1>1. calls = 0 /\ calls' = 1 /\ UNCHANGED <<parent, life, origin>>
  BY DEF Call, OneCall, Inv, TypeInv, TypeOK, tree
<1>2. ff'.target_pid = -1 /\ \A c \in Pid : ~IsCopy(c)'
  BY <1>1 DEF Call, Once, IsCopy, Inv, TypeInv, TypeOK, Globals
<1> QED
  BY <1>1, <1>2 DEF Once

(* The steps that do not walk, and those of dfs that do.                   *)
LEMMA OnceStep ==
  ASSUME Inv, NEW seen \in SUBSET Pid, Once(seen), [Next]_vars, ~Call, ~Target
  PROVE  Once(seen)'
<1> USE DEF Inv, TypeInv
<1>1. CASE \E p \in Pid : AfterSchedule(p)
  BY <1>1, CopyOnce
<1>2. CASE MoveGrandchild \/ Finish \/ \E p \in Pid : Fork(p) \/ Exit(p)
  <2>1. SameCopies
    BY <1>2, MoveSameCopies, LifeSameCopies, ForkSameCopies
  <2>2. UNCHANGED <<ff, probe, calls>> /\ (calls = 0 => pc' = "user")
    BY <1>2 DEF MoveGrandchild, Finish, Fork, Exit, Caller, Once, prob
  <2>3. \A p \in Pid : Copying(p) => Copying(p)'
    BY <2>2 DEF Copying
  <2> QED
    BY <2>1, <2>2, <2>3, OnceKept
<1>3. CASE \/ InitModule \/ CleanupModule \/ UNCHANGED vars
           \/ Descend \/ ChildrenDone \/ Wait \/ Interrupt \/ ClearDone
           \/ MovesDone \/ Oops \/ Return
  <2>1. UNCHANGED <<tree, prob>> /\ calls' = calls /\ (calls = 0 => pc' = "user")
    BY <1>3
    DEF InitModule, CleanupModule, Descend, ChildrenDone, Wait, Interrupt, ClearDone,
        MovesDone, Oops, Return, vars, Caller, Once
  <2>2. ff'.target_pid = -1 \/ ff'.target_pid = ff.target_pid
    BY <1>3
    DEF InitModule, CleanupModule, FreshModule, Descend, ChildrenDone, Wait, Interrupt,
        ClearDone, MovesDone, Oops, Return, vars, TypeOK, Globals
  <2>3. SameCopies /\ \A p \in Pid : Copying(p) => Copying(p)'
    BY <2>1 DEF SameCopies, IsCopy, Copying, tree, prob
  <2> QED
    BY <2>1, <2>2, <2>3, OnceKept
<1>4. ASSUME NEW p \in Pid, Answering(p) PROVE Once(seen)'
  <2>1. SameCopies
    BY <1>4 DEF Answering, AddToList, SetPrime, Untarget, SetDone, WakeCaller, SameCopies,
                IsCopy, tree
  <2>2. /\ calls' = calls /\ (calls = 0 => pc' = "user")
        /\ ff'.target_pid = -1 \/ ff'.target_pid = ff.target_pid
    BY <1>4 DEF Answering, AddToList, SetPrime, Untarget, SetDone, WakeCaller, Probing,
                Once, TypeOK, Globals
  <2>3. ff'.target_pid = -1 \/ \A q \in Pid : Copying(q) => Copying(q)'
    BY <1>4 DEF Answering, AddToList, SetPrime, Untarget, SetDone, WakeCaller, Probing,
                Copying, TypeOK, Globals
  <2> QED
    BY <2>1, <2>2, <2>3, OnceKept
<1> QED
  <2>1. CASE \E p \in Pid : Probe(p)
    BY <1>1, <1>4, <2>1 DEF Probe, Answering
  <2> QED
    BY <1>2, <1>3, <2>1 DEF Next, Handler, Rest

(* The steps that leave the caller's place alone.                          *)
LEMMA WalkStays ==
  ASSUME Inv, NEW seen \in SUBSET Pid, NEW path \in SUBSET Pid, Walk(seen, path),
         [Next]_vars, ~Call, ~Descend, ~ChildrenDone, ~Target, ~Return
  PROVE  Walk(seen, path)'
<1>1. CASE UNCHANGED vars
  BY <1>1 DEF Walk, Frames, Linked, Ahead, Behind, Walking, Aimed, IsCopy, vars, tree, walk
<1>2. CASE Oops \/ Finish
  BY <1>2, OopsWalk
<1>3. CASE Next /\ ~Oops /\ ~Finish
  <2>1. UNCHANGED <<node, cursor>>
    BY <1>3
    DEF Next, InitModule, CleanupModule, Handler, Wait, Interrupt, ClearDone,
        MoveGrandchild, MovesDone, Rest, Probe, AfterSchedule, AddToList, SetPrime,
        Untarget, SetDone, WakeCaller, Probing, Fork, Exit, vars, walk
  <2>2. pc' = pc \/ (Aimed /\ Aimed')
    BY <1>3
    DEF Next, InitModule, CleanupModule, Handler, Wait, Interrupt, ClearDone, Caller,
        MoveGrandchild, MovesDone, Rest, Probe, AfterSchedule, AddToList, SetPrime,
        Untarget, SetDone, WakeCaller, Probing, Fork, Exit, vars, Aimed
  <2> QED
    BY <1>3, <2>1, <2>2, NextFixed, WalkKept DEF Walk
<1> QED
  BY <1>1, <1>2, <1>3

LEMMA NextAsleep ==
  ASSUME Inv, Asleep, [Next]_vars
  PROVE  Asleep'
<1> USE DEF Inv, TypeInv
<1>1. CASE \E p \in Pid : AfterSchedule(p) \/ Fork(p)
  <2>1. PICK c \in Pid, p \in Pid, s \in {"new", "alive"}, o \in Pid :
          /\ NewChild(c, p, s, o) /\ (s = "new" => c # o)
    BY <1>1 DEF AfterSchedule, Fork, fullfork, FreshPid
  <2> QED
    BY <2>1 DEF NewChild, Asleep, TypeOK, ProcessTypeOK
<1>2. CASE Finish \/ \E p \in Pid : Exit(p)
  BY <1>2 DEF Finish, Exit, Ended, Asleep, TypeOK, ProcessTypeOK
<1>3. CASE MoveGrandchild
  BY <1>3 DEF MoveGrandchild, Reparent, Asleep
<1>4. CASE UNCHANGED tree
  BY <1>4 DEF Asleep, tree
<1> QED
  BY <1>1, <1>2, <1>3, <1>4
  DEF Next, InitModule, CleanupModule, Call, Handler, Descend, ChildrenDone, Target, Wait,
      Interrupt, ClearDone, MovesDone, Oops, Return, Rest, Probe, AddToList, SetPrime,
      Untarget, SetDone, WakeCaller, vars

LEMMA InitOnce == Init => OnceInv
<1> SUFFICES ASSUME Init PROVE OnceInv
  OBVIOUS
<1>1. \A p \in Pid : ~IsCopy(p)
  BY DEF Init, TreeInit, IsCopy
<1>2. Home /\ Asleep
  BY <1>1, WorkloadAssumption DEF Init, TreeInit, Home, Original, Asleep
<1>3. WalkInv({}, {})
  BY <1>1 DEF Init, FreshModule, WalkInv, Frames, Ahead, Behind, Once, Walking, Aimed
<1> QED
  BY <1>2, <1>3 DEF OnceInv

(* What a step adds to seen.                                               *)
Turn(seen, more) ==
  /\ Call => more = {}
  /\ Target => more = seen \cup {node}
  /\ ~Call /\ ~Target => more = seen

LEMMA WalkStep ==
  ASSUME OneCall, Inv, Home, [Next]_vars,
         NEW seen \in SUBSET Pid, NEW path \in SUBSET Pid, Walk(seen, path), Once(seen)
  PROVE  \E s, p \in SUBSET Pid : Turn(seen, s) /\ Walk(s, p)' /\ Once(s)'
<1>1. CASE Call
  <2>1. Walk({}, {Root})' /\ Once({})'
    BY <1>1, CallWalk, CallOnce
  <2>2. {Root} \in SUBSET Pid /\ {} \in SUBSET Pid /\ Turn(seen, {})
    BY <1>1, WorkloadAssumption DEF Turn, Call, Target, Caller
  <2> QED
    BY <2>1, <2>2
<1>2. CASE Target
  <2>1. node \in Pid /\ Walk(seen \cup {node}, path)' /\ Once(seen \cup {node})'
    BY <1>2, TargetWalk, TargetOnce
  <2>2. UNCHANGED node
    BY <1>2 DEF Target, walk
  <2>3. PICK more \in SUBSET Pid : more = seen \cup {node}
    BY <2>1
  <2>4. Walk(more, path)' /\ Once(more)'
    BY <2>1, <2>2, <2>3 DEF Walk, Frames, Ahead, Behind, Once, Hangs
  <2>5. Turn(seen, more)
    BY <1>2, <2>3 DEF Turn, Call, Target, Caller
  <2> QED
    BY <2>4, <2>5
<1>3. CASE ~Call /\ ~Target
  <2>1. Once(seen)' /\ Turn(seen, seen)
    BY <1>3, OnceStep DEF Turn
  <2>2. \E p \in SUBSET Pid : Walk(seen, p)'
    <3>1. CASE Descend
      BY <3>1, DescendWalk
    <3>2. CASE Return
      BY <3>2, ReturnWalk
    <3>3. CASE ChildrenDone
      BY <3>3, ChildrenDoneWalk
    <3> QED
      BY <1>3, <3>1, <3>2, <3>3, WalkStays
  <2> QED
    BY <2>1, <2>2
<1> QED
  BY <1>1, <1>2, <1>3

LEMMA NextHome ==
  ASSUME Inv, Home, [Next]_vars
  PROVE  Home'
<1>1. CASE Next
  BY <1>1, NextFixed, HomeKept
<1>2. CASE UNCHANGED vars
  BY <1>2 DEF Home, IsCopy, vars, tree
<1> QED
  BY <1>1, <1>2

LEMMA NextOnce ==
  ASSUME OneCall
  PROVE  Inv /\ OnceInv /\ [Next]_vars => OnceInv'
<1> SUFFICES ASSUME Inv, OnceInv, [Next]_vars PROVE OnceInv'
  OBVIOUS
<1>1. PICK seen \in SUBSET Pid, path \in SUBSET Pid : Walk(seen, path) /\ Once(seen)
  BY DEF OnceInv, WalkInv, Walk
<1>2. Home' /\ Asleep'
  BY NextHome, NextAsleep DEF OnceInv
<1>3. \E s, p \in SUBSET Pid : Walk(s, p)' /\ Once(s)'
  BY <1>1, WalkStep DEF OnceInv
<1>4. (\E s, p \in SUBSET Pid : WalkInv(s, p))'
  BY <1>3 DEF WalkInv, Walk
<1> QED
  BY <1>2, <1>4 DEF OnceInv

(* No process is copied twice in a call, for every tree, even when signals *)
(* end the caller's waits, processes fork and end while it walks and a late*)
(* probe runs into the turn of another process: dfs targets a process once.*)
THEOREM CopiedAtMostOnce ==
  ASSUME OneCall
  PROVE  Spec => []CopiedOnce
<1>1. Inv /\ OnceInv => CopiedOnce
  <2> SUFFICES ASSUME Inv, OnceInv, NEW c \in Pid, NEW d \in Pid, c # d,
                      life[c] = "new", life[d] = "new", origin[c] = origin[d]
               PROVE  FALSE
    BY DEF CopiedOnce
  <2>1. IsCopy(c) /\ IsCopy(d)
    BY DEF OnceInv, Asleep, IsCopy
  <2> QED
    BY <2>1 DEF OnceInv, WalkInv, Once
<1> QED
  BY <1>1, InitInv, NextInv, InitOnce, NextOnce, PTL DEF Spec

-----------------------------------------------------------------------------
(* What the copies amount to while dfs walks, as long as no signal ends a  *)
(* wait.  A copy is beside its original until the parent of that one has   *)
(* had its turn: then it is below the copy of the parent.  If its original *)
(* ends before, it is astray, and stays so.  It sleeps, and                *)
(* reparent can tell it from an original, as it is in pid_list; the probe  *)
(* that has still to add it is that of the node, for which the caller waits*)
Listed(c) == c \in ff.pid_list \/ \E p \in Pid : probe[p] = "add" /\ clone_pid[p] = c

Past(seen, q) == q \in seen /\ (q = node => pc \notin {"wait", "asleep", "clear", "reparent"})

MovedNow(c) == pc = "reparent" /\ parent[origin[c]] = node /\ parent[c] = ff.p_prime

Placed(seen, c) ==
  /\ origin[c] = Root => parent[c] = Root
  /\ origin[c] # Root =>
       \/ Astray(c)
       \/ IF Past(seen, parent[origin[c]])
          THEN /\ parent[c] \in Pid /\ IsCopy(parent[c])
               /\ origin[parent[c]] = parent[origin[c]]
          ELSE parent[c] = origin[c] \/ MovedNow(c)

Mirror(seen) ==
  pc \notin {"user", "oops"} =>
    \A c \in Pid : IsCopy(c) => life[c] = "new" /\ Listed(c) /\ Placed(seen, c)

(* Steps that leave the copies and the list alone, but for those that lose *)
(* a copy.                                                                 *)
Kept ==
  \A c \in Pid :
    /\ IsCopy(c)' <=> IsCopy(c)
    /\ IsCopy(c) => /\ life'[c] = life[c] /\ origin'[c] = origin[c]
                    /\ parent'[c] = parent[c] \/ (origin[c] # Root /\ Astray(c)')
                    /\ Listed(c) => Listed(c)'
    /\ life[c] = "zombie" => life'[c] = "zombie"

LEMMA MirrorKept ==
  ASSUME Inv, Fixed, NEW seen \in SUBSET Pid, NEW path \in SUBSET Pid, NEW s \in SUBSET Pid,
         Walk(seen, path), Once(seen), Mirror(seen), pc \notin {"user", "oops"}, Kept,
         \A q \in Pid : Past(s, q)' <=> Past(seen, q),
         pc = "reparent" => pc' = "reparent" /\ UNCHANGED node /\ ff'.p_prime = ff.p_prime
  PROVE  Mirror(s)'
<1> SUFFICES ASSUME NEW c \in Pid, IsCopy(c)' PROVE (life[c] = "new" /\ Listed(c) /\ Placed(s, c))'
  BY DEF Mirror
<1>1. /\ IsCopy(c) /\ life[c] = "new" /\ Listed(c) /\ Placed(seen, c)
      /\ life'[c] = "new" /\ Listed(c)' /\ origin'[c] = origin[c]
      /\ parent'[c] = parent[c] \/ (origin[c] # Root /\ Astray(c)')
  BY DEF Mirror, Kept
<1>2. origin[c] \in seen
  BY <1>1 DEF Once
<1>3. origin[c] \in Pid /\ parent'[origin[c]] = parent[origin[c]]
  BY <1>2 DEF Walk, Frames, Fixed
<1>4. origin[c] # Root => parent[origin[c]] \in Pid
  BY <1>2 DEF Walk, Frames
<1>5. origin[c] # Root => (Past(s, parent[origin[c]])' <=> Past(seen, parent[origin[c]]))
  <2> SUFFICES ASSUME NEW q \in Pid, q = parent[origin[c]]
               PROVE  Past(s, parent[origin[c]])' <=> Past(seen, q)
    BY <1>4
  <2>1. Past(s, q)' <=> Past(seen, q)
    OBVIOUS
  <2> QED
    BY <1>1, <1>3, <2>1 DEF Past
<1>6. Placed(s, c)'
  <2>1. CASE origin[c] = Root
    BY <1>1, <2>1 DEF Placed
  <2>4. CASE origin[c] # Root /\ (Astray(c) \/ Astray(c)')
    <3>1. Astray(c)'
      BY <1>1, <1>3, <2>4 DEF Astray, Kept
    <3> QED
      BY <1>1, <2>4, <3>1 DEF Placed
  <2>5. ASSUME origin[c] # Root, ~Astray(c), ~Astray(c)'
        PROVE  parent'[c] = parent[c]
    BY <1>1, <2>5
  <2>2. CASE origin[c] # Root /\ ~Astray(c) /\ ~Astray(c)' /\ Past(seen, parent[origin[c]])
    <3>1. Past(s, parent[origin[c]])'
      BY <1>5, <2>2
    <3>2. parent[c] \in Pid /\ IsCopy(parent[c]) /\ origin[parent[c]] = parent[origin[c]]
      BY <1>1, <2>2 DEF Placed
    <3>3. IsCopy(parent[c])' /\ origin'[parent[c]] = origin[parent[c]]
      BY <1>1, <2>2, <2>5, <3>2 DEF Kept, IsCopy
    <3> QED
      BY <1>1, <1>3, <2>2, <2>5, <3>1, <3>2, <3>3 DEF Placed
  <2>3. CASE origin[c] # Root /\ ~Astray(c) /\ ~Astray(c)' /\ ~Past(seen, parent[origin[c]])
    <3>1. ~Past(s, parent[origin[c]])'
      BY <1>5, <2>3
    <3>2. parent[c] = origin[c] \/ MovedNow(c)
      BY <1>1, <2>3 DEF Placed
    <3>3. MovedNow(c) => MovedNow(c)'
      BY <1>1, <1>3, <2>3, <2>5 DEF MovedNow
    <3> QED
      BY <1>1, <2>3, <2>5, <3>1, <3>2, <3>3 DEF Placed
  <2> QED
    BY <2>1, <2>2, <2>3, <2>4
<1> QED
  BY <1>1, <1>6

(* Only copies of children of the node move, and below its copy.           *)
LEMMA MovesBelow ==
  ASSUME Inv, Protocol, Home, NEW seen \in SUBSET Pid, NEW path \in SUBSET Pid,
         Walk(seen, path), Once(seen), Mirror(seen), pc = "reparent", NEW g \in Pid,
         Movable(g)
  PROVE  IsCopy(g) /\ origin[g] \in Pid /\ parent[origin[g]] = node /\ parent[g] = origin[g]
<1>1. PICK c \in Pid : parent[c] = node /\ c \notin ff.pid_list /\ parent[g] = c /\ g \in ff.pid_list
  BY DEF Movable, Children, in_pid_list
<1>2. IsCopy(g) /\ Placed(seen, g) /\ origin[g] \in seen
  BY <1>1 DEF Inv, TypeInv, CopiesKnown, Mirror, Once
<1>3. \A p \in Pid : probe[p] # "add"
  BY DEF Protocol, Active, Waiting
<1>4. ~IsCopy(c)
  BY <1>1, <1>3 DEF Mirror, Listed
<1>5. origin[g] # Root
  BY <1>1, <1>2 DEF Placed, Home, Pid, Outside, Walk, Frames, Walking
<1>10. ~Astray(g)
  BY <1>1 DEF Astray, Pid, Outside
<1>6. ~Past(seen, parent[origin[g]])
  BY <1>1, <1>2, <1>4, <1>5, <1>10 DEF Placed
<1>7. parent[g] = origin[g] \/ parent[g] = ff.p_prime
  BY <1>2, <1>5, <1>6, <1>10 DEF Placed, MovedNow
<1>8. IsCopy(ff.p_prime)
  BY DEF Protocol, Answer, Inv, TypeInv, CopiesKnown, Pid, None
<1>9. parent[g] = origin[g] /\ origin[g] = c
  BY <1>1, <1>4, <1>7, <1>8
<1> QED
  BY <1>1, <1>2, <1>9

LEMMA MoveMirror ==
  ASSUME Inv, Protocol, Home, Fixed, NEW seen \in SUBSET Pid, NEW path \in SUBSET Pid,
         Walk(seen, path), Once(seen), Mirror(seen), MoveGrandchild
  PROVE  Mirror(seen)'
<1>1. PICK g \in Pid : Movable(g) /\ Reparent(g, ff.p_prime)
  BY DEF MoveGrandchild
<1>2. /\ pc = "reparent" /\ pc' = pc
      /\ UNCHANGED <<ff, probe, clone_pid, node, life, origin>>
      /\ parent'[g] = ff.p_prime /\ \A c \in Pid : c # g => parent'[c] = parent[c]
  BY <1>1 DEF MoveGrandchild, Caller, Reparent, prob, walk, Inv, TypeInv, TypeOK, ProcessTypeOK
<1>3. IsCopy(g) /\ origin[g] \in Pid /\ parent[origin[g]] = node /\ parent[g] = origin[g]
  BY <1>1, <1>2, MovesBelow
<1>4. node \in seen /\ node \in path /\ node \in Pid
  BY <1>2 DEF Walk, Frames, Walking, Aimed
<1> SUFFICES ASSUME NEW c \in Pid, IsCopy(c)' PROVE (life[c] = "new" /\ Listed(c) /\ Placed(seen, c))'
  BY DEF Mirror
<1>5. IsCopy(c) /\ life[c] = "new" /\ Listed(c) /\ Placed(seen, c) /\ origin[c] \in seen
  BY <1>2 DEF Mirror, IsCopy, Once
<1>6. origin[c] \in Pid /\ parent'[origin[c]] = parent[origin[c]]
  BY <1>5 DEF Walk, Frames, Fixed
<1>7. Past(seen, parent[origin[c]])' <=> Past(seen, parent[origin[c]])
  BY <1>2, <1>6 DEF Past
<1>8. Placed(seen, c)'
  <2>1. CASE c = g
    <3>1. origin[g] # Root
      BY <1>3, <1>4 DEF Home, Pid, Outside
    <3>2. MovedNow(c)' /\ ~Past(seen, parent[origin[c]])
      BY <1>2, <1>3, <1>6, <2>1 DEF MovedNow, Past
    <3> QED
      BY <1>2, <1>7, <2>1, <3>1, <3>2 DEF Placed
  <2>2. CASE c # g
    <3>1. MovedNow(c) => MovedNow(c)'
      BY <1>2, <1>6, <2>2 DEF MovedNow
    <3>2. IsCopy(parent[c]) => IsCopy(parent[c])'
      BY <1>2, <2>2 DEF IsCopy
    <3>3. Astray(c) => Astray(c)'
      BY <1>2, <2>2 DEF Astray
    <3> QED
      BY <1>2, <1>5, <1>6, <1>7, <2>2, <3>1, <3>2, <3>3 DEF Placed
  <2> QED
    BY <2>1, <2>2
<1> QED
  BY <1>2, <1>5, <1>8 DEF Listed

LEMMA MovesDoneMirror ==
  ASSUME Inv, Protocol, Home, NEW seen \in SUBSET Pid, NEW path \in SUBSET Pid,
         Walk(seen, path), Once(seen), Mirror(seen), MovesDone
  PROVE  Mirror(seen)'
<1>1. /\ pc = "reparent" /\ pc' = "return" /\ \A g \in Pid : ~Movable(g)
      /\ UNCHANGED <<ff, probe, clone_pid, node, parent, life, origin>>
  BY DEF MovesDone, Caller, prob, walk, tree
<1>2. Answer(ff.p_prime, node) /\ IsCopy(ff.p_prime)
  BY <1>1 DEF Protocol, Answer, Inv, TypeInv, CopiesKnown, Pid, None
<1> SUFFICES ASSUME NEW c \in Pid, IsCopy(c)' PROVE (life[c] = "new" /\ Listed(c) /\ Placed(seen, c))'
  BY DEF Mirror
<1>3. IsCopy(c) /\ life[c] = "new" /\ Listed(c) /\ Placed(seen, c) /\ origin[c] \in seen
  BY <1>1 DEF Mirror, IsCopy, Once
<1>4. origin[c] \in Pid /\ ~IsCopy(origin[c])
  BY <1>3 DEF Walk, Frames
<1>5. c \in ff.pid_list
  BY <1>1, <1>3 DEF Listed, Protocol, Active, Waiting
<1>7. Astray(c) => Astray(c)'
  BY <1>1 DEF Astray
<1>6. Placed(seen, c)'
  <2>4. CASE origin[c] # Root /\ Astray(c)
    BY <1>1, <1>7, <2>4 DEF Placed
  <2>1. CASE origin[c] # Root /\ ~Astray(c) /\ parent[origin[c]] = node
    <3>1. ~Past(seen, parent[origin[c]])
      BY <1>1, <2>1 DEF Past
    <3>2. parent[c] # origin[c]
      BY <1>1, <1>4, <1>5, <2>1
      DEF Movable, Children, in_pid_list, Inv, TypeInv, CopiesKnown
    <3>3. parent[c] = ff.p_prime
      BY <1>3, <2>1, <3>1, <3>2 DEF Placed, MovedNow
    <3> QED
      BY <1>1, <1>2, <2>1, <3>3 DEF Placed, Answer, IsCopy, Past, Walk, Frames, Aimed
  <2>2. CASE origin[c] = Root
    BY <1>1, <1>3, <2>2 DEF Placed
  <2>3. CASE origin[c] # Root /\ ~Astray(c) /\ parent[origin[c]] # node
    <3>1. Past(seen, parent[origin[c]])' <=> Past(seen, parent[origin[c]])
      BY <1>1, <2>3 DEF Past
    <3> QED
      BY <1>1, <1>3, <2>3, <3>1 DEF Placed, MovedNow, IsCopy
  <2> QED
    BY <2>1, <2>2, <2>3, <2>4
<1> QED
  BY <1>1, <1>3, <1>6 DEF Listed

LEMMA CopyMirror ==
  ASSUME Inv, Protocol, Home, Fixed, NEW seen \in SUBSET Pid, NEW path \in SUBSET Pid,
         Walk(seen, path), Once(seen), Mirror(seen), NEW p \in Pid, AfterSchedule(p)
  PROVE  Mirror(seen)'
<1> USE DEF Inv, TypeInv
<1>1. PICK c \in Pid : fullfork(c, p) /\ clone_pid' = [clone_pid EXCEPT ![p] = c]
  BY DEF AfterSchedule
<1>2. /\ ff.target_pid = p /\ probe[p] = "user" /\ probe' = [probe EXCEPT ![p] = "add"]
      /\ UNCHANGED <<ff, pc, node>> /\ life[c] = "free" /\ life[p] = "alive" /\ c # p
  BY <1>1 DEF AfterSchedule, Probing, fullfork, FreshPid, walk
<1>3. p = node /\ Waiting
  BY <1>2 DEF Protocol, Pid
<1>4. /\ IsCopy(c)' /\ ~IsCopy(c) /\ origin'[c] = p /\ parent'[c] = p /\ life'[c] = "new"
      /\ \A d \in Pid : d # c =>
           /\ IsCopy(d)' <=> IsCopy(d)
           /\ origin'[d] = origin[d] /\ parent'[d] = parent[d] /\ life'[d] = life[d]
  BY <1>1, <1>2 DEF fullfork, NewChild, IsCopy, TypeOK, ProcessTypeOK
<1>5. Listed(c)' /\ \A d \in Pid : Listed(d) => Listed(d)'
  BY <1>1, <1>2 DEF Listed, TypeOK
<1> SUFFICES ASSUME NEW d \in Pid, IsCopy(d)' PROVE (life[d] = "new" /\ Listed(d) /\ Placed(seen, d))'
  BY DEF Mirror
<1>6. CASE d = c
  <2>1. p \in path /\ p \in seen /\ parent'[p] = parent[p]
    BY <1>3 DEF Walk, Frames, Walking, Aimed, Waiting, Fixed
  <2>2. p # Root => parent[p] \notin seen
    BY <1>3, <2>1 DEF Walk, Frames, Walking, Aimed, Waiting, Protocol
  <2>3. Placed(seen, d)'
    BY <1>4, <1>6, <2>1, <2>2 DEF Placed, Past
  <2> QED
    BY <1>4, <1>5, <1>6, <2>3
<1>7. CASE d # c
  <2>1. /\ IsCopy(d) /\ life[d] = "new" /\ Listed(d) /\ Placed(seen, d) /\ origin[d] \in seen
        /\ origin'[d] = origin[d] /\ parent'[d] = parent[d] /\ life'[d] = "new"
    BY <1>3, <1>4, <1>7 DEF Mirror, Once, Waiting
  <2>2. origin[d] \in Pid /\ parent'[origin[d]] = parent[origin[d]]
    BY <2>1 DEF Walk, Frames, Fixed
  <2>3. Past(seen, parent[origin[d]])' <=> Past(seen, parent[origin[d]])
    BY <1>2, <2>1, <2>2 DEF Past
  <2>4. parent[d] \in Pid /\ IsCopy(parent[d]) =>
          IsCopy(parent[d])' /\ origin'[parent[d]] = origin[parent[d]]
    BY <1>4, <2>1 DEF IsCopy
  <2>5. ~MovedNow(d)
    BY <1>3 DEF MovedNow, Waiting
  <2>7. Astray(d) => Astray(d)'
    BY <1>2, <1>4, <2>1, <2>2 DEF Astray
  <2>6. Placed(seen, d)'
    BY <2>1, <2>2, <2>3, <2>4, <2>5, <2>7 DEF Placed
  <2> QED
    BY <1>5, <2>1, <2>6
<1> QED
  BY <1>6, <1>7

LEMMA AnsweringMirror ==
  ASSUME Inv, Protocol, Home, Fixed, NEW seen \in SUBSET Pid, NEW path \in SUBSET Pid,
         Walk(seen, path), Once(seen), Mirror(seen), NEW p \in Pid, Answering(p),
         pc \notin {"user", "oops"}
  PROVE  Mirror(seen)'
<1> USE DEF Inv, TypeInv
<1>1. UNCHANGED <<parent, life, origin, clone_pid, node>>
  BY DEF Answering, AddToList, SetPrime, Untarget, SetDone, WakeCaller, Probing, tree,
         walk
<1>2. \A c \in Pid : Listed(c) => Listed(c)'
  BY DEF Answering, AddToList, SetPrime, Untarget, SetDone, WakeCaller, Probing, Listed,
         TypeOK, Globals
<1>3. Kept
  BY <1>1, <1>2 DEF Kept, IsCopy
<1>4. \A q \in Pid : Past(seen, q)' <=> Past(seen, q)
  BY <1>1 DEF Answering, AddToList, SetPrime, Untarget, SetDone, WakeCaller, Past
<1>5. pc = "reparent" => pc' = "reparent" /\ UNCHANGED node /\ ff'.p_prime = ff.p_prime
  BY <1>1 DEF Answering, AddToList, SetPrime, Untarget, SetDone, WakeCaller, Probing,
              Protocol, Active, Waiting, TypeOK, Globals
<1> QED
  BY <1>3, <1>4, <1>5, MirrorKept

(* The steps of the caller that leave the tree alone.                      *)
LEMMA QuietMirror ==
  ASSUME ~Interruptible, OneCall, Inv, Protocol, Home, Fixed,
         NEW seen \in SUBSET Pid, NEW path \in SUBSET Pid, NEW s \in SUBSET Pid,
         Walk(seen, path), Once(seen), Mirror(seen), Turn(seen, s), Quiet
  PROVE  Mirror(s)'
<1> USE DEF Inv, TypeInv
<1>1. CASE MovesDone
  <2>1. s = seen
    BY <1>1 DEF MovesDone, Turn, Call, Target, Caller
  <2> QED
    BY <1>1, <2>1, MovesDoneMirror
<1>2. CASE Call
  <2>1. calls = 0 /\ UNCHANGED <<life, origin>>
    BY <1>2 DEF Call, OneCall, tree, TypeOK
  <2>2. \A c \in Pid : ~IsCopy(c)'
    BY <2>1 DEF Once, IsCopy
  <2> QED
    BY <2>2 DEF Mirror
<1>3. CASE Oops
  BY <1>3 DEF Oops, Caller, Mirror
<1>4. CASE Descend \/ ChildrenDone \/ Target \/ Wait \/ ClearDone \/ Return
  <2>1. /\ UNCHANGED <<tree, prob>> /\ pc \notin {"user", "oops"}
        /\ ff'.pid_list = ff.pid_list /\ pc # "reparent"
    BY <1>4 DEF Descend, ChildrenDone, Target, Wait, ClearDone, Return, Caller, TypeOK,
                Globals
  <2>2. Kept
    BY <2>1 DEF Kept, IsCopy, Listed, tree, prob
  <2>3. \A q \in Pid : Past(s, q)' <=> Past(seen, q)
    <3>1. CASE Target
      <4>1. s = seen \cup {node} /\ pc = "target" /\ pc' = "wait" /\ UNCHANGED node
        BY <3>1 DEF Target, Turn, Call, Caller, walk
      <4>2. node \notin seen
        BY <3>1, TargetWalk
      <4> QED
        BY <4>1, <4>2 DEF Past
    <3>2. CASE Descend \/ ChildrenDone \/ Wait \/ ClearDone \/ Return
      <4>1. s = seen
        BY <3>2 DEF Descend, ChildrenDone, Target, Wait, ClearDone, Return, Turn, Call,
                    Caller
      <4> QED
        BY <3>2, <4>1 DEF Descend, ChildrenDone, Wait, ClearDone, Return, Outer, Caller,
                          Past, walk
    <3> QED
      BY <1>4, <3>1, <3>2
  <2> QED
    BY <2>1, <2>2, <2>3, MirrorKept
<1> QED
  BY <1>1, <1>2, <1>3, <1>4 DEF Quiet, Interrupt

LEMMA ProgramMirror ==
  ASSUME Inv, Home, Fixed, NEW seen \in SUBSET Pid, NEW path \in SUBSET Pid,
         Walk(seen, path), Once(seen), Mirror(seen), NEW p \in Pid, Fork(p) \/ Exit(p),
         pc \notin {"user", "oops"}
  PROVE  Mirror(seen)'
<1> USE DEF Inv, TypeInv
<1>1. UNCHANGED <<ff, probe, clone_pid, pc, node>>
  BY DEF Fork, Exit, prob, walk
<1>2. Kept
  <2>1. CASE Fork(p)
    <3>1. PICK c \in Pid : FreshPid(c) /\ NewChild(c, p, "alive", c)
      BY <2>1 DEF Fork
    <3> QED
      BY <1>1, <3>1 DEF Kept, FreshPid, NewChild, IsCopy, Listed, TypeOK, ProcessTypeOK
  <2>2. CASE Exit(p)
    <3>1. /\ p # Root /\ ~IsCopy(p) /\ life[p] = "alive" /\ UNCHANGED origin
          /\ life' = [life EXCEPT ![p] = "zombie"]
          /\ \A c \in Pid : parent'[c] = IF parent[c] = p THEN Outside ELSE parent[c]
      BY <2>2, WorkloadAssumption DEF Exit, Ended
    <3>2. \A c \in Pid : /\ IsCopy(c)' <=> IsCopy(c)
                         /\ IsCopy(c) => life'[c] = life[c]
                         /\ life[c] = "zombie" => life'[c] = "zombie"
      BY <3>1 DEF IsCopy, TypeOK, ProcessTypeOK
    <3>3. ASSUME NEW c \in Pid, IsCopy(c), parent[c] = p
          PROVE  origin[c] # Root /\ Astray(c)'
      <4>1. origin[c] = p
        BY <3>1, <3>3 DEF Once, Hangs, Pid, Outside
      <4> QED
        BY <3>1, <3>3, <4>1 DEF Astray, TypeOK, ProcessTypeOK
    <3>4. \A c \in Pid : Listed(c) => Listed(c)'
      BY <1>1 DEF Listed
    <3> QED
      BY <3>1, <3>2, <3>3, <3>4 DEF Kept
  <2> QED
    BY <2>1, <2>2
<1>3. \A q \in Pid : Past(seen, q)' <=> Past(seen, q)
  BY <1>1 DEF Past
<1> QED
  BY <1>1, <1>2, <1>3, MirrorKept

LEMMA MirrorStep ==
  ASSUME ~Interruptible, OneCall, Inv, Protocol, Home, [Next]_vars,
         NEW seen \in SUBSET Pid, NEW path \in SUBSET Pid, NEW s \in SUBSET Pid,
         Walk(seen, path), Once(seen), Mirror(seen), Turn(seen, s)
  PROVE  Mirror(s)'
<1>1. CASE pc' \in {"user", "oops"}
  BY <1>1 DEF Mirror
<1>2. CASE Quiet
  <2>1. Fixed
    BY <1>2, NextFixed DEF Quiet, Next, Handler
  <2> QED
    BY <1>2, <2>1, QuietMirror
<1>3. CASE ~Quiet /\ pc' \notin {"user", "oops"}
  <2>1. s = seen
    BY <1>3 DEF Turn, Quiet
  <2>2. CASE UNCHANGED vars
    BY <2>1, <2>2 DEF vars, tree, prob, walk, Mirror, Placed, Listed, Past, MovedNow, IsCopy,
                       Astray
  <2>3. CASE Next
    <3>1. Fixed
      BY <2>3, NextFixed
    <3>2. CASE MoveGrandchild
      BY <2>1, <3>1, <3>2, MoveMirror
    <3>3. ASSUME NEW p \in Pid, AfterSchedule(p) PROVE Mirror(seen)'
      BY <3>1, <3>3, CopyMirror
    <3>4. ASSUME NEW p \in Pid, Answering(p) PROVE Mirror(seen)'
      <4>1. pc \notin {"user", "oops"}
        BY <1>3, <3>4 DEF Answering, AddToList, SetPrime, Untarget, SetDone, WakeCaller
      <4> QED
        BY <3>1, <3>4, <4>1, AnsweringMirror
    <3>5. ASSUME NEW p \in Pid, Fork(p) \/ Exit(p) PROVE Mirror(seen)'
      <4>1. pc \notin {"user", "oops"}
        BY <1>3, <3>5 DEF Fork, Exit
      <4> QED
        BY <3>1, <3>5, <4>1, ProgramMirror
    <3>6. CASE InitModule \/ CleanupModule \/ Rest \/ Finish
      BY <1>3, <3>6
      DEF InitModule, CleanupModule, Rest, Finish, Caller, Inv, Session, vars
    <3> QED
      BY <1>3, <2>1, <2>3, <3>2, <3>3, <3>4, <3>5, <3>6
      DEF Next, Handler, Quiet, Probe, Answering
  <2> QED
    BY <2>2, <2>3
<1> QED
  BY <1>1, <1>2, <1>3

-----------------------------------------------------------------------------
(* The processes that have been a target have their copy, but for the node *)
(* while the caller waits for it.                                          *)
Complete(seen) ==
  pc \notin {"user", "oops"} =>
    \A p \in seen : \/ \E c \in Pid : IsCopy(c) /\ origin[c] = p
                    \/ p = node /\ Waiting /\ ~ff.done

LEMMA CompleteStep ==
  ASSUME ~Interruptible, OneCall, Inv, Protocol, Home, [Next]_vars,
         NEW seen \in SUBSET Pid, NEW path \in SUBSET Pid, NEW s \in SUBSET Pid,
         Walk(seen, path), Once(seen), Complete(seen), Turn(seen, s)
  PROVE  Complete(s)'
<1> SUFFICES ASSUME NEW p \in s, pc' \notin {"user", "oops"}
             PROVE  (\/ \E c \in Pid : IsCopy(c) /\ origin[c] = p
                     \/ p = node /\ Waiting /\ ~ff.done)'
  BY DEF Complete
<1>1. CASE Call
  BY <1>1 DEF Turn
<1>2. CASE Target
  <2>1. /\ s = seen \cup {node} /\ pc = "target" /\ pc' = "wait" /\ ff'.done = ff.done
        /\ UNCHANGED <<node, tree>>
    BY <1>2 DEF Target, Turn, Call, Caller, walk, Inv, TypeInv, TypeOK, Globals
  <2>2. ~ff.done
    BY <2>1 DEF Protocol, Waiting
  <2> QED
    BY <2>1, <2>2 DEF Complete, Waiting, IsCopy, tree
<1>3. CASE ~Call /\ ~Target
  <2>1. p \in seen /\ pc \notin {"user", "oops"}
    BY <1>3
    DEF Turn, Next, InitModule, CleanupModule, Handler, Descend, ChildrenDone, Wait,
        Interrupt, ClearDone, MoveGrandchild, MovesDone, Oops, Return, Finish, Rest, Probe,
        AfterSchedule, AddToList, SetPrime, Untarget, SetDone, WakeCaller, Probing, Fork,
        Exit, Caller, vars
  <2>2. CASE \E c \in Pid : IsCopy(c) /\ origin[c] = p
    <3>1. Next => Fixed
      BY NextFixed
    <3>2. UNCHANGED vars => UNCHANGED <<life, origin>>
      BY DEF vars, tree
    <3> QED
      BY <2>2, <3>1, <3>2 DEF Fixed, IsCopy
  <2>3. CASE p = node /\ Waiting /\ ~ff.done /\ \A c \in Pid : ~(IsCopy(c) /\ origin[c] = p)
    <3>1. ~ClearDone /\ ~MoveGrandchild /\ ~MovesDone /\ ~Oops /\ ~Return /\ ~Finish
          /\ ~Descend /\ ~ChildrenDone /\ ~Interrupt
      BY <2>3 DEF ClearDone, MoveGrandchild, MovesDone, Oops, Return, Finish, Caller,
                  Descend, ChildrenDone, Interrupt, Waiting
    <3>2. \A q \in Pid : ~SetDone(q)
      <4> SUFFICES ASSUME NEW q \in Pid, SetDone(q) PROVE FALSE
        OBVIOUS
      <4>1. q = node /\ Answer(clone_pid[q], q) /\ IsCopy(clone_pid[q])
        BY DEF SetDone, Probing, Protocol, Active, Inv, TypeInv, CopiesKnown
      <4> QED
        BY <2>3, <4>1 DEF Answer
    <3>3. UNCHANGED node /\ Waiting' /\ ~ff'.done
      BY <1>3, <2>3, <3>1, <3>2
      DEF Next, InitModule, CleanupModule, Handler, Wait, Rest, Probe, AfterSchedule,
          AddToList, SetPrime, Untarget, WakeCaller, Probing, Fork, Exit, Caller, vars,
          walk, Waiting, Inv, Session, TypeInv, TypeOK, Globals
    <3> QED
      BY <2>3, <3>3
  <2> QED
    BY <2>1, <2>2, <2>3 DEF Complete
<1> QED
  BY <1>1, <1>2, <1>3

-----------------------------------------------------------------------------
MirrorInv ==
  /\ Home /\ Asleep
  /\ \E seen, path \in SUBSET Pid :
       Walk(seen, path) /\ Once(seen) /\ Mirror(seen) /\ Complete(seen)

LEMMA InitMirror == Init => MirrorInv
<1> SUFFICES ASSUME Init PROVE MirrorInv
  OBVIOUS
<1>1. PICK seen \in SUBSET Pid, path \in SUBSET Pid : Walk(seen, path) /\ Once(seen)
  BY InitOnce DEF OnceInv, WalkInv, Walk
<1>2. Mirror(seen) /\ Complete(seen)
  BY DEF Init, Mirror, Complete
<1> QED
  BY <1>1, <1>2, InitOnce DEF OnceInv, MirrorInv

LEMMA NextMirror ==
  ASSUME ~Interruptible, OneCall
  PROVE  Inv /\ Protocol /\ MirrorInv /\ [Next]_vars => MirrorInv'
<1> SUFFICES ASSUME Inv, Protocol, MirrorInv, [Next]_vars PROVE MirrorInv'
  OBVIOUS
<1>1. PICK seen \in SUBSET Pid, path \in SUBSET Pid :
        Walk(seen, path) /\ Once(seen) /\ Mirror(seen) /\ Complete(seen)
  BY DEF MirrorInv
<1>2. Home' /\ Asleep'
  BY NextHome, NextAsleep DEF MirrorInv
<1>3. PICK s \in SUBSET Pid, p \in SUBSET Pid : Turn(seen, s) /\ Walk(s, p)' /\ Once(s)'
  BY <1>1, WalkStep DEF MirrorInv
<1>4. Mirror(s)' /\ Complete(s)'
  BY <1>1, <1>3, MirrorStep, CompleteStep DEF MirrorInv
<1> QED
  BY <1>2, <1>3, <1>4 DEF MirrorInv

(* When the copy is about to start, whatever there is of it is in place:   *)
(* each copy is below the copy of the parent of its original, for every    *)
(* tree, whatever its processes fork in the meantime; the only exceptions  *)
(* are copies of processes that have ended before their copy was moved.    *)
THEOREM TreeIsMirrored ==
  ASSUME ~Interruptible, OneCall
  PROVE  Spec => []TreeMirrored
<1>1. Inv /\ MirrorInv => TreeMirrored
  <2> SUFFICES ASSUME Inv, MirrorInv, pc = "finish", NEW c \in Pid, life[c] = "new"
               PROVE  IF origin[c] = Root THEN parent[c] = Root
                      ELSE \/ /\ parent[c] \in Pid /\ life[parent[c]] = "new"
                              /\ origin[parent[c]] = parent[origin[c]]
                           \/ Astray(c)
    BY DEF TreeMirrored
  <2>1. PICK seen \in SUBSET Pid, path \in SUBSET Pid :
          Walk(seen, path) /\ Once(seen) /\ Mirror(seen)
    BY DEF MirrorInv
  <2>2. IsCopy(c) /\ Placed(seen, c) /\ origin[c] \in seen
    BY <2>1 DEF MirrorInv, Asleep, IsCopy, Mirror, Once
  <2>3. origin[c] # Root => Past(seen, parent[origin[c]])
    BY <2>1, <2>2 DEF Walk, Frames, Past
  <2> QED
    BY <2>1, <2>2, <2>3 DEF Placed, Mirror
<1> QED
  BY <1>1, InitInv, NextInv, InitProtocol, NextProtocol, InitMirror, NextMirror, PTL DEF Spec

(* The caller never reads a NULL p_prime, and never goes on with the list  *)
(* of children of init: only an interrupted wait, or a second call that    *)
(* walks copies that the first has left, makes it oops.                    *)
THEOREM NeverOopses ==
  ASSUME ~Interruptible, OneCall
  PROVE  Spec => [](pc # "oops")
<1>1. Inv /\ Protocol /\ MirrorInv /\ pc # "oops" /\ [Next]_vars => (pc # "oops")'
  <2> SUFFICES ASSUME Inv, Protocol, MirrorInv, pc # "oops", [Next]_vars, pc' = "oops"
               PROVE  FALSE
    OBVIOUS
  <2>1. Oops \/ Return
    BY DEF Next, InitModule, CleanupModule, Call, Handler, Descend, ChildrenDone, Target,
           Wait, Interrupt, ClearDone, MoveGrandchild, MovesDone, Finish, Rest, Probe,
           AfterSchedule, AddToList, SetPrime, Untarget, SetDone, WakeCaller, Fork, Exit,
           Caller, vars
  <2>2. CASE Oops
    BY <2>2 DEF Oops, Caller, Protocol, Answer, Pid, None
  <2>3. CASE Return
    <3>1. PICK path \in SUBSET Pid : node \in path /\ (node = Root \/ parent[node] \in path)
      BY <2>3 DEF MirrorInv, Walk, Frames, Walking, Return, Caller
    <3>2. node # Root => parent[node] # Outside
      BY <3>1 DEF Pid, Outside
    <3> QED
      BY <2>3, <3>2 DEF Return, Outer, Caller
  <2> QED
    BY <2>1, <2>2, <2>3
<1>2. Init => pc # "oops"
  BY DEF Init
<1> QED
  BY <1>1, <1>2, InitInv, NextInv, InitProtocol, NextProtocol, InitMirror, NextMirror,
     PTL DEF Spec

-----------------------------------------------------------------------------
(* The refinement.  Tree describes a tree: who is in it is below the root. *)
Reachable ==
  \A S \in SUBSET Original :
    Root \in S /\ (\A p \in Original : Tree[p] \in S => p \in S) => S = Original

places == [p \in Original |-> PlaceOf(p)]

(* Steps that make, move and wake no copy.                                 *)
StillCopies ==
  \A c \in Pid :
    /\ IsCopy(c)' <=> IsCopy(c)
    /\ IsCopy(c) => /\ parent'[c] = parent[c] /\ origin'[c] = origin[c]
                    /\ life'[c] = "new" <=> life[c] = "new"

LEMMA PlacesKept ==
  ASSUME \A c \in Pid : /\ IsCopy(c)' <=> IsCopy(c)
                        /\ IsCopy(c) => parent'[c] = parent[c] /\ origin'[c] = origin[c]
  PROVE  UNCHANGED places
<1>1. \A p : CopiesOf(p)' = CopiesOf(p)
  BY DEF CopiesOf
<1>2. \A p : \A c \in CopiesOf(p) : parent'[c] = parent[c]
  BY DEF CopiesOf
<1>3. ASSUME NEW p \in Original PROVE PlaceOf(p)' = PlaceOf(p)
  <2>1. (\A c \in CopiesOf(p)' : parent'[c] = p) <=> (\A c \in CopiesOf(p) : parent[c] = p)
    BY <1>1, <1>2
  <2>2. (\A c \in CopiesOf(p)' : parent'[c] \in CopiesOf(Tree[p])')
          <=> (\A c \in CopiesOf(p) : parent[c] \in CopiesOf(Tree[p]))
    BY <1>1, <1>2
  <2> QED
    BY <1>1, <2>1, <2>2 DEF PlaceOf
<1> QED
  BY <1>3 DEF places

LEMMA StillPlaces ==
  ASSUME StillCopies
  PROVE  UNCHANGED TheCopy!vars
<1>1. UNCHANGED places /\ UNCHANGED Started
  BY PlacesKept DEF StillCopies, Started
<1> QED
  BY <1>1 DEF places, TheCopy!vars

LEMMA CopiesOfOne ==
  ASSUME NEW seen, Once(seen), NEW c \in Pid, IsCopy(c)
  PROVE  CopiesOf(origin[c]) = {c}
BY DEF CopiesOf, Once

LEMMA TreeParents ==
  ASSUME Home, NEW p \in Original
  PROVE  /\ p \in Pid /\ parent[p] = Tree[p] /\ (p # Root => Tree[p] \in Original)
         /\ Root \in Original /\ Tree[Root] \notin Original
BY TreeAssumption, WorkloadAssumption DEF Home, Original, Pid, Outside, None

(* A process is copied: what is below it is beside its originals.          *)
LEMMA CopyPlaces ==
  ASSUME Inv, Protocol, Home, NEW seen \in SUBSET Pid, NEW path \in SUBSET Pid,
         Walk(seen, path), Once(seen), Mirror(seen), Complete(seen), NEW p \in Pid,
         AfterSchedule(p)
  PROVE  [TheCopy!Next]_(TheCopy!vars)
<1> USE DEF Inv, TypeInv
<1>1. PICK c \in Pid : fullfork(c, p)
  BY DEF AfterSchedule
<1>2. /\ ff.target_pid = p /\ probe[p] = "user" /\ p # -1 /\ UNCHANGED <<ff, pc>>
      /\ life[c] = "free" /\ life[p] = "alive" /\ c # p
  BY <1>1 DEF AfterSchedule, Probing, fullfork, FreshPid, Pid
<1>3. p = node /\ Waiting /\ p \in seen /\ pc \notin {"user", "oops", "reparent"}
  BY <1>2 DEF Protocol, Waiting, Once
<1>4. /\ IsCopy(c)' /\ ~IsCopy(c) /\ origin'[c] = p /\ parent'[c] = p /\ life'[c] = "new"
      /\ \A d \in Pid : d # c =>
           /\ IsCopy(d)' <=> IsCopy(d)
           /\ origin'[d] = origin[d] /\ parent'[d] = parent[d] /\ life'[d] = life[d]
  BY <1>1, <1>2 DEF fullfork, NewChild, IsCopy, TypeOK, ProcessTypeOK
<1>5. /\ CopiesOf(p) = {} /\ CopiesOf(p)' = {c}
      /\ \A q : q # p => CopiesOf(q)' = CopiesOf(q) /\ c \notin CopiesOf(q)
  BY <1>2, <1>4 DEF CopiesOf, Once
<1>6. UNCHANGED Started
  BY <1>4 DEF Started
<1>7. ASSUME NEW q \in Original, q # p, NEW d \in CopiesOf(q), Tree[q] = p
      PROVE  CopiesOf(q) = {d} /\ parent[d] \in {q, Outside}
  <2>1. d \in Pid /\ IsCopy(d) /\ origin[d] = q /\ Placed(seen, d)
    BY <1>3 DEF CopiesOf, Mirror
  <2>2. q # Root /\ parent[q] = p
    BY <1>7, TreeParents, WorkloadAssumption DEF Outside, Pid
  <2>3. ~Past(seen, parent[q]) /\ ~MovedNow(d)
    BY <1>3, <2>1, <2>2 DEF Past, MovedNow, Waiting
  <2> QED
    BY <2>1, <2>2, <2>3, CopiesOfOne DEF Placed, Astray
<1>8. ASSUME NEW q \in Original, q # p PROVE PlaceOf(q)' = PlaceOf(q)
  <2>1. CopiesOf(q)' = CopiesOf(q) /\ \A d \in CopiesOf(q) : parent'[d] = parent[d]
    BY <1>4, <1>5, <1>8 DEF CopiesOf
  <2>2. CASE Tree[q] # p
    <3>1. CopiesOf(Tree[q])' = CopiesOf(Tree[q])
      BY <1>5, <2>2
    <3>2. (\A d \in CopiesOf(q)' : parent'[d] = q) <=> (\A d \in CopiesOf(q) : parent[d] = q)
      BY <2>1
    <3>3. (\A d \in CopiesOf(q)' : parent'[d] \in CopiesOf(Tree[q])')
            <=> (\A d \in CopiesOf(q) : parent[d] \in CopiesOf(Tree[q]))
      BY <2>1, <3>1
    <3> QED
      BY <2>1, <3>2, <3>3 DEF PlaceOf
  <2>3. CASE Tree[q] = p
    <3>1. \A d \in CopiesOf(q) : parent[d] \in {q, Outside}
      BY <1>7, <1>8, <2>3
    <3>2. (\A d \in CopiesOf(q)' : parent'[d] = q) <=> (\A d \in CopiesOf(q) : parent[d] = q)
      BY <2>1
    <3>3. CopiesOf(Tree[q]) = {} /\ CopiesOf(Tree[q])' = {c} /\ c # Outside
      BY <1>5, <2>3 DEF Pid, Outside
    <3>4. CopiesOf(q) # {} /\ (\A d \in CopiesOf(q)' : parent'[d] \in CopiesOf(Tree[q])')
            => \A d \in CopiesOf(q) : parent[d] = q
      <4> SUFFICES ASSUME NEW d \in CopiesOf(q), parent'[d] = c, parent[d] # q
                   PROVE  FALSE
        BY <2>1, <3>3
      <4> QED
        BY <2>1, <3>1, <3>3
    <3> QED
      BY <2>1, <3>2, <3>3, <3>4 DEF PlaceOf
  <2> QED
    BY <2>2, <2>3
<1>9. CASE p \notin Original
  BY <1>6, <1>8, <1>9 DEF TheCopy!vars
<1>10. CASE p \in Original
  <2>1. PlaceOf(p) = "none" /\ PlaceOf(p)' = "beside"
    BY <1>4, <1>5 DEF PlaceOf
  <2>2. ASSUME NEW q \in Original, Tree[q] = p PROVE PlaceOf(q) \in {"beside", "lost"}
    <3>1. q \in seen /\ q # p
      BY <1>3, <1>10, <2>2, TreeParents, TreeAssumption DEF Walk, Behind
    <3>2. PICK d \in Pid : IsCopy(d) /\ origin[d] = q
      BY <1>3, <3>1 DEF Complete
    <3>3. CopiesOf(q) = {d} /\ parent[d] \in {q, Outside}
      BY <1>7, <2>2, <3>1, <3>2 DEF CopiesOf
    <3>4. CopiesOf(Tree[q]) = {}
      BY <1>5, <2>2
    <3> QED
      BY <3>3, <3>4 DEF PlaceOf
  <2>3. places' = [places EXCEPT ![p] = "beside"]
    BY <1>8, <1>10, <2>1 DEF places
  <2>4. TheCopy!Copy(p)
    BY <1>6, <1>10, <2>1, <2>2, <2>3 DEF TheCopy!Copy, TheCopy!Below, places
  <2> QED
    BY <1>10, <2>4 DEF TheCopy!Next
<1> QED
  BY <1>9, <1>10

(* A copy moves below the copy of the parent of its original.              *)
LEMMA MovePlaces ==
  ASSUME Inv, Protocol, Home, NEW seen \in SUBSET Pid, NEW path \in SUBSET Pid,
         Walk(seen, path), Once(seen), Mirror(seen), MoveGrandchild
  PROVE  [TheCopy!Next]_(TheCopy!vars)
<1>1. PICK g \in Pid : Movable(g) /\ Reparent(g, ff.p_prime)
  BY DEF MoveGrandchild
<1>2. /\ pc = "reparent" /\ UNCHANGED <<life, origin>>
      /\ parent'[g] = ff.p_prime /\ \A c \in Pid : c # g => parent'[c] = parent[c]
  BY <1>1 DEF MoveGrandchild, Caller, Reparent, Inv, TypeInv, TypeOK, ProcessTypeOK
<1>3. IsCopy(g) /\ origin[g] \in Pid /\ parent[origin[g]] = node /\ parent[g] = origin[g]
  BY <1>1, <1>2, MovesBelow
<1>4. Answer(ff.p_prime, node) /\ IsCopy(ff.p_prime) /\ ~IsCopy(origin[g])
  BY <1>2, <1>3
  DEF Protocol, Answer, Inv, TypeInv, CopiesKnown, Pid, None, Once, Walk, Frames
<1>5. CopiesOf(node) = {ff.p_prime} /\ CopiesOf(origin[g]) = {g}
  BY <1>3, <1>4, CopiesOfOne DEF Answer
<1>6. \A q : CopiesOf(q)' = CopiesOf(q)
  BY <1>2 DEF CopiesOf, IsCopy
<1>7. UNCHANGED Started
  BY <1>2 DEF Started, IsCopy
<1>8. ASSUME NEW q \in Original, q # origin[g] PROVE PlaceOf(q)' = PlaceOf(q)
  <2>1. \A d \in CopiesOf(q) : parent'[d] = parent[d]
    BY <1>2, <1>8 DEF CopiesOf
  <2>2. (\A d \in CopiesOf(q)' : parent'[d] = q) <=> (\A d \in CopiesOf(q) : parent[d] = q)
    BY <1>6, <2>1
  <2>3. (\A d \in CopiesOf(q)' : parent'[d] \in CopiesOf(Tree[q])')
          <=> (\A d \in CopiesOf(q) : parent[d] \in CopiesOf(Tree[q]))
    BY <1>6, <2>1
  <2> QED
    BY <1>6, <2>2, <2>3 DEF PlaceOf
<1>9. CASE origin[g] \notin Original
  BY <1>7, <1>8, <1>9 DEF TheCopy!vars
<1>10. CASE origin[g] \in Original
  <2>0. PICK p \in Original, n \in Pid, f \in Pid :
          p = origin[g] /\ n = node /\ f = ff.p_prime
    BY <1>4, <1>10, <1>3 DEF Answer, Inv, TypeInv, TypeOK
  <2>1. Tree[p] = n /\ n \in Original
    BY <1>2, <1>3, <2>0, TreeParents
    DEF Home, Original, Walk, Frames, Walking, Pid, Outside
  <2>2. PlaceOf(p) = "beside" /\ PlaceOf(n) \in {"beside", "lost"}
    <3>1. CopiesOf(n) = {f} /\ parent[f] \in {n, Outside} /\ Outside \notin CopiesOf(Tree[n])
      BY <1>4, <1>5, <2>0 DEF Answer, CopiesOf, Pid, Outside
    <3> QED
      BY <1>3, <1>5, <2>0, <3>1 DEF PlaceOf
  <2>3. PlaceOf(p)' = "moved"
    <3>1. CopiesOf(p)' = {g} /\ CopiesOf(n)' = {f} /\ parent'[g] = f /\ f # p
      BY <1>2, <1>4, <1>5, <1>6, <2>0
    <3> QED
      BY <2>1, <3>1 DEF PlaceOf
  <2>4. places' = [places EXCEPT ![p] = "moved"]
    BY <1>8, <2>0, <2>3 DEF places
  <2>5. TheCopy!Move(p)
    BY <1>7, <2>1, <2>2, <2>4 DEF TheCopy!Move, places
  <2> QED
    BY <2>5 DEF TheCopy!Next
<1> QED
  BY <1>9, <1>10

(* The copy of the caller is woken when the copy of the tree is complete.  *)
LEMMA FinishPlaces ==
  ASSUME Reachable, Inv, Protocol, Home, NEW seen \in SUBSET Pid, NEW path \in SUBSET Pid,
         Walk(seen, path), Once(seen), Mirror(seen), Complete(seen), Finish
  PROVE  TheCopy!Next
<1> USE DEF Inv, TypeInv
<1>1. pc = "finish" /\ life' = [life EXCEPT ![ff.p_prime] = "alive"] /\ UNCHANGED <<parent, origin>>
  BY DEF Finish, Caller
<1>2. ff.p_prime \in Pid /\ IsCopy(ff.p_prime)
  BY <1>1 DEF Session, PrimeAtFinish, CopiesKnown, TypeOK, Globals
<1>3. Started' = TRUE /\ UNCHANGED places
  <2>1. \A c \in Pid : IsCopy(c)' <=> IsCopy(c)
    BY LifeSameCopies DEF SameCopies
  <2>2. UNCHANGED places
    BY <1>1, <2>1, PlacesKept
  <2>3. Started'
    <3>1. PICK c \in Pid : c = ff.p_prime
      BY <1>2
    <3>2. IsCopy(c)' /\ life'[c] = "alive"
      BY <1>1, <1>2, <2>1, <3>1 DEF TypeOK, ProcessTypeOK
    <3> QED
      BY <3>2 DEF Started
  <2> QED
    BY <2>2, <2>3 DEF Started
<1>4. Original \subseteq seen
  <2> DEFINE S == seen \cap Original
  <2>1. Root \in S
    BY <1>1, TreeParents, WorkloadAssumption DEF Walk, Behind, Original, Pid, Outside, None
  <2>2. \A p \in Original : Tree[p] \in S => p \in S
    BY DEF Walk, Behind
  <2>3. S = Original
    <3> HIDE DEF S
    <3>1. S \in SUBSET Original
      BY DEF S
    <3> QED
      BY <2>1, <2>2, <3>1 DEF Reachable
  <2> QED
    BY <2>3
<1>5. ASSUME NEW p \in Original
      PROVE  PlaceOf(p) \in IF Tree[p] \in Original THEN {"moved", "lost"} ELSE {"beside"}
  <2>1. p \in seen /\ p \in Pid /\ parent[p] = Tree[p] /\ ~IsCopy(p)
    BY <1>4, <1>5, TreeParents DEF Home
  <2>2. PICK c \in Pid : IsCopy(c) /\ origin[c] = p
    BY <1>1, <2>1 DEF Complete, Waiting
  <2>3. CopiesOf(p) = {c} /\ Placed(seen, c)
    BY <1>1, <2>2, CopiesOfOne DEF Mirror
  <2>4. CASE p = Root
    BY <1>5, <2>2, <2>3, <2>4, TreeParents DEF Placed, PlaceOf
  <2>5. CASE p # Root
    <3>1. Tree[p] \in Original /\ parent[p] \in seen
      BY <1>1, <1>5, <2>1, <2>5, TreeParents DEF Walk, Frames
    <3>2. Past(seen, parent[p])
      BY <1>1, <3>1 DEF Past
    <3>3. parent[c] \in CopiesOf(Tree[p]) \/ parent[c] = Outside
      BY <2>1, <2>2, <2>3, <2>5, <3>2 DEF Placed, CopiesOf, Astray
    <3>4. parent[c] # p
      BY <2>1, <3>3 DEF CopiesOf, Pid, Outside
    <3> QED
      BY <2>3, <3>1, <3>3, <3>4 DEF PlaceOf
  <2> QED
    BY <2>4, <2>5
<1>6. TheCopy!Start
  BY <1>3, <1>5 DEF TheCopy!Start, places
<1> QED
  BY <1>6 DEF TheCopy!Next

(* A process ends: the copy that is beside it, if it has one, is lost.     *)
LEMMA ExitPlaces ==
  ASSUME Inv, Home, NEW seen \in SUBSET Pid, Once(seen), NEW p \in Pid, Exit(p)
  PROVE  [TheCopy!Next]_(TheCopy!vars)
<1> USE DEF Inv, TypeInv
<1>1. /\ p # Root /\ p \in Exiters /\ ~IsCopy(p) /\ life[p] = "alive" /\ UNCHANGED origin
      /\ life' = [life EXCEPT ![p] = "zombie"]
      /\ \A c \in Pid : parent'[c] = IF parent[c] = p THEN Outside ELSE parent[c]
  BY WorkloadAssumption DEF Exit, Ended
<1>2. \A c \in Pid : /\ IsCopy(c)' <=> IsCopy(c)
                     /\ IsCopy(c) => life'[c] = life[c]
  BY <1>1 DEF IsCopy, TypeOK, ProcessTypeOK
<1>3. CASE \A c \in Pid : IsCopy(c) => parent[c] # p
  <2>1. StillCopies
    BY <1>1, <1>2, <1>3 DEF StillCopies
  <2> QED
    BY <2>1, StillPlaces
<1>4. CASE \E c \in Pid : IsCopy(c) /\ parent[c] = p
  <2>1. PICK c \in Pid : IsCopy(c) /\ parent[c] = p
    BY <1>4
  <2>2. origin[c] = p
    BY <1>1, <2>1 DEF Once, Hangs, Pid, Outside
  <2>3. CopiesOf(p) = {c} /\ \A q : CopiesOf(q)' = CopiesOf(q)
    BY <1>1, <1>2, <2>1, <2>2, CopiesOfOne DEF CopiesOf
  <2>4. UNCHANGED Started
    BY <1>2 DEF Started
  <2>5. ASSUME NEW q \in Original, q # p PROVE PlaceOf(q)' = PlaceOf(q)
    <3>1. \A d \in CopiesOf(q) : parent'[d] = parent[d]
      BY <1>1, <2>1, <2>3, <2>5 DEF CopiesOf, Once, Hangs, Pid, Outside
    <3>2. (\A d \in CopiesOf(q)' : parent'[d] = q) <=> (\A d \in CopiesOf(q) : parent[d] = q)
      BY <2>3, <3>1
    <3>3. (\A d \in CopiesOf(q)' : parent'[d] \in CopiesOf(Tree[q])')
            <=> (\A d \in CopiesOf(q) : parent[d] \in CopiesOf(Tree[q]))
      BY <2>3, <3>1
    <3> QED
      BY <2>3, <3>2, <3>3 DEF PlaceOf
  <2>6. CASE p \notin Original
    BY <2>4, <2>5, <2>6 DEF TheCopy!vars
  <2>7. CASE p \in Original
    <3>1. PlaceOf(p) = "beside"
      BY <2>1, <2>3 DEF PlaceOf
    <3>2. PlaceOf(p)' = "lost"
      <4>1. CopiesOf(p)' = {c} /\ parent'[c] = Outside
        BY <1>1, <2>1, <2>3
      <4>2. Outside # p /\ Outside \notin CopiesOf(Tree[p])'
        BY <2>3 DEF CopiesOf, Pid, Outside
      <4> QED
        BY <4>1, <4>2 DEF PlaceOf
    <3>3. places' = [places EXCEPT ![p] = "lost"]
      BY <2>5, <2>7, <3>2 DEF places
    <3>4. Tree[p] \in Original
      BY <1>1, <2>7, TreeParents
    <3>5. TheCopy!Lose(p)
      BY <1>1, <2>4, <2>7, <3>1, <3>3, <3>4 DEF TheCopy!Lose, places
    <3> QED
      BY <2>7, <3>5 DEF TheCopy!Next
  <2> QED
    BY <2>6, <2>7
<1> QED
  BY <1>3, <1>4

LEMMA OtherPlaces ==
  ASSUME Inv, [Next]_vars, ~MoveGrandchild, ~Finish,
         \A p \in Pid : ~AfterSchedule(p) /\ ~Exit(p)
  PROVE  UNCHANGED TheCopy!vars
<1> USE DEF Inv, TypeInv
<1>1. CASE UNCHANGED tree
  BY <1>1, StillPlaces DEF StillCopies, IsCopy, tree
<1>2. CASE \E p \in Pid : Fork(p)
  <2>1. PICK c \in Pid, p \in Pid : FreshPid(c) /\ NewChild(c, p, "alive", c)
    BY <1>2 DEF Fork
  <2>2. StillCopies
    BY <2>1 DEF StillCopies, FreshPid, NewChild, IsCopy, TypeOK, ProcessTypeOK
  <2> QED
    BY <2>2, StillPlaces
<1> QED
  BY <1>1, <1>2
  DEF Next, InitModule, CleanupModule, Call, Handler, Descend, ChildrenDone, Target, Wait,
      Interrupt, ClearDone, MovesDone, Oops, Return, Rest, Probe, AddToList, SetPrime,
      Untarget, SetDone, WakeCaller, vars

LEMMA InitPlaces == Init => TheCopy!Init
<1> SUFFICES ASSUME Init PROVE TheCopy!Init
  OBVIOUS
<1>1. \A p \in Pid : ~IsCopy(p)
  BY DEF Init, TreeInit, IsCopy
<1>2. (\A p : CopiesOf(p) = {}) /\ Started = FALSE
  BY <1>1 DEF CopiesOf, Started
<1> QED
  BY <1>2 DEF TheCopy!Init, PlaceOf

(* Targets, answers, the list, the wait queue and reparenting amount to a  *)
(* copy of the tree from the leaves up, each process once and next to its  *)
(* original, that starts when all of it is in place, or lost with a process*)
(* that has ended: for every tree, while its processes may fork and end.   *)
THEOREM TreeForkIsATreeCopy ==
  ASSUME ~Interruptible, OneCall, Reachable
  PROVE  Spec => ImplementsTreeCopy
<1>1. Inv /\ Protocol /\ MirrorInv /\ [Next]_vars => [TheCopy!Next]_(TheCopy!vars)
  <2> SUFFICES ASSUME Inv, Protocol, MirrorInv, [Next]_vars
               PROVE  [TheCopy!Next]_(TheCopy!vars)
    OBVIOUS
  <2>1. PICK seen \in SUBSET Pid, path \in SUBSET Pid :
          Walk(seen, path) /\ Once(seen) /\ Mirror(seen) /\ Complete(seen)
    BY DEF MirrorInv
  <2>2. Home
    BY DEF MirrorInv
  <2>3. CASE \E p \in Pid : AfterSchedule(p)
    BY <2>1, <2>2, <2>3, CopyPlaces
  <2>4. CASE MoveGrandchild
    BY <2>1, <2>2, <2>4, MovePlaces
  <2>5. CASE Finish
    BY <2>1, <2>2, <2>5, FinishPlaces
  <2>6. CASE \E p \in Pid : Exit(p)
    BY <2>1, <2>2, <2>6, ExitPlaces
  <2> QED
    BY <2>3, <2>4, <2>5, <2>6, OtherPlaces
<1> QED
  BY <1>1, InitInv, NextInv, InitProtocol, NextProtocol, InitMirror, NextMirror, InitPlaces,
     PTL DEF Spec, ImplementsTreeCopy, TheCopy!Spec
=============================================================================
