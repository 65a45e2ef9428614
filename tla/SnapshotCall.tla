----------------------------- MODULE SnapshotCall -----------------------------
(***************************************************************************)
(* What system call 548 promises a process, without a word about signals,  *)
(* hooks or wait queues: the caller freezes its process, takes a copy of   *)
(* the contexts that its live threads are in, thaws the process and        *)
(* returns.  The copy is of one instant: between freeze and thaw nobody    *)
(* joins or leaves the process.  It is partial only if the call says that  *)
(* it failed; the call may also give up before the freeze.                 *)
(***************************************************************************)
CONSTANTS
  Task,       (* tasks, and the contexts in which they resume user mode    *)
  Process     (* processes, named by their leaders                         *)

VARIABLES
  members,    (* members[p]: the contexts of the live threads of p         *)
  process,    (* process[t]: the process that t is part of, if any         *)
  phase,      (* phase[t]: how far the call of t has got                   *)
  copy,       (* copy[t]: the contexts in the copy that t's call has made  *)
  told        (* told[t]: what the call says of it, "ok" or "failed"       *)

vars == <<members, process, phase, copy, told>>

Phase == {"out", "begun", "frozen", "copied", "thawed"}

Init ==
  /\ members \in [Process -> SUBSET Task]
  /\ process \in [Task -> Process \cup {0}]
  /\ phase = [t \in Task |-> "out"]
  /\ copy = [t \in Task |-> {}]
  /\ told = [t \in Task |-> "none"]

Frozen(p) ==
  \E t \in Task : process[t] = p /\ phase[t] \in {"frozen", "copied"}

Pass(t, from, to) ==
  /\ phase[t] = from /\ phase' = [phase EXCEPT ![t] = to]
  /\ UNCHANGED <<members, process>>

Begin(t)  == Pass(t, "out", "begun") /\ UNCHANGED <<copy, told>>
Freeze(t) == Pass(t, "begun", "frozen") /\ UNCHANGED <<copy, told>>
GiveUp(t) == Pass(t, "begun", "out") /\ UNCHANGED <<copy, told>>
Return(t) == Pass(t, "thawed", "out") /\ UNCHANGED <<copy, told>>

TakeCopy(t) ==
  /\ Pass(t, "frozen", "copied")
  /\ \E S \in SUBSET members[process[t]], answer \in {"ok", "failed"} :
       /\ answer = "ok" => S = members[process[t]]
       /\ copy' = [copy EXCEPT ![t] = S]
       /\ told' = [told EXCEPT ![t] = answer]

Thaw(t) ==
  /\ Pass(t, "copied", "thawed")
  /\ copy' = [copy EXCEPT ![t] = {}] /\ told' = [told EXCEPT ![t] = "none"]

(* Threads and processes come and go, but not in a frozen process.  A copy *)
(* that is complete stays as it is; one that the call has given up may     *)
(* still be added to.                                                      *)
Live ==
  /\ \A p \in Process : Frozen(p) => members'[p] = members[p]
  /\ \A t \in Task : process[t] # 0 => process'[t] = process[t]
  /\ copy' \in [Task -> SUBSET Task]
  /\ \A t \in Task : copy'[t] # copy[t] =>
       told[t] = "failed" /\ copy[t] \cup copy'[t] \subseteq members[process[t]]
  /\ UNCHANGED <<phase, told>>

Next ==
  \/ Live
  \/ \E t \in Task : \/ Begin(t) \/ Freeze(t) \/ GiveUp(t)
                     \/ TakeCopy(t) \/ Thaw(t) \/ Return(t)

Spec == Init /\ [][Next]_vars
=============================================================================
