--------------------------- MODULE MCTestPrograms ---------------------------
(* Instances of TestPrograms for TLC: which programs are run.               *)
EXTENDS TestPrograms

AllPrograms ==
  {Test1, Test2, Test3, Test4, Test5, Test6, Test7, Test8, Test9, Test10,
   Test11, Test12, Test13, Test14, Test15, Test16, Test17, Test18,
   ForkerProgram, Benchmark(1), Benchmark(2)}

(* The scripts of the programs, and what each of them joins.               *)
RECURSIVE ScriptsOf(_), JoinedBy(_)
ScriptsOf(s) ==
  {s} \cup IF s = <<>> THEN {}
          ELSE ScriptsOf(Tail(s)) \cup ScriptsOf(Head(s).body)

JoinedBy(s) ==
  IF s = <<>> THEN {}
  ELSE JoinedBy(Tail(s)) \cup JoinedBy(Head(s).body)
         \cup IF Head(s).op = "join" THEN Head(s).who ELSE {}

AllScripts == UNION {ScriptsOf(s) : s \in AllPrograms}
AllOps     == {Head(s) : s \in AllScripts \ {<<>>}}

(* All the programs are careful about what they fork.                      *)
ASSUME ProgramsAreCareful ==
  /\ AllPrograms \subseteq AllScripts
  /\ Careful(AllScripts, AllOps, [s \in AllScripts |-> JoinedBy(s)])

(* Threads that end during the call, and none that forks.                  *)
EndingPrograms == {Test3}
=============================================================================
