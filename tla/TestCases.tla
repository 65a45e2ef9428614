------------------------------ MODULE TestCases ------------------------------
(***************************************************************************)
(* The programs in FULL_FORK/testcases, FULL_FORK/forker.c and             *)
(* FULL_FORK/benchmarking/forker.c as scripts: what each thread does that  *)
(* another thread or process can notice.  Sleeping, computing and printing *)
(* take time and nothing else, so a thread that only does that is Plain.   *)
(*                                                                         *)
(* A thread is named by its index in the program's table of threads, from  *)
(* 1; main is 0.                                                           *)
(***************************************************************************)
EXTENDS Naturals, Sequences

Op(name, who, body) == [op |-> name, who |-> who, body |-> body]

create(n, function) == Op("create", {n}, function)   (* pthread_create      *)
join(threads)       == Op("join", threads, <<>>)     (* pthread_join of each*)
fork(child)         == Op("fork", {}, child)         (* what the child runs *)
wait                == Op("wait", {}, <<>>)          (* wait(NULL)          *)
exit                == Op("exit", {}, <<>>)          (* exit(0)             *)
syscall548          == Op("call", {}, <<>>)

Plain == <<>>

(* The child of a thread's fork goes on to the end of the thread function  *)
(* or computes a Fibonacci number; the parent goes on, or waits.           *)
Forker  == <<fork(Plain)>>
Waiter  == <<fork(Plain), wait>>
Quitter == <<exit>>

CreateAll(f, g, h) == <<create(1, f), create(2, g), create(3, h)>>
JoinAll == join({1, 2, 3})

(* 1-4: the call before, after and between the creation of the threads.    *)
Test1 == <<syscall548>> \o CreateAll(Plain, Plain, Plain) \o <<JoinAll>>

Test2 == CreateAll(Plain, Plain, Plain) \o <<JoinAll, syscall548>>

Test3 == <<create(1, Plain), create(2, Plain), syscall548, create(3, Plain), JoinAll>>

Test4 == <<create(1, Plain), syscall548, create(2, Plain), create(3, Plain), JoinAll>>

(* 5-8: a thread forks and waits, among threads that end and compute.      *)
Test5 == CreateAll(Waiter, Plain, Plain) \o <<syscall548, JoinAll>>

Test6 == <<create(1, Waiter), syscall548, create(2, Plain), create(3, Plain), JoinAll>>

Test7 == <<create(1, Waiter), create(2, Plain), syscall548, create(3, Plain), JoinAll>>

(* In 8 a thread creates the forking thread and joins it, and the child    *)
(* waits too.                                                              *)
Test8 ==
  LET thread_one == <<fork(<<wait>>), wait>>
      thread_two == <<create(2, thread_one), join({2})>>
  IN  <<create(1, thread_two), syscall548, join({1})>>

(* 9-12: main forks first; the parent (9, 10) or the child (11, 12) calls. *)
Test9 ==
  <<fork(Plain), wait>> \o CreateAll(Plain, Plain, Plain) \o <<syscall548, JoinAll>>

Test10 ==
  <<fork(Plain)>> \o CreateAll(Quitter, Plain, Plain) \o <<syscall548, JoinAll>>

Test11 == <<fork(CreateAll(Plain, Plain, Plain) \o <<syscall548, JoinAll>>)>>

Test12 == <<fork(<<syscall548>> \o CreateAll(Plain, Plain, Plain) \o <<JoinAll>>)>>

(* 13-15: one of the threads forks.                                        *)
Test13 == <<create(1, Forker), syscall548, create(2, Plain), create(3, Plain), JoinAll>>

Test14 == <<create(1, Forker), create(2, Plain), syscall548, create(3, Plain), JoinAll>>

Test15 == CreateAll(Forker, Plain, Plain) \o <<syscall548, JoinAll>>

(* 16-18: two threads fork and wait; in 17 the other one calls exit.       *)
Test16 == <<create(1, Waiter), syscall548, create(2, Plain), create(3, Waiter), JoinAll>>

Test17 == <<create(1, Waiter), create(2, Quitter), syscall548, create(3, Waiter), JoinAll>>

Test18 == CreateAll(Waiter, Plain, Waiter) \o <<syscall548, JoinAll>>

(* FULL_FORK/forker.c: four threads; system call 549 does not exist.       *)
ForkerProgram ==
  CreateAll(Plain, Plain, Plain)
    \o <<create(4, Plain), syscall548, join({1, 2, 3}), join({4})>>

(* FULL_FORK/benchmarking/forker.c: two threads for each of num_threads,   *)
(* which compute Fibonacci numbers; main returns without joining them.     *)
thread_function2 == Plain
thread_function4 == Plain

Benchmark(num_threads) ==
  [i \in 1 .. 2 * num_threads |->
     create(i, IF i % 2 = 1 THEN thread_function2 ELSE thread_function4)]
  \o <<syscall548>>
=============================================================================
