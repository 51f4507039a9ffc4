------------------------------ MODULE CThread ------------------------------
(***************************************************************************)
(* lecture_examples/6_threads/12_cthread_detach.c: threads made with       *)
(* clone, which nobody but the program can clean up after.  A thread runs  *)
(* on a stack that it cannot free itself: the kernel sets the tid of its   *)
(* stack to 0 when the thread has left it, and whoever destroys a thread   *)
(* later frees the stacks found so at the head of a list.                  *)
(*                                                                         *)
(* The main thread detaches or joins each thread it creates.  A section    *)
(* under last_stack_lock is one step.                                      *)
(***************************************************************************)
EXTENDS Integers, Sequences, SequencesExt

CONSTANT CThreads

VARIABLES
  creator,       \* what main() is doing, and to which thread
  runner,        \* where each thread is
  lock,          \* the threads whose lock is taken
  seen,          \* what the thread inside of cthread_runner and main() have read
  is_finished, is_detached,
  tid,           \* the threads the kernel has not ended
  stack_list,
  destroyed,     \* how often each thread was destroyed
  freed          \* the stacks that are free

vars == <<creator, runner, lock, seen, is_finished, is_detached, tid, stack_list,
          destroyed, freed>>

Idle == <<"idle">>

Init ==
  /\ creator = Idle
  /\ runner = [t \in CThreads |-> "none"]
  /\ lock = {}
  /\ seen = [t \in CThreads |-> [main |-> FALSE, runner |-> FALSE]]
  /\ is_finished = {} /\ is_detached = {}
  /\ tid = {}
  /\ stack_list = <<>>
  /\ destroyed = [t \in CThreads |-> 0]
  /\ freed = {}

\* Lines 51-59: the list from the first thread on that has not ended.
Unended(list) == SelectInSeq(list, LAMBDA t : t \in tid)

cthread_destroy(t) ==
  LET first == Unended(stack_list)
      keep == IF first = 0 THEN <<>> ELSE SubSeq(stack_list, first, Len(stack_list)) IN
  /\ freed' = freed \cup (ToSet(stack_list) \ ToSet(keep))
  /\ stack_list' = <<t>> \o keep
  /\ destroyed' = [destroyed EXCEPT ![t] = @ + 1]

DestroyIf(condition, t) ==
  IF condition THEN cthread_destroy(t) ELSE UNCHANGED <<freed, stack_list, destroyed>>

\* The structure and the stack are new; then main() detaches or joins.
cthread_create(t) ==
  /\ creator = Idle
  /\ runner[t] = "none"
  /\ runner' = [runner EXCEPT ![t] = "func"]
  /\ tid' = tid \cup {t}
  /\ creator' \in {<<"detach", t>>, <<"join", t>>}
  /\ UNCHANGED <<lock, seen, is_finished, is_detached, stack_list, destroyed, freed>>

\* A mistake to be caught: 11_cthread_bad_detach.c, which has no lock.
AcquireNothing(t) == UNCHANGED lock

spin_lock(t) == t \notin lock /\ lock' = lock \cup {t}

spin_unlock(t) == lock' = lock \ {t}

\* cthread_runner, from where func returns or cthread_exit jumps to.
RunnerLock(t) ==
  /\ runner[t] = "func"
  /\ spin_lock(t)
  /\ seen' = [seen EXCEPT ![t] = [main |-> @.main, runner |-> t \in is_detached]]
  /\ runner' = [runner EXCEPT ![t] = "locked"]
  /\ UNCHANGED <<creator, is_finished, is_detached, tid, stack_list, destroyed, freed>>

RunnerFinish(t) ==
  /\ runner[t] = "locked"
  /\ DestroyIf(seen[t].runner, t)
  /\ is_finished' = is_finished \cup {t}
  /\ spin_unlock(t)
  /\ runner' = [runner EXCEPT ![t] = "return"]
  /\ UNCHANGED <<creator, seen, is_detached, tid>>

\* The kernel ends the thread and clears its tid.
RunnerExit(t) ==
  /\ runner[t] = "return"
  /\ tid' = tid \ {t}
  /\ runner' = [runner EXCEPT ![t] = "ended"]
  /\ UNCHANGED <<creator, lock, seen, is_finished, is_detached, stack_list, destroyed, freed>>

DetachLock(t) ==
  /\ creator = <<"detach", t>>
  /\ spin_lock(t)
  /\ seen' = [seen EXCEPT ![t] = [main |-> t \in is_finished, runner |-> @.runner]]
  /\ creator' = <<"locked", t>>
  /\ UNCHANGED <<runner, is_finished, is_detached, tid, stack_list, destroyed, freed>>

cthread_detach(t) ==
  /\ creator = <<"locked", t>>
  /\ DestroyIf(seen[t].main, t)
  /\ is_detached' = is_detached \cup {t}
  /\ spin_unlock(t)
  /\ creator' = Idle
  /\ UNCHANGED <<runner, seen, is_finished, tid>>

cthread_join(t) ==
  /\ creator = <<"join", t>>
  /\ t \in is_finished
  /\ cthread_destroy(t)
  /\ creator' = Idle
  /\ UNCHANGED <<runner, lock, seen, is_finished, is_detached, tid>>

Next == \E t \in CThreads :
  \/ cthread_create(t) \/ RunnerLock(t) \/ RunnerFinish(t) \/ RunnerExit(t)
  \/ DetachLock(t) \/ cthread_detach(t) \/ cthread_join(t)

\* Nobody runs on a free stack, no stack is freed twice, and a thread that has
\* ended is destroyed by exactly one of itself and the main thread, whether it was
\* detached before it finished, after, or joined.
StacksSafe ==
  /\ freed \cap tid = {}
  /\ IsInjective(stack_list) /\ freed \cap ToSet(stack_list) = {}
  /\ \A t \in CThreads :
       /\ destroyed[t] <= 1
       /\ runner[t] = "ended" /\ (creator = Idle \/ creator[2] # t) => destroyed[t] = 1
=============================================================================
