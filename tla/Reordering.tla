----------------------------- MODULE Reordering -----------------------------
(***************************************************************************)
(* lecture_examples/6_threads/8_5_cpu_reordering.c: in each iteration      *)
(* thread 1 sets X and reads Y while thread 2 sets Y and reads X, and      *)
(* main() looks whether both read 0.                                       *)
(*                                                                         *)
(* The processors are those of the fence it uses, mfence: the stores of    *)
(* each go through a buffer of its own, in order, and it reads them there  *)
(* before the others can.  The statements are taken to be compiled in      *)
(* their order.  The random delays are the scheduler's choice.             *)
(***************************************************************************)
EXTENDS Integers, Sequences

CONSTANT FENCES      \* values of USE_CPU_FENCE to try

Threads == 1..2
Main == 0

\* X is thread 1's variable and Y thread 2's.
Var(t) == <<"var", t>>
Result(t) == <<"r", t>>
StartOf(t) == <<"start", t>>
EndOf(t) == <<"end", t>>

Addresses == {"var", "r", "start", "end"} \X Threads

VARIABLES
  USE_CPU_FENCE,
  shared,      \* memory
  buffer,      \* of each processor, the stores that have not reached memory
  line         \* where main() and each thread are

vars == <<USE_CPU_FENCE, shared, buffer, line>>

Init ==
  /\ USE_CPU_FENCE \in FENCES
  /\ shared = [a \in Addresses |-> 0]
  /\ buffer = [p \in {Main} \cup Threads |-> <<>>]
  /\ line = [p \in {Main} \cup Threads |-> IF p = Main THEN "reset" ELSE "start"]

\* A processor reads the newest store in its own buffer, or memory.
Load(p, a) ==
  LET own == {k \in DOMAIN buffer[p] : buffer[p][k][1] = a} IN
  IF own = {} THEN shared[a]
  ELSE buffer[p][CHOOSE k \in own : \A l \in own : l <= k][2]

Store(p, stores) == buffer' = [buffer EXCEPT ![p] = @ \o stores]

Goto(p, l) == line' = [line EXCEPT ![p] = l]

\* A store reaches memory.
Flush(p) ==
  /\ buffer[p] # <<>>
  /\ shared' = [shared EXCEPT ![Head(buffer[p])[1]] = Head(buffer[p])[2]]
  /\ buffer' = [buffer EXCEPT ![p] = Tail(@)]
  /\ UNCHANGED <<USE_CPU_FENCE, line>>

-----------------------------------------------------------------------------

\* A mistake to be caught: the barrier is the compiler's only.
compiler_barrier(t) == TRUE

\* mfence waits until the buffer is empty.
barrier(t) == USE_CPU_FENCE => buffer[t] = <<>>

\* Stores of one processor in a row are one step, as they enter its own buffer.
ThreadStart(t) ==
  /\ line[t] = "start"
  /\ Load(t, StartOf(t)) = 1
  /\ Store(t, <<<<StartOf(t), 0>>>>)
  /\ Goto(t, "store")
  /\ UNCHANGED <<USE_CPU_FENCE, shared>>

SetOwn(t) ==
  /\ line[t] = "store"
  /\ Store(t, <<<<Var(t), 1>>>>)
  /\ Goto(t, "load")
  /\ UNCHANGED <<USE_CPU_FENCE, shared>>

ReadOther(t) ==
  /\ line[t] = "load"
  /\ barrier(t)
  /\ Store(t, <<<<Result(t), Load(t, Var(3 - t))>>, <<EndOf(t), 1>>>>)
  /\ Goto(t, "start")
  /\ UNCHANGED <<USE_CPU_FENCE, shared>>

MainStart ==
  /\ line[Main] = "reset"
  /\ Store(Main, <<<<Var(1), 0>>, <<Var(2), 0>>, <<StartOf(1), 1>>, <<StartOf(2), 1>>>>)
  /\ Goto(Main, "wait")
  /\ UNCHANGED <<USE_CPU_FENCE, shared>>

MainWait ==
  /\ line[Main] = "wait"
  /\ \A t \in Threads : Load(Main, EndOf(t)) = 1
  /\ Store(Main, <<<<EndOf(1), 0>>, <<EndOf(2), 0>>>>)
  /\ Goto(Main, "check")
  /\ UNCHANGED <<USE_CPU_FENCE, shared>>

Reordered == \A t \in Threads : Load(Main, Result(t)) = 0

\* What is counted is only printed.
MainCheck ==
  /\ line[Main] = "check"
  /\ Goto(Main, "reset")
  /\ UNCHANGED <<USE_CPU_FENCE, shared, buffer>>

Next ==
  \/ MainStart \/ MainWait \/ MainCheck \/ Flush(Main)
  \/ \E t \in Threads : ThreadStart(t) \/ SetOwn(t) \/ ReadOther(t) \/ Flush(t)

\* With the fence no iteration ends with both threads having read 0; and with or
\* without it the flags keep the iterations apart: while main() is not waiting both
\* threads are, and everything they stored has reached memory.
FenceStopsReordering ==
  line[Main] # "wait" =>
    /\ line[Main] = "check" /\ USE_CPU_FENCE => ~ Reordered
    /\ \A t \in Threads : line[t] = "start" /\ buffer[t] = <<>>
=============================================================================
