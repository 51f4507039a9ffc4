------------------------------- MODULE Futex -------------------------------
(***************************************************************************)
(* lecture_examples/6_threads/8_futex.c: threads that count under a lock   *)
(* made of one word of memory, on which the kernel lets threads sleep.     *)
(***************************************************************************)
EXTENDS Integers, FiniteSets

CONSTANTS
  Counters,
  ROUNDS       \* how often each thread counts

VARIABLES
  futex, sleeping,     \* the word, and the threads the kernel has asleep on it
  counter,
  at, rounds, read     \* of each thread: where it is, rounds left, the value read

vars == <<futex, sleeping, counter, at, rounds, read>>

Init ==
  /\ futex = 0 /\ sleeping = {}
  /\ counter = 0
  /\ at = [t \in Counters |-> "cas"]
  /\ rounds = [t \in Counters |-> ROUNDS]
  /\ read = [t \in Counters |-> 0]

Move(t, to) == at' = [at EXCEPT ![t] = to]

\* Line 27: compare and swap, or to sleep.
futex_lock(t) ==
  /\ at[t] = "cas" /\ rounds[t] > 0
  /\ IF futex = 0 THEN futex' = 1 /\ Move(t, "read") ELSE UNCHANGED futex /\ Move(t, "wait")
  /\ UNCHANGED <<sleeping, counter, rounds, read>>

\* The kernel lets the thread sleep only if the word still has the value.
futex_wait(t) ==
  /\ at[t] = "wait"
  /\ sleeping' = IF futex = 1 THEN sleeping \cup {t} ELSE sleeping
  /\ Move(t, "sleep")
  /\ UNCHANGED <<futex, counter, rounds, read>>

\* A mistake to be caught: the lock is not tried again after the sleep.
AwakeInside(t) ==
  /\ at[t] = "sleep"
  /\ t \notin sleeping
  /\ Move(t, "read")
  /\ UNCHANGED <<futex, sleeping, counter, rounds, read>>

Awake(t) ==
  /\ at[t] = "sleep"
  /\ t \notin sleeping
  /\ Move(t, "cas")
  /\ UNCHANGED <<futex, sleeping, counter, rounds, read>>

\* counter = counter + 1, which is a read and a write.
ReadCounter(t) ==
  /\ at[t] = "read"
  /\ read' = [read EXCEPT ![t] = counter]
  /\ Move(t, "write")
  /\ UNCHANGED <<futex, sleeping, counter, rounds>>

WriteCounter(t) ==
  /\ at[t] = "write"
  /\ counter' = read[t] + 1
  /\ Move(t, "unlock")
  /\ UNCHANGED <<futex, sleeping, rounds, read>>

futex_unlock(t) ==
  /\ at[t] = "unlock"
  /\ futex' = 0
  /\ Move(t, "wake")
  /\ UNCHANGED <<sleeping, counter, rounds, read>>

\* A mistake to be caught: no sleeper is woken.
WakeNobody == UNCHANGED sleeping

\* At most one sleeper.
futex_wake ==
  \/ sleeping = {} /\ UNCHANGED sleeping
  \/ \E s \in sleeping : sleeping' = sleeping \ {s}

Wake(t) ==
  /\ at[t] = "wake"
  /\ futex_wake
  /\ rounds' = [rounds EXCEPT ![t] = @ - 1]
  /\ Move(t, "cas")
  /\ UNCHANGED <<futex, counter, read>>

Step(t) == futex_lock(t) \/ futex_wait(t) \/ Awake(t) \/ ReadCounter(t) \/ WriteCounter(t)
           \/ futex_unlock(t) \/ Wake(t)

Next == \E t \in Counters : Step(t)

Done == \A t \in Counters : rounds[t] = 0

\* No increment is lost: one thread at a time is between its lock and its unlock,
\* and at the end the counter has every round.
CountExact ==
  /\ Cardinality({t \in Counters : at[t] \in {"read", "write", "unlock"}}) = futex
  /\ Done => counter = ROUNDS * Cardinality(Counters)
=============================================================================
