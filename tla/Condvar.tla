------------------------------ MODULE Condvar ------------------------------
(***************************************************************************)
(* lecture_examples/6_threads/14_condvar.c: a condition variable made of   *)
(* one mutex, which the signalling thread holds except when it signals,    *)
(* and a flag.                                                             *)
(***************************************************************************)
EXTENDS Integers, FiniteSets

CONSTANTS
  Waiters, Signaller,
  MAX_SIGNALS        \* bound: how often the program signals

VARIABLES
  event_lock,        \* its holder, or {}
  is_event_set,
  wait_count,
  waiter,            \* where each thread is
  signaller,
  signals, processed \* how many signals were given, and events processed

vars == <<event_lock, is_event_set, wait_count, waiter, signaller, signals, processed>>

\* condvar_create: the lock stays taken.
Init ==
  /\ event_lock = {Signaller}
  /\ is_event_set = FALSE
  /\ wait_count = 0
  /\ waiter = [w \in Waiters |-> "work"]
  /\ signaller = "read"
  /\ signals = 0 /\ processed = 0

Lock(p) == event_lock = {} /\ event_lock' = {p}
Unlock == event_lock' = {}

\* A mistake to be caught: 13_simple_condvar.c, which does not wait for a waiter.
PassAtOnce == TRUE

\* Line 26
EventTaken == ~ is_event_set

\* Lines 16-24; without waiters the signal has no effect.
SignalSet ==
  /\ signaller = "read"
  /\ signals < MAX_SIGNALS
  /\ wait_count > 0
  /\ is_event_set' = TRUE
  /\ Unlock
  /\ signals' = signals + 1
  /\ signaller' = "spin"
  /\ UNCHANGED <<wait_count, waiter, processed>>

SignalSpin ==
  /\ signaller = "spin"
  /\ EventTaken
  /\ signaller' = "lock"
  /\ UNCHANGED <<event_lock, is_event_set, wait_count, waiter, signals, processed>>

SignalLock ==
  /\ signaller = "lock"
  /\ Lock(Signaller)
  /\ is_event_set' = FALSE
  /\ signaller' = "read"
  /\ UNCHANGED <<wait_count, waiter, signals, processed>>

WaitBegin(w) ==
  /\ waiter[w] = "work"
  /\ wait_count' = wait_count + 1
  /\ waiter' = [waiter EXCEPT ![w] = "lock"]
  /\ UNCHANGED <<event_lock, is_event_set, signaller, signals, processed>>

WaitLock(w) ==
  /\ waiter[w] = "lock"
  /\ Lock(w)
  /\ waiter' = [waiter EXCEPT ![w] = "locked"]
  /\ UNCHANGED <<is_event_set, wait_count, signaller, signals, processed>>

\* The flag is looked at; a waiter that does not find it set tries again.
WaitTest(w) ==
  /\ waiter[w] = "locked"
  /\ IF is_event_set
     THEN /\ is_event_set' = FALSE
          /\ wait_count' = wait_count - 1
          /\ processed' = processed + 1
          /\ waiter' = [waiter EXCEPT ![w] = "work"]
     ELSE /\ waiter' = [waiter EXCEPT ![w] = "lock"]
          /\ UNCHANGED <<is_event_set, wait_count, processed>>
  /\ Unlock
  /\ UNCHANGED <<signaller, signals>>

Next ==
  \/ SignalSet \/ SignalSpin \/ SignalLock
  \/ \E w \in Waiters : WaitBegin(w) \/ WaitLock(w) \/ WaitTest(w)

\* Each signal that found a waiter is taken by exactly one, however many look at
\* the flag, and the count that decides whether there is one is never too small.
SignalTakenOnce ==
  /\ signals = processed + (IF is_event_set THEN 1 ELSE 0)
  /\ wait_count = Cardinality({w \in Waiters : waiter[w] # "work"})
=============================================================================
