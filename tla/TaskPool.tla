------------------------------ MODULE TaskPool ------------------------------
(***************************************************************************)
(* What 4/thread_pool.h promises of a pool and of its tasks, without       *)
(* threads, condition variables or the task array: the life cycle of each  *)
(* task object, the two limits, and when the pool may go away.             *)
(***************************************************************************)
EXTENDS Integers, FiniteSets

CONSTANTS Tasks, TPOOL_MAX_THREADS, TPOOL_MAX_TASKS

VARIABLES
  pool,       \* "none", "live", "ending", "freed"
  limit,      \* the number of threads the pool may use
  status,     \* of each task object: where it is in its life
  detached    \* the tasks that delete themselves when they finish

vars == <<pool, limit, status, detached>>

Status == {"freed", "idle", "queued", "running", "done"}

Having(s) == {t \in Tasks : status[t] \in s}

Init ==
  /\ pool = "none"
  /\ limit = 0
  /\ status = [t \in Tasks |-> "freed"]
  /\ detached = {}

Move(t, from, to) ==
  /\ status[t] = from
  /\ status' = [status EXCEPT ![t] = to]
  /\ UNCHANGED <<pool, limit>>

New(t) == Move(t, "freed", "idle") /\ UNCHANGED detached

Delete(t) == Move(t, "idle", "freed") /\ t \notin detached /\ UNCHANGED detached

Push(t) ==
  /\ pool = "live"
  /\ Cardinality(Having({"queued", "running", "done"})) < TPOOL_MAX_TASKS
  /\ Move(t, "idle", "queued")
  /\ UNCHANGED detached

Start(t) ==
  /\ pool = "live"
  /\ Cardinality(Having({"running"})) < limit
  /\ Move(t, "queued", "running")
  /\ UNCHANGED detached

Complete(t) ==
  \/ t \notin detached /\ Move(t, "running", "done") /\ UNCHANGED detached
  \/ t \in detached /\ Move(t, "running", "freed") /\ detached' = detached \ {t}

Join(t) ==
  /\ pool = "live"
  /\ t \notin detached
  /\ Move(t, "done", "idle")
  /\ UNCHANGED detached

Detach(t) ==
  /\ pool = "live"
  /\ t \notin detached
  /\ \/ Move(t, "done", "freed") /\ UNCHANGED detached
     \/ /\ status[t] \in {"queued", "running"}
        /\ detached' = detached \cup {t}
        /\ UNCHANGED <<pool, limit, status>>

Open(n) ==
  /\ pool = "none"
  /\ pool' = "live"
  /\ limit' = n
  /\ UNCHANGED <<status, detached>>

\* The pool ends only when nothing is waiting or running.
Close ==
  /\ pool = "live"
  /\ Having({"queued", "running"}) = {}
  /\ pool' = "ending"
  /\ UNCHANGED <<limit, status, detached>>

Free ==
  /\ pool = "ending"
  /\ pool' = "freed"
  /\ UNCHANGED <<limit, status, detached>>

Next ==
  \/ \E t \in Tasks :
       New(t) \/ Delete(t) \/ Push(t) \/ Start(t) \/ Complete(t) \/ Join(t) \/ Detach(t)
  \/ \E n \in 1..TPOOL_MAX_THREADS : Open(n)
  \/ Close
  \/ Free

Spec == Init /\ [][Next]_vars
=============================================================================
