----------------------------- MODULE ThreadPool -----------------------------
(***************************************************************************)
(* The thread pool of 4/thread_pool.c: one pool, the worker threads it     *)
(* starts on demand, the task objects, and the client threads that call    *)
(* the API of 4/thread_pool.h.                                             *)
(*                                                                         *)
(* Every access to the pool is made under pool->lock, so one critical      *)
(* section is one atomic step; pthread_cond_wait ends a step (the lock is  *)
(* released) and a wake-up starts another one.  What the code does outside *)
(* the lock (running a task, joining the threads, the status queries'      *)
(* first look at parent_pool) is between steps.                            *)
(*                                                                         *)
(* Clients keep to the contract of thread_pool.h: a task is in the hands   *)
(* of one call at a time, is not used after thread_task_detach, and the    *)
(* pool is not used once thread_pool_delete has been called.               *)
(***************************************************************************)
EXTENDS Integers, FiniteSets

CONSTANTS
  Tasks,              \* the task objects (addresses thread_task_new may return)
  Clients,            \* threads that call the API
  NULL,               \* the null task pointer
  TPOOL_MAX_THREADS,
  TPOOL_MAX_TASKS,
  SharedQueries       \* may a status query overlap another client's join?

ASSUME ThreadPoolAssumption ==
  /\ NULL \notin Tasks
  /\ TPOOL_MAX_THREADS \in Nat \ {0}
  /\ TPOOL_MAX_TASKS \in Nat \ {0}
  /\ SharedQueries \in BOOLEAN

NONE == -1

\* pool->threads: worker i is the i-th pthread the pool has created.
Threads == 1..TPOOL_MAX_THREADS

\* Indexes of pool->tasks.
Slots == 0..(TPOOL_MAX_TASKS - 1)

VARIABLES
  pool,                    \* "none", "live", "ending" (being deleted), "freed"
  max_thread_count,
  thread_count,
  tasks,                   \* the array of task pointers, with stale ones past its end
  unassigned_tasks_count,
  running_tasks_count,
  pushed_tasks_count,
  thread_update_cond,      \* the workers asleep on this condition variable
  thread_update_event,
  allocated,               \* the tasks that are live heap objects
  in_pool,                 \* the tasks whose parent_pool is not NULL
  finished,                \* the tasks whose field of that name is true
  assigned,                \* "
  scheduled_for_deletion,  \* "
  index_in_parent_pool,
  result,
  stamp,                   \* history: parity of the number of pushes of a task
  thread_pc,               \* where each worker is in execute_thread
  task_to_execute,
  client_pc,               \* the blocking call each client is in
  client_task,             \* and its task argument
  has_just_finished_cond   \* the clients asleep on the condition of their client_task

arrayVars  == <<tasks, index_in_parent_pool>>
countVars  == <<unassigned_tasks_count, running_tasks_count, pushed_tasks_count>>
threadVars == <<max_thread_count, thread_count, thread_update_cond,
                thread_update_event, thread_pc, task_to_execute>>
flagVars   == <<allocated, in_pool, finished, assigned, scheduled_for_deletion>>
valueVars  == <<result, stamp>>
clientVars == <<client_pc, client_task, has_just_finished_cond>>

vars == <<pool, arrayVars, countVars, threadVars, flagVars, valueVars, clientVars>>

-----------------------------------------------------------------------------
(***************************************************************************)
(* Initial state and helpers                                               *)
(***************************************************************************)

Init ==
  /\ pool = "none"
  /\ max_thread_count = 0
  /\ thread_count = 0
  /\ tasks = [i \in Slots |-> NULL]
  /\ unassigned_tasks_count = 0
  /\ running_tasks_count = 0
  /\ pushed_tasks_count = 0
  /\ thread_update_cond = {}
  /\ thread_update_event = "NONE"
  /\ allocated = {}
  /\ in_pool = {}
  /\ finished = {}
  /\ assigned = {}
  /\ scheduled_for_deletion = {}
  /\ index_in_parent_pool = [t \in Tasks |-> NONE]
  /\ result = [t \in Tasks |-> NONE]
  /\ stamp = [t \in Tasks |-> 0]
  /\ thread_pc = [w \in Threads |-> "none"]
  /\ task_to_execute = [w \in Threads |-> NULL]
  /\ client_pc = [c \in Clients |-> "idle"]
  /\ client_task = [c \in Clients |-> NULL]
  /\ has_just_finished_cond = {}

\* swap_tasks_in_pool: the array and the back indexes after the swap.
SwapSlots(slots, index, t1, t2) ==
  [slots EXCEPT ![index[t1]] = t2, ![index[t2]] = t1]

\* A mistake to be caught: only one of the two back indexes is updated.
SwapIndexesHalf(index, t1, t2) ==
  [index EXCEPT ![t2] = index[t1]]

SwapIndexes(index, t1, t2) ==
  [index EXCEPT ![t2] = index[t1], ![t1] = index[t2]]

\* A mistake to be caught: the pushed task is announced to nobody.
SignalNobody == UNCHANGED thread_update_cond

\* pthread_cond_signal(&pool->thread_update_cond)
SignalThreadUpdate ==
  \/ /\ thread_update_cond = {}
     /\ UNCHANGED thread_update_cond
  \/ \E w \in thread_update_cond : thread_update_cond' = thread_update_cond \ {w}

\* No call of another client has task t as its argument right now.
NotInUse(t) == \A c \in Clients : client_pc[c] # "idle" => client_task[c] # t

\* As NotInUse, but status queries of t may be under way.
NotJoined(t) ==
  \A c \in Clients : client_pc[c] \in {"join", "timed_join"} => client_task[c] # t

\* Client c may pass task t to the API: t exists and was not detached.
Holds(c, t) ==
  /\ client_pc[c] = "idle"
  /\ t \in allocated \ scheduled_for_deletion

-----------------------------------------------------------------------------
(***************************************************************************)
(* The life of a task and of the pool                                      *)
(***************************************************************************)

thread_task_new(c, t) ==
  /\ client_pc[c] = "idle"
  /\ t \notin allocated
  /\ allocated' = allocated \cup {t}
  /\ finished' = finished \ {t}
  /\ assigned' = assigned \ {t}
  /\ scheduled_for_deletion' = scheduled_for_deletion \ {t}
  /\ in_pool' = in_pool \ {t}
  /\ index_in_parent_pool' = [index_in_parent_pool EXCEPT ![t] = NONE]
  /\ result' = [result EXCEPT ![t] = NONE]
  /\ stamp' = [stamp EXCEPT ![t] = 0]
  /\ UNCHANGED <<pool, tasks, countVars, threadVars, clientVars>>

\* free(task): nothing reads the fields of a freed object, so they take one
\* fixed value each.
FreeTask(t) ==
  /\ allocated' = allocated \ {t}
  /\ finished' = finished \ {t}
  /\ scheduled_for_deletion' = scheduled_for_deletion \ {t}
  /\ result' = [result EXCEPT ![t] = NONE]
  /\ stamp' = [stamp EXCEPT ![t] = 0]

\* A mistake to be caught: a task is freed wherever it is.
DeleteUnchecked(c, t) ==
  /\ Holds(c, t)
  /\ NotInUse(t)
  /\ FreeTask(t)
  /\ UNCHANGED <<pool, arrayVars, countVars, threadVars, in_pool, assigned, clientVars>>

\* A task that is still in a pool is refused with TPOOL_ERR_TASK_IN_POOL.
thread_task_delete(c, t) ==
  /\ Holds(c, t)
  /\ NotInUse(t)
  /\ \/ /\ t \in in_pool
        /\ UNCHANGED vars
     \/ /\ t \notin in_pool
        /\ FreeTask(t)
        /\ UNCHANGED <<pool, arrayVars, countVars, threadVars, in_pool, assigned,
                       clientVars>>

thread_pool_new(c, count) ==
  /\ client_pc[c] = "idle"
  /\ pool = "none"
  /\ \/ /\ count <= 0 \/ count > TPOOL_MAX_THREADS
        /\ UNCHANGED vars
     \/ /\ count > 0 /\ count <= TPOOL_MAX_THREADS
        /\ pool' = "live"
        /\ max_thread_count' = count
        /\ UNCHANGED <<arrayVars, countVars, thread_count, thread_update_cond,
                       thread_update_event, thread_pc, task_to_execute,
                       flagVars, valueVars, clientVars>>

\* A mistake to be caught: tasks that no thread has taken yet are overlooked.
HasRunningTasks == running_tasks_count > 0

HasTasks == unassigned_tasks_count > 0 \/ running_tasks_count > 0

\* Lines 134-143: refuse, or announce the end to the workers.
thread_pool_delete(c) ==
  /\ pool = "live"
  /\ \A d \in Clients : client_pc[d] = "idle"
  /\ \/ /\ HasTasks
        /\ UNCHANGED vars
     \/ /\ ~ HasTasks
        /\ pool' = "ending"
        /\ thread_update_event' = "TASKS_ENDED"
        /\ thread_update_cond' = {}
        /\ client_pc' = [client_pc EXCEPT ![c] = "delete"]
        /\ UNCHANGED <<arrayVars, countVars, max_thread_count, thread_count,
                       thread_pc, task_to_execute, flagVars, valueVars,
                       client_task, has_just_finished_cond>>

\* Lines 145-156: every thread has been joined, the pool is freed.
FreePool(c) ==
  /\ client_pc[c] = "delete"
  /\ \A w \in 1..thread_count : thread_pc[w] = "exit"
  /\ pool' = "freed"
  /\ client_pc' = [client_pc EXCEPT ![c] = "idle"]
  /\ UNCHANGED <<arrayVars, countVars, threadVars, flagVars, valueVars,
                 client_task, has_just_finished_cond>>

-----------------------------------------------------------------------------
(***************************************************************************)
(* Pushing                                                                 *)
(***************************************************************************)

\* A mistake to be caught: one thread too many.
NeedThreadOffByOne ==
  running_tasks_count = thread_count /\ thread_count <= max_thread_count

NeedThread ==
  running_tasks_count = thread_count /\ thread_count < max_thread_count

\* Lines 174-183: start a thread if all are busy, else wake one if the queue
\* was empty.
ProvideThread ==
  \/ /\ NeedThread
     /\ thread_count' = thread_count + 1
     /\ thread_pc' = [thread_pc EXCEPT ![thread_count + 1] = "lock"]
     /\ UNCHANGED <<thread_update_cond, thread_update_event>>
  \/ /\ ~ NeedThread
     /\ unassigned_tasks_count + 1 = 1
     /\ thread_update_event' = "TASK_APPEARS"
     /\ SignalThreadUpdate
     /\ UNCHANGED <<thread_count, thread_pc>>
  \/ /\ ~ NeedThread
     /\ unassigned_tasks_count + 1 # 1
     /\ UNCHANGED <<thread_count, thread_pc, thread_update_cond, thread_update_event>>

\* The new task goes to the end of the array, then changes places with the
\* first assigned one, so that the unassigned tasks stay a prefix.
PlaceTask(t) ==
  LET slots == [tasks EXCEPT ![pushed_tasks_count] = t]
      index == [index_in_parent_pool EXCEPT ![t] = pushed_tasks_count]
      first == slots[unassigned_tasks_count]
  IN  /\ tasks' = SwapSlots(slots, index, first, t)
      /\ index_in_parent_pool' = SwapIndexes(index, first, t)

\* A mistake to be caught: a task joined before is pushed as finished.
ResetTaskKeepsFinished(t) ==
  /\ UNCHANGED finished
  /\ assigned' = assigned \ {t}
  /\ in_pool' = in_pool \cup {t}

ResetTask(t) ==
  /\ finished' = finished \ {t}
  /\ assigned' = assigned \ {t}
  /\ in_pool' = in_pool \cup {t}

thread_pool_push_task(c, t) ==
  /\ pool = "live"
  /\ Holds(c, t)
  /\ NotInUse(t)
  /\ t \notin in_pool
  /\ \/ /\ pushed_tasks_count >= TPOOL_MAX_TASKS
        /\ UNCHANGED vars
     \/ /\ pushed_tasks_count < TPOOL_MAX_TASKS
        /\ ResetTask(t)
        /\ stamp' = [stamp EXCEPT ![t] = 1 - stamp[t]]
        /\ PlaceTask(t)
        /\ pushed_tasks_count' = pushed_tasks_count + 1
        /\ unassigned_tasks_count' = unassigned_tasks_count + 1
        /\ ProvideThread
        /\ UNCHANGED <<pool, running_tasks_count, max_thread_count, task_to_execute,
                       allocated, scheduled_for_deletion, result, clientVars>>

-----------------------------------------------------------------------------
(***************************************************************************)
(* Joining and detaching                                                   *)
(***************************************************************************)

\* Lines 249-254: a finished task changes places with the last one and
\* leaves the array.
RemoveFromPool(t) ==
  LET last == tasks[pushed_tasks_count - 1]
  IN  /\ tasks' = SwapSlots(tasks, index_in_parent_pool, t, last)
      /\ index_in_parent_pool' =
           [SwapIndexes(index_in_parent_pool, t, last) EXCEPT ![t] = NONE]
      /\ pushed_tasks_count' = pushed_tasks_count - 1
      /\ in_pool' = in_pool \ {t}
      /\ assigned' = assigned \ {t}

\* One pass of the loop of thread_task_join_no_lock (or of the timed join):
\* sleep while the task is not finished, else take it out of the pool.
JoinLoop(c, t, call) ==
  \/ /\ t \notin finished
     /\ client_pc' = [client_pc EXCEPT ![c] = call]
     /\ client_task' = [client_task EXCEPT ![c] = t]
     /\ has_just_finished_cond' = has_just_finished_cond \cup {c}
     /\ UNCHANGED <<arrayVars, pushed_tasks_count, in_pool, assigned>>
  \/ /\ t \in finished
     /\ RemoveFromPool(t)
     /\ client_pc' = [client_pc EXCEPT ![c] = "idle"]
     /\ client_task' = [client_task EXCEPT ![c] = NULL]
     /\ UNCHANGED has_just_finished_cond

joinFrame == <<pool, unassigned_tasks_count, running_tasks_count, threadVars,
               allocated, finished, scheduled_for_deletion, valueVars>>

\* call is "join" for thread_task_join, "timed_join" for thread_task_timed_join;
\* a task that is in no pool is refused with TPOOL_ERR_TASK_NOT_PUSHED.
thread_task_join(c, t, call) ==
  /\ Holds(c, t)
  /\ IF SharedQueries THEN NotJoined(t) ELSE NotInUse(t)
  /\ \/ /\ t \notin in_pool
        /\ UNCHANGED vars
     \/ /\ t \in in_pool
        /\ pool = "live"
        /\ JoinLoop(c, t, call)
        /\ UNCHANGED joinFrame

\* The joiner was woken up and has the lock again.
JoinResume(c) ==
  /\ client_pc[c] \in {"join", "timed_join"}
  /\ c \notin has_just_finished_cond
  /\ JoinLoop(c, client_task[c], client_pc[c])
  /\ UNCHANGED joinFrame

\* pthread_cond_timedwait returns ETIMEDOUT: TPOOL_ERR_TIMEOUT, whatever the
\* task's state is by then.
JoinTimeout(c) ==
  /\ client_pc[c] = "timed_join"
  /\ client_pc' = [client_pc EXCEPT ![c] = "idle"]
  /\ client_task' = [client_task EXCEPT ![c] = NULL]
  /\ has_just_finished_cond' = has_just_finished_cond \ {c}
  /\ UNCHANGED <<joinFrame, arrayVars, pushed_tasks_count, in_pool, assigned>>

thread_task_detach(c, t) ==
  /\ Holds(c, t)
  /\ NotInUse(t)
  /\ \/ /\ t \notin in_pool
        /\ UNCHANGED vars
     \/ /\ t \in in_pool \cap finished
        /\ pool = "live"
        /\ RemoveFromPool(t)
        /\ FreeTask(t)
        /\ UNCHANGED <<pool, unassigned_tasks_count, running_tasks_count, threadVars,
                       clientVars>>
     \/ /\ t \in in_pool \ finished
        /\ pool = "live"
        /\ scheduled_for_deletion' = scheduled_for_deletion \cup {t}
        /\ UNCHANGED <<pool, arrayVars, countVars, threadVars, allocated, in_pool,
                       finished, assigned, valueVars, clientVars>>

-----------------------------------------------------------------------------
(***************************************************************************)
(* Status queries: thread_task_is_finished and thread_task_is_running.     *)
(* parent_pool is looked at without the lock, then dereferenced to take    *)
(* it and again to release it.                                             *)
(***************************************************************************)

QueryStart(c, t) ==
  /\ Holds(c, t)
  /\ pool = "live"
  /\ SharedQueries \/ NotInUse(t)
  /\ \/ /\ t \notin in_pool
        /\ UNCHANGED vars
     \/ /\ t \in in_pool
        /\ client_pc' = [client_pc EXCEPT ![c] = "query"]
        /\ client_task' = [client_task EXCEPT ![c] = t]
        /\ UNCHANGED <<pool, arrayVars, countVars, threadVars, flagVars, valueVars,
                       has_just_finished_cond>>

QuerySection(c) ==
  /\ client_pc[c] = "query"
  /\ client_task[c] \in in_pool   \* else the program has crashed at line 211 or 222
  /\ client_pc' = [client_pc EXCEPT ![c] = "idle"]
  /\ client_task' = [client_task EXCEPT ![c] = NULL]
  /\ UNCHANGED <<pool, arrayVars, countVars, threadVars, flagVars, valueVars,
                 has_just_finished_cond>>

-----------------------------------------------------------------------------
(***************************************************************************)
(* execute_thread                                                          *)
(***************************************************************************)

\* A mistake to be caught: the task that was taken is not marked.
MarkNothing(t) == UNCHANGED assigned

MarkAssigned(t) == assigned' = assigned \cup {t}

\* Lines 65-83: sleep while nothing is unassigned, else take the first task
\* and move it behind the unassigned prefix.
FetchTask(w) ==
  \/ /\ unassigned_tasks_count = 0
     /\ thread_pc' = [thread_pc EXCEPT ![w] = "wait"]
     /\ thread_update_cond' = thread_update_cond \cup {w}
     /\ UNCHANGED <<arrayVars, countVars, assigned, task_to_execute>>
  \/ /\ unassigned_tasks_count # 0
     /\ LET task == tasks[0]
            last == tasks[unassigned_tasks_count - 1]
        IN  /\ tasks' = SwapSlots(tasks, index_in_parent_pool, task, last)
            /\ index_in_parent_pool' = SwapIndexes(index_in_parent_pool, task, last)
            /\ MarkAssigned(task)
            /\ task_to_execute' = [task_to_execute EXCEPT ![w] = task]
     /\ unassigned_tasks_count' = unassigned_tasks_count - 1
     /\ running_tasks_count' = running_tasks_count + 1
     /\ thread_pc' = [thread_pc EXCEPT ![w] = "run"]
     /\ UNCHANGED <<pushed_tasks_count, thread_update_cond>>

fetchFrame == <<pool, max_thread_count, thread_count, thread_update_event, allocated,
                in_pool, finished, scheduled_for_deletion, valueVars, clientVars>>

\* A new iteration: the lock is taken, the event is not looked at.
ThreadLock(w) ==
  /\ thread_pc[w] = "lock"
  /\ FetchTask(w)
  /\ UNCHANGED fetchFrame

\* Back from pthread_cond_wait: leave if the pool is ending, else look again.
ThreadWake(w) ==
  /\ thread_pc[w] = "wait"
  /\ w \notin thread_update_cond
  /\ \/ /\ thread_update_event = "TASKS_ENDED"
        /\ thread_pc' = [thread_pc EXCEPT ![w] = "exit"]
        /\ UNCHANGED <<arrayVars, countVars, assigned, task_to_execute,
                       thread_update_cond>>
     \/ /\ thread_update_event # "TASKS_ENDED"
        /\ FetchTask(w)
  /\ UNCHANGED fetchFrame

\* A mistake to be caught: the joiners of a finished task sleep on.
BroadcastNothing(t) == UNCHANGED has_just_finished_cond

\* pthread_cond_broadcast(&task_to_execute->has_just_finished_cond)
BroadcastFinished(t) ==
  has_just_finished_cond' = {c \in has_just_finished_cond : client_task[c] # t}

\* A mistake to be caught: the task that ended is still counted.
KeepRunningCount == UNCHANGED running_tasks_count

DropRunningCount == running_tasks_count' = running_tasks_count - 1

\* Lines 87-98: the function has returned; publish the result, wake the
\* joiners, and reclaim the task if it was detached.
ThreadFinish(w) ==
  LET task == task_to_execute[w]
  IN  /\ thread_pc[w] = "run"
      /\ DropRunningCount
      /\ BroadcastFinished(task)
      /\ \/ /\ task \notin scheduled_for_deletion
            /\ result' = [result EXCEPT ![task] = stamp[task]]
            /\ finished' = finished \cup {task}
            /\ UNCHANGED <<arrayVars, pushed_tasks_count, in_pool, assigned, allocated,
                           scheduled_for_deletion, stamp>>
         \/ /\ task \in scheduled_for_deletion
            /\ RemoveFromPool(task)
            /\ FreeTask(task)
      /\ thread_pc' = [thread_pc EXCEPT ![w] = "lock"]
      /\ task_to_execute' = [task_to_execute EXCEPT ![w] = NULL]
      /\ UNCHANGED <<pool, unassigned_tasks_count, max_thread_count, thread_count,
                     thread_update_cond, thread_update_event, client_pc, client_task>>

\* pthread_cond_wait may return without a signal.
SpuriousThreadWake(w) ==
  /\ w \in thread_update_cond
  /\ thread_update_cond' = thread_update_cond \ {w}
  /\ UNCHANGED <<pool, arrayVars, countVars, max_thread_count, thread_count,
                 thread_update_event, thread_pc, task_to_execute, flagVars,
                 valueVars, clientVars>>

SpuriousJoinWake(c) ==
  /\ c \in has_just_finished_cond
  /\ has_just_finished_cond' = has_just_finished_cond \ {c}
  /\ UNCHANGED <<pool, arrayVars, countVars, threadVars, flagVars, valueVars,
                 client_pc, client_task>>

-----------------------------------------------------------------------------
(***************************************************************************)
(* Specification                                                           *)
(***************************************************************************)

ClientStep(c) ==
  \/ \E t \in Tasks :
       \/ thread_task_new(c, t)
       \/ thread_task_delete(c, t)
       \/ thread_pool_push_task(c, t)
       \/ \E call \in {"join", "timed_join"} : thread_task_join(c, t, call)
       \/ thread_task_detach(c, t)
       \/ QueryStart(c, t)
  \/ \E count \in 0..(TPOOL_MAX_THREADS + 1) : thread_pool_new(c, count)
  \/ thread_pool_delete(c)
  \/ FreePool(c)
  \/ JoinResume(c)
  \/ JoinTimeout(c)
  \/ QuerySection(c)
  \/ SpuriousJoinWake(c)

ThreadStep(w) ==
  \/ ThreadLock(w)
  \/ ThreadWake(w)
  \/ ThreadFinish(w)
  \/ SpuriousThreadWake(w)

Next ==
  \/ \E c \in Clients : ClientStep(c)
  \/ \E w \in Threads : ThreadStep(w)

Spec == Init /\ [][Next]_vars

\* Threads that can go on do: a worker gets the lock, a task function
\* returns, a woken joiner gets the lock, a deleter whose threads have all
\* ended frees the pool.  Nothing obliges a client to make a call, a wait to
\* time out, or a wake-up to be spurious.
Fairness ==
  /\ \A w \in Threads : WF_vars(ThreadLock(w) \/ ThreadWake(w) \/ ThreadFinish(w))
  /\ \A c \in Clients : WF_vars(JoinResume(c) \/ FreePool(c))

FairSpec == Spec /\ Fairness

-----------------------------------------------------------------------------
(***************************************************************************)
(* Invariants                                                              *)
(***************************************************************************)

\* The variables have the types of the fields they model.
TypeOK ==
  /\ pool \in {"none", "live", "ending", "freed"}
  /\ max_thread_count \in 0..TPOOL_MAX_THREADS
  /\ thread_count \in 0..max_thread_count
  /\ tasks \in [Slots -> Tasks \cup {NULL}]
  /\ unassigned_tasks_count \in 0..TPOOL_MAX_TASKS
  /\ running_tasks_count \in 0..thread_count
  /\ pushed_tasks_count \in 0..TPOOL_MAX_TASKS
  /\ thread_update_cond \in SUBSET Threads
  /\ thread_update_event \in {"NONE", "TASK_APPEARS", "TASKS_ENDED"}
  /\ allocated \in SUBSET Tasks
  /\ in_pool \in SUBSET Tasks
  /\ finished \in SUBSET Tasks
  /\ assigned \in SUBSET Tasks
  /\ scheduled_for_deletion \in SUBSET Tasks
  /\ index_in_parent_pool \in [Tasks -> Slots \cup {NONE}]
  /\ result \in [Tasks -> {0, 1, NONE}]
  /\ stamp \in [Tasks -> {0, 1}]
  /\ thread_pc \in [Threads -> {"none", "lock", "wait", "run", "exit"}]
  /\ task_to_execute \in [Threads -> Tasks \cup {NULL}]
  /\ client_pc \in [Clients -> {"idle", "join", "timed_join", "query", "delete"}]
  /\ client_task \in [Clients -> Tasks \cup {NULL}]
  /\ has_just_finished_cond \in SUBSET Clients

\* The swaps of push, fetch and join keep the array and the back indexes
\* inverse to each other, and the unassigned tasks exactly its prefix.
PoolPartition ==
  /\ unassigned_tasks_count <= pushed_tasks_count
  /\ \A i \in 0..(pushed_tasks_count - 1) :
       /\ tasks[i] \in in_pool
       /\ index_in_parent_pool[tasks[i]] = i
       /\ tasks[i] \in assigned <=> i >= unassigned_tasks_count
  /\ \A t \in in_pool :
       /\ index_in_parent_pool[t] \in 0..(pushed_tasks_count - 1)
       /\ tasks[index_in_parent_pool[t]] = t

\* A task is executed by at most one worker, and while it is it stays in the
\* pool, assigned and unfinished; no other task is in that state.
ExclusiveExecution ==
  /\ \A w \in Threads :
       thread_pc[w] = "run" =>
         task_to_execute[w] \in (in_pool \cap assigned) \ finished
  /\ \A v, w \in Threads :
       thread_pc[v] = "run" /\ thread_pc[w] = "run" /\ v # w =>
         task_to_execute[v] # task_to_execute[w]
  /\ \A t \in (in_pool \cap assigned) \ finished :
       \E w \in Threads : thread_pc[w] = "run" /\ task_to_execute[w] = t

\* running_tasks_count, on which thread_pool_delete and the starting of
\* threads rely, counts the workers that are executing a task.
RunningCountExact ==
  running_tasks_count = Cardinality({w \in Threads : thread_pc[w] = "run"})

\* push signals only when the queue was empty and starts a thread only when
\* all are busy; still, while a task is unassigned some worker is awake and
\* will look at the queue.
NoLostWakeup ==
  unassigned_tasks_count > 0 =>
    \E w \in 1..thread_count :
      thread_pc[w] \in {"lock", "wait", "run"} /\ w \notin thread_update_cond

\* Nobody sleeps in a join of a task that has finished, or that has left
\* the pool.
NoForgottenJoiner ==
  \A c \in has_just_finished_cond : client_task[c] \in in_pool \ finished

\* What a join can return is the result of the last push of the task, never
\* of an earlier round of a re-pushed task.
FreshResult ==
  \A t \in in_pool \cap finished : result[t] = stamp[t]

\* No task is freed while the pool's array, a worker or a blocked client
\* still holds a pointer to it.
NoDanglingTask ==
  /\ in_pool \subseteq allocated
  /\ \A w \in Threads : thread_pc[w] = "run" => task_to_execute[w] \in allocated
  /\ \A c \in Clients :
       client_pc[c] \in {"join", "timed_join", "query"} => client_task[c] \in allocated

\* A detached task is a pending one of a live pool until the moment it is
\* freed: none outlives its execution or the pool.
DetachedReclaimed ==
  \A t \in scheduled_for_deletion :
    pool = "live" /\ t \in (allocated \cap in_pool) \ finished

\* Whoever comes last to a task frees it, and nobody before.
TaskLifetimes == NoDanglingTask /\ DetachedReclaimed

-----------------------------------------------------------------------------
(***************************************************************************)
(* Refinement: the flags, counters and arrays implement the life cycle of  *)
(* module TaskPool.                                                        *)
(***************************************************************************)

TaskStatus(t) ==
  CASE t \notin allocated -> "freed"
    [] t \in allocated \ in_pool -> "idle"
    [] t \in (allocated \cap in_pool) \ assigned -> "queued"
    [] t \in (allocated \cap in_pool \cap assigned) \ finished -> "running"
    [] OTHER -> "done"

Promise == INSTANCE TaskPool WITH
  limit <- max_thread_count,
  status <- [t \in Tasks |-> TaskStatus(t)],
  detached <- scheduled_for_deletion

\* Every step of the pool is a step the documentation allows, or changes
\* nothing a client can see.
ImplementsTaskPool == Promise!Spec

-----------------------------------------------------------------------------
(***************************************************************************)
(* Liveness                                                                *)
(***************************************************************************)

PushStep == \E c \in Clients, t \in Tasks : thread_pool_push_task(c, t)

\* Once no more tasks are pushed, every task waiting for a thread is
\* executed, and every join that has begun comes back.
QueueDrains ==
  <>[][~ PushStep]_vars =>
    /\ \A t \in Tasks : t \in in_pool \ assigned ~> t \notin in_pool \ finished
    /\ \A c \in Clients : client_pc[c] = "join" ~> client_pc[c] = "idle"

-----------------------------------------------------------------------------
(***************************************************************************)
(* What the documentation promises and the code does not keep              *)
(***************************************************************************)

\* thread_pool.h and test.c: thread_pool_delete of an idle pool frees it.
DeleteReturns == pool = "ending" ~> pool = "freed"

\* thread_pool.c: the pool's mutex protects every field, so a status query
\* that has seen a parent pool can still dereference it.
QueryHasPool ==
  \A c \in Clients : client_pc[c] = "query" => client_task[c] \in in_pool
=============================================================================
