-------------------------------- MODULE Coro --------------------------------
(***************************************************************************)
(* The coroutine library of 1/libcoro.c: a doubly linked list of           *)
(* coroutines, the scheduler, which is the program's own stack, and the    *)
(* jumps between saved contexts.                                           *)
(*                                                                         *)
(* One thread runs everything; coro_this_ptr says whose stack it is on.    *)
(* A step goes from where a context gets control to where it gives it up   *)
(* or calls the library again.  The bodies of the coroutines are left      *)
(* open: one may create coroutines, yield and finish whenever it runs.     *)
(*                                                                         *)
(* Callers keep to libcoro.h: coro_sched_wait and coro_delete are called   *)
(* on the scheduler's stack, and coro_delete for a coroutine that          *)
(* coro_sched_wait has returned.                                           *)
(***************************************************************************)
EXTENDS Integers, FiniteSets

CONSTANTS
  Coros,       \* addresses malloc may return for a struct coro
  coro_sched,  \* the scheduler's own struct coro
  NULL

VARIABLES
  coro_list,         \* the first coroutine of the list
  next, prev,        \* its links
  allocated,         \* the struct coros that exist
  is_finished,       \* the coroutines whose field of that name is true
  coro_this_ptr,     \* whose stack the program is on
  is_sched_waiting,
  ctx,               \* those whose saved context can be jumped to
  returned           \* the coroutines coro_sched_wait has returned and the caller
                     \* has not deleted

listVars == <<coro_list, next, prev>>
vars == <<listVars, allocated, is_finished, coro_this_ptr, is_sched_waiting, ctx, returned>>

-----------------------------------------------------------------------------
(***************************************************************************)
(* The list                                                                *)
(***************************************************************************)

\* coro_sched_init
Init ==
  /\ coro_list = NULL
  /\ next = [c \in Coros |-> NULL]
  /\ prev = [c \in Coros |-> NULL]
  /\ allocated = {}
  /\ is_finished = {}
  /\ coro_this_ptr = coro_sched
  /\ is_sched_waiting = FALSE
  /\ ctx = {}
  /\ returned = {}

coro_list_add(c) ==
  /\ next' = [next EXCEPT ![c] = coro_list]
  /\ prev' = [d \in Coros |-> IF d = c THEN NULL ELSE IF d = coro_list THEN c ELSE prev[d]]
  /\ coro_list' = c

coro_list_delete(c) ==
  /\ next' = [d \in Coros |-> IF d = prev[c] THEN next[c] ELSE next[d]]
  /\ prev' = [d \in Coros |-> IF d = next[c] THEN prev[c] ELSE prev[d]]
  /\ coro_list' = IF prev[c] = NULL THEN next[c] ELSE coro_list

\* The k-th coroutine met on the way through the list.
At[k \in Nat] ==
  IF k = 0 THEN coro_list ELSE IF At[k - 1] = NULL THEN NULL ELSE next[At[k - 1]]

\* Lines 134-135: the first coroutine of the list that has finished, if any.
FirstFinished ==
  {c \in is_finished : \E k \in 0..Cardinality(Coros) :
     At[k] = c /\ \A j \in 0..(k - 1) : At[j] \notin is_finished}

-----------------------------------------------------------------------------
(***************************************************************************)
(* Creating, switching, finishing                                          *)
(***************************************************************************)

\* The program is in its own code, not inside coro_sched_wait.
InUserCode == coro_this_ptr \in Coros \/ ~ is_sched_waiting

\* The new coroutine's context is saved on its own stack, at the beginning of
\* its function; the creator goes on.
coro_new(c) ==
  /\ InUserCode
  /\ c \notin allocated
  /\ allocated' = allocated \cup {c}
  /\ is_finished' = is_finished \ {c}
  /\ ctx' = ctx \cup {c}
  /\ coro_list_add(c)
  /\ UNCHANGED <<coro_this_ptr, is_sched_waiting, returned>>

\* A context that has been jumped to is running, not saved any more.
coro_yield_to(from, to) ==
  /\ ctx' = (ctx \cup {from}) \ {to}
  /\ coro_this_ptr' = to

\* Lines 115-120
NextAfter(from) == IF next[from] = NULL THEN coro_sched ELSE next[from]

coro_yield(c) ==
  /\ coro_this_ptr = c
  /\ coro_yield_to(c, NextAfter(c))
  /\ UNCHANGED <<listVars, allocated, is_finished, is_sched_waiting, returned>>

\* siglongjmp(coro_sched.ctx)
FinishToScheduler(c) ==
  /\ ctx' = ctx \ {coro_sched}
  /\ coro_this_ptr' = coro_sched

\* The end of coro_body.
coro_finish(c) ==
  /\ coro_this_ptr = c
  /\ is_finished' = is_finished \cup {c}
  /\ is_sched_waiting   \* else the program exits: "no place to return"
  /\ FinishToScheduler(c)
  /\ UNCHANGED <<listVars, allocated, is_sched_waiting, returned>>

\* One pass of the loop, when it is called or when control comes back to it:
\* return NULL, return a finished coroutine, or give control to the first one.
coro_sched_wait ==
  /\ coro_this_ptr = coro_sched
  /\ \/ /\ coro_list = NULL
        /\ is_sched_waiting' = FALSE
        /\ UNCHANGED <<listVars, coro_this_ptr, ctx, returned>>
     \/ \E c \in FirstFinished :
        /\ coro_list_delete(c)
        /\ returned' = returned \cup {c}
        /\ is_sched_waiting' = FALSE
        /\ UNCHANGED <<coro_this_ptr, ctx>>
     \/ /\ coro_list # NULL
        /\ FirstFinished = {}
        /\ is_sched_waiting' = TRUE
        /\ coro_yield_to(coro_sched, coro_list)
        /\ UNCHANGED <<listVars, returned>>
  /\ UNCHANGED <<allocated, is_finished>>

\* Nothing reads the fields of a freed coroutine; they take one fixed value.
coro_delete(c) ==
  /\ coro_this_ptr = coro_sched
  /\ ~ is_sched_waiting
  /\ c \in returned
  /\ allocated' = allocated \ {c}
  /\ returned' = returned \ {c}
  /\ is_finished' = is_finished \ {c}
  /\ next' = [next EXCEPT ![c] = NULL]
  /\ prev' = [prev EXCEPT ![c] = NULL]
  /\ UNCHANGED <<coro_list, coro_this_ptr, is_sched_waiting, ctx>>

-----------------------------------------------------------------------------
(***************************************************************************)
(* Specification                                                           *)
(***************************************************************************)

Next ==
  \/ \E c \in Coros : coro_new(c) \/ coro_yield(c) \/ coro_finish(c) \/ coro_delete(c)
  \/ coro_sched_wait

Spec == Init /\ [][Next]_vars

\* Coroutines are cooperative: one that runs yields or finishes in the end.
\* The program that created them waits for them.
Fairness ==
  /\ \A c \in Coros : WF_vars(coro_yield(c) \/ coro_finish(c))
  /\ WF_vars(coro_sched_wait)

FairSpec == Spec /\ Fairness

-----------------------------------------------------------------------------
(***************************************************************************)
(* Properties                                                              *)
(***************************************************************************)

\* The coroutines that belong to the scheduler.
Live == allocated \ returned

\* Adding at the head and deleting anywhere keep the list whole: the way
\* through next ends, meets every live coroutine and no other, and prev leads
\* back.
ListExact ==
  /\ {At[k] : k \in 0..Cardinality(Live)} = Live \cup {NULL}
  /\ coro_list # NULL => prev[coro_list] = NULL
  /\ \A c \in Live : next[c] # NULL => prev[next[c]] = c

\* Exactly one context runs and every other one that has not finished is
\* suspended where it can be resumed; while a coroutine runs the scheduler is
\* waiting, so a coroutine that finishes always has a place to return to.
OneRuns ==
  /\ ctx \cap Coros = Live \ (is_finished \cup {coro_this_ptr})
  /\ coro_this_ptr \in Coros =>
       coro_this_ptr \in Live /\ is_sched_waiting /\ coro_sched \in ctx

\* A finished coroutine is taken out of the list before any other runs, so
\* coro_yield never meets one.
FinishedCaught ==
  /\ coro_this_ptr \in Coros => Live \cap is_finished = {}
  /\ returned \subseteq is_finished

\* libcoro.h: a switch goes to another coroutine that has not finished, on a
\* stack that exists, at a context that was saved and not used since.
SwitchSafe ==
  [][coro_this_ptr' # coro_this_ptr =>
       /\ coro_this_ptr' \in ctx
       /\ coro_this_ptr' \in (allocated \ is_finished) \cup {coro_sched}]_vars

CreateStep == \E c \in Coros : coro_new(c)

\* Once no more coroutines are created, each one gets control again and again
\* until it finishes, wherever it is in the list and however often the
\* scheduler starts over at the head.
EveryTurnComes ==
  <>[][~ CreateStep]_vars =>
    \A c \in Coros : c \in Live \ is_finished ~> coro_this_ptr = c
=============================================================================
