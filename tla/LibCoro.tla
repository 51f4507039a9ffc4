------------------------------ MODULE LibCoro ------------------------------
(***************************************************************************)
(* The coroutine library of lecture_examples/4_signals/12_libcoro.c, from  *)
(* which 1/libcoro.c is made, call by call: a new coroutine gets a stack   *)
(* of its own by way of a signal handler that runs on an alternate signal  *)
(* stack and jumps back out of the handler.  It implements Coro.           *)
(*                                                                         *)
(* One thread runs everything.  Other processes may send it SIGUSR2, the   *)
(* signal the constructor uses; the program has a handler for it.          *)
(***************************************************************************)
EXTENDS Integers, FiniteSets

CONSTANTS Coros, coro_sched, NULL

VARIABLES
  coro_list, next, prev,      \* the list
  allocated, is_finished, returned,
  coro_this_ptr, is_sched_waiting,
  ctx,           \* those with a saved context that has not been jumped to
  on,            \* whose stack the program is on
  pc,            \* "user", or where in the library it is
  blocked, pending, handler, altstack,   \* SIGUSR2
  start_point,   \* whose stack that context is on, and whether it blocks SIGUSR2
  local          \* the variables of coro_new

listVars == <<coro_list, next, prev>>
heapVars == <<allocated, returned>>
signalVars == <<blocked, pending, handler, altstack>>
newVars == <<start_point, local>>
vars == <<listVars, heapVars, is_finished, coro_this_ptr, is_sched_waiting, ctx, on, pc,
          signalVars, newVars>>

\* The program may block SIGUSR2 itself, and may have an alternate stack.
Init ==
  /\ coro_list = NULL
  /\ next = [c \in Coros |-> NULL]
  /\ prev = [c \in Coros |-> NULL]
  /\ allocated = {} /\ is_finished = {} /\ returned = {}
  /\ coro_this_ptr = coro_sched
  /\ is_sched_waiting = FALSE
  /\ ctx = {}
  /\ on = coro_sched
  /\ pc = "user"
  /\ blocked \in BOOLEAN
  /\ pending = FALSE
  /\ handler = "program"
  /\ altstack \in {"disabled", "program"}
  /\ start_point = NULL
  /\ local = NULL

-----------------------------------------------------------------------------
(***************************************************************************)
(* Creation                                                                *)
(***************************************************************************)

\* malloc of the structure and of its stack; then SIGUSR2 is blocked.
coro_new(c) ==
  /\ pc = "user"
  /\ c \notin allocated
  /\ allocated' = allocated \cup {c}
  /\ local' = [c |-> c, olds |-> blocked, oldsa |-> handler, oldst |-> altstack,
               old_this |-> coro_this_ptr]
  /\ blocked' = TRUE
  /\ pc' = "sigaction"
  /\ UNCHANGED <<listVars, returned, is_finished, coro_this_ptr, is_sched_waiting, ctx, on,
                 pending, handler, altstack, start_point>>

InstallHandler ==
  /\ pc = "sigaction"
  /\ handler' = "coro_body"
  /\ pc' = "sigaltstack"
  /\ UNCHANGED <<listVars, heapVars, is_finished, coro_this_ptr, is_sched_waiting, ctx, on,
                 blocked, pending, altstack, newVars>>

InstallStack ==
  /\ pc = "sigaltstack"
  /\ altstack' = local.c
  /\ pc' = "raise"
  /\ UNCHANGED <<listVars, heapVars, is_finished, coro_this_ptr, is_sched_waiting, ctx, on,
                 blocked, pending, handler, newVars>>

\* The signal waits, for it is blocked.
Raise ==
  /\ pc = "raise"
  /\ coro_this_ptr' = local.c
  /\ start_point' = [on |-> on, blocked |-> blocked]
  /\ pending' = TRUE
  /\ pc' = "sigsuspend"
  /\ UNCHANGED <<listVars, heapVars, is_finished, is_sched_waiting, ctx, on,
                 blocked, handler, altstack, local>>

\* What a handler does first: the kernel blocks its signal and switches stacks.
Enter ==
  /\ pending' = FALSE
  /\ IF handler = "coro_body"
     THEN on' = altstack /\ blocked' = TRUE /\ pc' = "body"
     ELSE UNCHANGED <<on, blocked, pc>>   \* the program's handler returns

\* The loop around sigsuspend, which lets every signal in.
Suspend ==
  /\ pc = "sigsuspend"
  /\ IF coro_this_ptr = NULL THEN pc' = "jumped" /\ UNCHANGED <<on, pending, blocked>>
     ELSE pending /\ Enter
  /\ UNCHANGED <<listVars, heapVars, is_finished, coro_this_ptr, is_sched_waiting, ctx,
                 handler, altstack, newVars>>

\* The beginning of coro_body: its context is remembered, and control goes back
\* to the constructor with the mask that start_point has.
coro_body ==
  /\ pc = "body"
  /\ coro_this_ptr' = NULL
  /\ ctx' = ctx \cup {coro_this_ptr}
  /\ on' = start_point.on
  /\ blocked' = start_point.blocked
  /\ pc' = "jumped"
  /\ UNCHANGED <<listVars, heapVars, is_finished, is_sched_waiting, pending, handler,
                 altstack, newVars>>

\* A mistake to be caught: the mask is restored before the handler.
UnblockEarly ==
  /\ pc = "jumped"
  /\ coro_this_ptr' = local.old_this
  /\ altstack' = local.oldst
  /\ blocked' = local.olds
  /\ pc' = "restore"
  /\ UNCHANGED <<listVars, heapVars, is_finished, is_sched_waiting, ctx, on,
                 pending, handler, newVars>>

\* Lines 232-239: the stack is disabled, and the program's installed again if it
\* had one.
RestoreStack ==
  /\ pc = "jumped"
  /\ coro_this_ptr' = local.old_this
  /\ altstack' = local.oldst
  /\ pc' = "restore"
  /\ UNCHANGED <<listVars, heapVars, is_finished, is_sched_waiting, ctx, on,
                 blocked, pending, handler, newVars>>

RestoreHandler ==
  /\ pc = "restore"
  /\ handler' = local.oldsa
  /\ pc' = "unblock"
  /\ UNCHANGED <<listVars, heapVars, is_finished, coro_this_ptr, is_sched_waiting, ctx, on,
                 blocked, pending, altstack, newVars>>

coro_list_add(c) ==
  /\ next' = [next EXCEPT ![c] = coro_list]
  /\ prev' = [d \in Coros |-> IF d = c THEN NULL ELSE IF d = coro_list THEN c ELSE prev[d]]
  /\ coro_list' = c

\* The mask is restored, and the coroutine given to the scheduler.
FinishNew ==
  /\ pc = "unblock"
  /\ blocked' = local.olds
  /\ coro_list_add(local.c)
  /\ local' = NULL
  /\ start_point' = NULL
  /\ pc' = "user"
  /\ UNCHANGED <<heapVars, is_finished, coro_this_ptr, is_sched_waiting, ctx, on,
                 pending, handler, altstack>>

-----------------------------------------------------------------------------
(***************************************************************************)
(* Switching                                                               *)
(***************************************************************************)

\* A mistake to be caught: the context left behind is not remembered.
JumpUnsaved(to) == on' = to /\ ctx' = ctx \ {to} /\ pc' = "landed"

Jump(to) == on' = to /\ ctx' = (ctx \cup {on}) \ {to} /\ pc' = "landed"

\* Behind each sigsetjmp the context that goes on says that it runs: line 101,
\* or line 166 where a coroutine begins.
Landed ==
  /\ pc = "landed"
  /\ coro_this_ptr' = on
  /\ pc' = IF on = coro_sched THEN "again" ELSE "user"
  /\ is_sched_waiting' = (is_sched_waiting /\ on # coro_sched)
  /\ UNCHANGED <<listVars, heapVars, is_finished, ctx, on, signalVars, newVars>>

\* A mistake to be caught: every yield goes back to the scheduler.
NextIsScheduler(c) == coro_sched

\* Lines 107-112
NextAfter(c) == IF next[c] = NULL THEN coro_sched ELSE next[c]

coro_yield ==
  /\ pc = "user"
  /\ on \in Coros
  /\ Jump(NextAfter(coro_this_ptr))
  /\ UNCHANGED <<listVars, heapVars, is_finished, coro_this_ptr, is_sched_waiting,
                 signalVars, newVars>>

\* siglongjmp(coro_sched.ctx), which remembers nothing.
Leave == on' = coro_sched /\ ctx' = ctx \ {coro_sched} /\ pc' = "landed"

\* The end of coro_body.
coro_finish ==
  /\ pc = "user"
  /\ on \in Coros
  /\ is_finished' = is_finished \cup {on}
  /\ is_sched_waiting   \* else the program exits: "no place to return"
  /\ Leave
  /\ UNCHANGED <<listVars, heapVars, coro_this_ptr, is_sched_waiting, signalVars, newVars>>

coro_list_delete(c) ==
  /\ next' = [d \in Coros |-> IF d = prev[c] THEN next[c] ELSE next[d]]
  /\ prev' = [d \in Coros |-> IF d = next[c] THEN prev[c] ELSE prev[d]]
  /\ coro_list' = IF prev[c] = NULL THEN next[c] ELSE coro_list

\* The k-th coroutine of the list.
At[k \in Nat] ==
  IF k = 0 THEN coro_list ELSE IF At[k - 1] = NULL THEN NULL ELSE next[At[k - 1]]

FirstFinished ==
  {c \in is_finished : \E k \in 0..Cardinality(Coros) :
     At[k] = c /\ \A j \in 0..(k - 1) : At[j] \notin is_finished}

\* coro_sched_wait, called or gone on with.
InWait == on = coro_sched /\ pc \in {"user", "again"}

ReturnNothing ==
  /\ InWait
  /\ coro_list = NULL
  /\ pc' = "user"
  /\ UNCHANGED <<listVars, heapVars, is_finished, coro_this_ptr, is_sched_waiting, ctx, on,
                 signalVars, newVars>>

ReturnFinished ==
  /\ InWait
  /\ \E c \in FirstFinished : coro_list_delete(c) /\ returned' = returned \cup {c}
  /\ pc' = "user"
  /\ UNCHANGED <<allocated, is_finished, coro_this_ptr, is_sched_waiting, ctx, on,
                 signalVars, newVars>>

YieldToFirst ==
  /\ InWait
  /\ coro_list # NULL
  /\ FirstFinished = {}
  /\ is_sched_waiting' = TRUE
  /\ Jump(coro_list)
  /\ UNCHANGED <<listVars, heapVars, is_finished, coro_this_ptr, signalVars, newVars>>

coro_sched_wait == ReturnNothing \/ ReturnFinished \/ YieldToFirst

\* The fields of a freed coroutine take fixed values: nobody reads them.
coro_delete(c) ==
  /\ pc = "user"
  /\ on = coro_sched
  /\ c \in returned
  /\ allocated' = allocated \ {c}
  /\ returned' = returned \ {c}
  /\ is_finished' = is_finished \ {c}
  /\ next' = [next EXCEPT ![c] = NULL]
  /\ prev' = [prev EXCEPT ![c] = NULL]
  /\ UNCHANGED <<coro_list, coro_this_ptr, is_sched_waiting, ctx, on, pc, signalVars, newVars>>

-----------------------------------------------------------------------------
(***************************************************************************)
(* Signals from outside                                                    *)
(***************************************************************************)

Kill ==
  /\ pending' = TRUE
  /\ UNCHANGED <<listVars, heapVars, is_finished, coro_this_ptr, is_sched_waiting, ctx, on, pc,
                 blocked, handler, altstack, newVars>>

\* A signal that is not blocked interrupts the program.
Deliver ==
  /\ pending
  /\ ~ blocked
  /\ Enter
  /\ UNCHANGED <<listVars, heapVars, is_finished, coro_this_ptr, is_sched_waiting, ctx,
                 handler, altstack, newVars>>

-----------------------------------------------------------------------------
(***************************************************************************)
(* Specification                                                           *)
(***************************************************************************)

Inside == InstallHandler \/ InstallStack \/ Raise \/ Suspend \/ coro_body
          \/ RestoreStack \/ RestoreHandler \/ FinishNew \/ Landed

Give(c) == on = c /\ (coro_yield \/ coro_finish)

Next ==
  \/ \E c \in Coros : coro_new(c) \/ Give(c) \/ coro_delete(c)
  \/ Inside
  \/ coro_sched_wait
  \/ Kill
  \/ Deliver

Spec == Init /\ [][Next]_vars

\* The library goes on by itself; coroutines are cooperative, and the program
\* waits for them.
Fairness ==
  /\ WF_vars(Inside)
  /\ \A c \in Coros : WF_vars(Give(c))
  /\ WF_vars(coro_sched_wait)

FairSpec == Spec /\ Fairness

-----------------------------------------------------------------------------
(***************************************************************************)
(* Properties                                                              *)
(***************************************************************************)

\* The program is inside of coro_new.
InNew == pc \notin {"user", "landed", "again"}

\* The coroutine under construction, which Coro does not know yet.
UnderWay == IF InNew THEN {local.c} ELSE {}

\* Whose code runs: the handler belongs to the constructor's caller.
Running == IF pc = "body" THEN start_point.on ELSE on

C == INSTANCE Coro WITH
       allocated <- allocated \ UnderWay,
       ctx <- ctx \ UnderWay,
       coro_this_ptr <- Running,
       is_sched_waiting <- Running \in Coros \/ pc \in {"landed", "again"}

\* "Roll back all global changes": whoever calls coro_new and whatever arrives
\* meanwhile, between the calls SIGUSR2 leads to the program's handler.
SignalsRestored ==
  ~ InNew => handler = "program" /\ altstack \in {"disabled", "program"}

\* coro_body is entered by the constructor's own signal and no other, on the new
\* stack, once.
BodyAsked ==
  pc = "body" => on = local.c /\ coro_this_ptr = on /\ on \notin ctx

\* Wherever the program's own code runs, coro_this() says whose code it is, and a
\* coroutine that finishes then has a place to return to.
ThisRuns ==
  pc = "user" => coro_this_ptr = on /\ (on \in Coros => is_sched_waiting)

\* Coro is what the library promises: creation is one step, a switch is one step,
\* and it goes to a coroutine that exists and has not finished, at a context saved
\* and not used since.
ImplementsCoro == C!Spec /\ C!SwitchSafe

\* What Coro promises of the list, of the contexts and of finished coroutines.
CoroInvariants == C!ListExact /\ C!OneRuns /\ C!FinishedCaught

\* Once no more coroutines are created, each unfinished one runs again and again.
EveryTurnComes == C!EveryTurnComes
=============================================================================
