----------------------------- MODULE MCLectures -----------------------------
(***************************************************************************)
(* The concurrent programs of lecture_examples, each a module of its own   *)
(* with its own variables; a behaviour runs the one that program names.    *)
(***************************************************************************)
EXTENDS Integers, Sequences, FiniteSets

CONSTANTS
  Coros, coro_sched, NULL,
  CThreads, Waiters, Signaller, MAX_SIGNALS, Counters, ROUNDS,
  KINDS, nfiles, SIZES, SIZE_BYTES, MEM_SIZE,
  APIS, Clients, Server, NUMBERS,
  FENCES,
  Consumers, MAX_EVENTS, MAX_MESSAGES

\* There are finitely many threads and processes, and the signalling thread and the
\* listening socket are none of those they serve.
ASSUME ProgramsAssumption ==
  /\ IsFiniteSet(Counters) /\ ROUNDS \in Nat
  /\ IsFiniteSet(Waiters) /\ Signaller \notin Waiters
  /\ IsFiniteSet(Consumers)
  /\ nfiles \in Nat \ {0} /\ SIZES \subseteq Nat
  /\ SIZE_BYTES \in Nat \ {0} /\ MEM_SIZE \in Nat
  /\ Server \notin Clients
  /\ IsFiniteSet(Coros) /\ coro_sched \notin Coros /\ NULL \notin Coros \cup {coro_sched}

VARIABLES
  program,
  coro_list, next, prev, allocated, finished, returned, coro_this_ptr, is_sched_waiting, ctx,
  on, pc, blocked, pending, handler, altstack, start_point, local,
  creator, runner, lock, seen, is_finished, is_detached, tid, stack_list, destroyed, freed,
  event_lock, is_event_set, wait_count, waiter, signaller, signals, processed,
  futex, sleeping, counter, at, rounds, read,
  kind, file, message, src, mem, is_readable, is_writable, handing, reader, w, dst, size, array,
  api, conn, request, answer, sent, client, fds, ready, nfds, i, serving,
  USE_CPU_FENCE, shared, buffer, line,
  semaphores, sem, undo, queue, queued, queueid, source, lines, connected, consumer

Lib == INSTANCE LibCoro WITH is_finished <- finished
Thread == INSTANCE CThread
Cond == INSTANCE Condvar
Lock == INSTANCE Futex
Sort == INSTANCE SortChannel
Echo == INSTANCE EchoServer
Order == INSTANCE Reordering
Event == INSTANCE SemEvents

coroVars == <<coro_list, next, prev, allocated, finished, returned, coro_this_ptr,
              is_sched_waiting, ctx, on, pc, blocked, pending, handler, altstack, start_point,
              local>>
threadVars == <<creator, runner, lock, seen, is_finished, is_detached, tid, stack_list,
                destroyed, freed>>
condVars == <<event_lock, is_event_set, wait_count, waiter, signaller, signals, processed>>
lockVars == <<futex, sleeping, counter, at, rounds, read>>
sortVars == <<kind, file, message, src, mem, is_readable, is_writable, handing, reader, w, dst,
              size, array>>
echoVars == <<api, conn, request, answer, sent, client, fds, ready, nfds, i, serving>>
orderVars == <<USE_CPU_FENCE, shared, buffer, line>>
eventVars == <<semaphores, sem, undo, queue, queued, queueid, source, lines, connected,
               consumer>>
shortVars == <<threadVars, condVars, lockVars, orderVars, eventVars>>
vars == <<program, coroVars, sortVars, echoVars, shortVars>>

Init ==
  /\ program \in {"coro", "cthread", "condvar", "futex", "sort", "echo", "order", "event"}
  /\ Lib!Init /\ (program # "coro" => ~ blocked /\ altstack = "disabled")
  /\ Thread!Init /\ Cond!Init /\ Lock!Init
  /\ Sort!Init /\ (program # "sort" => file = [k \in Sort!Workers |-> 0])
  /\ Echo!Init
  /\ Order!Init /\ (program # "order" => ~ USE_CPU_FENCE)
  /\ Event!Init
  /\ program # "sort" => kind = "mem"
  /\ program # "echo" => api = "select"

InCoro(step) == /\ program = "coro" /\ step
                /\ UNCHANGED <<program, sortVars, echoVars, shortVars>>
InSort(step) == /\ program = "sort" /\ step
                /\ UNCHANGED <<program, coroVars, echoVars, shortVars>>
InEcho(step) == /\ program = "echo" /\ step
                /\ UNCHANGED <<program, coroVars, sortVars, shortVars>>
InLock(step) == /\ program = "futex" /\ step
                /\ UNCHANGED <<program, coroVars, sortVars, echoVars, threadVars, condVars,
                               orderVars, eventVars>>
NextThread == /\ program = "cthread" /\ Thread!Next
              /\ UNCHANGED <<program, coroVars, sortVars, echoVars, condVars, lockVars,
                             orderVars, eventVars>>
NextCond == /\ program = "condvar" /\ Cond!Next
            /\ UNCHANGED <<program, coroVars, sortVars, echoVars, threadVars, lockVars,
                           orderVars, eventVars>>
NextOrder == /\ program = "order" /\ Order!Next
             /\ UNCHANGED <<program, coroVars, sortVars, echoVars, threadVars, condVars,
                            lockVars, eventVars>>
NextEvent == /\ program = "event" /\ Event!Next
             /\ UNCHANGED <<program, coroVars, sortVars, echoVars, threadVars, condVars,
                            lockVars, orderVars>>

Next ==
  \/ InCoro(Lib!Next) \/ InSort(Sort!Next) \/ InEcho(Echo!Next) \/ InLock(Lock!Next)
  \/ NextThread \/ NextCond \/ NextOrder \/ NextEvent

\* Every process and thread that is not blocked is scheduled; coroutines are
\* cooperative, and the program waits for them.
Fairness ==
  /\ WF_vars(InCoro(Lib!Inside))
  /\ \A c1 \in Coros : WF_vars(InCoro(Lib!Give(c1)))
  /\ WF_vars(InCoro(Lib!coro_sched_wait))
  /\ \A t \in Counters : WF_vars(InLock(Lock!Step(t)))
  /\ WF_vars(InSort(Sort!MainStep))
  /\ \A i1 \in Sort!Workers : WF_vars(InSort(Sort!WorkerStep(i1)))
  /\ WF_vars(InEcho(Echo!ServerStep))

Spec == Init /\ [][Next]_vars /\ Fairness

-----------------------------------------------------------------------------

\* 12_libcoro.c: between the calls of coro_new SIGUSR2 leads to the program's own
\* handler, and only the constructor's signal enters coro_body; coro_this() names the
\* coroutine whose code runs, and the list, the contexts and the finished coroutines
\* are as Coro promises.
CoroInvariants ==
  Lib!SignalsRestored /\ Lib!BodyAsked /\ Lib!ThisRuns /\ Lib!CoroInvariants

\* 12_libcoro.c, calls of the system included, implements Coro.
ImplementsCoro == Lib!ImplementsCoro

\* 12_libcoro.c: each unfinished coroutine runs again and again.
EveryTurnComes == Lib!EveryTurnComes

\* 12_cthread_detach.c: stacks are freed once, by the right one, and not in use.
StacksSafe == Thread!StacksSafe

\* 14_condvar.c: a signal that finds a waiter is taken by exactly one.
SignalTakenOnce == Cond!SignalTakenOnce

\* 8_futex.c: no increment is lost.
CountExact == Lock!CountExact

\* 2_parallel_sort.c, 3_mem_sort.c: each array arrives whole and from its worker.
ArraysDelivered == Sort!ArraysDelivered

\* 9_aio: the server never blocks on one client, and answers the right number.
ServerAnswers == Echo!NeverBlocks /\ Echo!AnswersMatch

\* 8_5_cpu_reordering.c: with the fence the two reads cannot both miss the stores.
FenceStopsReordering == Order!FenceStopsReordering

\* 9_sem_event: one consumer is in at a time, and until the queue is removed its
\* messages are there.
EventsReadable == Event!EventsReadable

Ended == CASE program = "futex" -> Lock!Done
          [] program = "sort" -> Sort!Done
          [] OTHER -> TRUE

\* No wake-up, flag or readable socket is missed: the counters and the sorters end
\* and every number is answered.
ProgramsProgress == <>Ended /\ Echo!Answered
=============================================================================
