# Verification of the systems programming homework

The repository holds the solutions of a systems programming course, in C. Four of
them are finished programs, each in a directory of its own; there is a tool that they
share, and a collection of lecture programs, some of which are small concurrent systems
in their own right. This directory holds TLA+ models of them, the TLC configurations
that check the models on small instances, and proofs checked by TLAPS.

## 1. The system and its parts

| part | source | state | operations | what is hard |
|---|---|---|---|---|
| thread pool | `4/thread_pool.c` | one mutex, the task array (unassigned prefix, then assigned tasks), three counters, two kinds of condition variable, the flags of each task | new, push, join, timed join, detach, delete of tasks and pools, status queries; the worker loop | clients and workers interleave at every lock; lost wake-ups; who frees a detached task; re-pushed tasks; a timeout racing the end of the task |
| file system | `3/userfs.c` | file list, block lists, descriptor table, reference counts, error code | open, read, write, close, delete, resize, destroy | several descriptors on one file; deletion while open; block boundaries; limits |
| coroutine library | `1/libcoro.c`, `lecture_examples/4_signals/12_libcoro.c` | doubly linked coroutine list, saved contexts, whose stack is running; signal mask, handler and alternate stack | new, yield, finish, wait, delete | jumping to a stale context or to a finished coroutine; a list changed in the middle of a round; starvation; a signal in the middle of a construction |
| file sorter | `1/solution.c` | queue of files, arrays half sorted, results | take a file, sort it with yields, store it; merge | a yield at any iteration; the recursion's edge cases; merging before all is sorted |
| shell | `2/main.c`, `2/parser.c`, `2/tokenizer.c`, `2/utils.c` | characters, tokens, commands, children, descriptor tables, pipes | read, tokenize, parse, fork and connect, wait | inherited pipe ends, full pipes, order of waiting, skipped commands, exit status |
| allocation tracker | `utils/heap_help` | list and pool of allocation objects, batches, two spin locks, lazy initialisation | malloc, calloc, strdup, realloc, getline, free, getaddrinfo, freeaddrinfo, exit report | calls inside calls; realloc against another thread's malloc; exit while others allocate |
| threads and locks | `lecture_examples/6_threads` | a futex word, lock and flag of a condition variable, stacks of threads made with `clone`, store buffers | lock, unlock, signal, wait, create, join, detach | lost wake-ups and increments; freeing a stack that is in use; reordering |
| interprocess communication | `lecture_examples/7_ipc` | pipes, shared memory with two flags, semaphores with undo, a message queue | sort and send, read and merge; count and take events | hand-over without a lock; sizes that are not those of the channel; initialisation race of the semaphores |
| servers | `lecture_examples/9_aio` | an array of sockets or a list in the kernel, the result of the last wait | wait, accept, interact, remove | the array changes while the result of a wait is used |
| chat | `5/` | none | the functions that would hold the protocol are stubs | nothing to model |
| tests, other examples | | none | | |

The parts interact only pairwise: the file sorter runs on the coroutine library
(`FileSorter` instantiates `Coro`); the lecture version of the library implements the
same specification call by call (`LibCoro` refines `Coro`); the tests drive the others
through their headers; the tracker wraps the allocation functions of any of them, its own
included, through the C library.

### What makes each part correct

* Thread pool: the array and the back indexes agree, a task is executed by at most
  one worker and its result is that of the last push, nobody sleeps while there is
  work or an answer, nothing is used after it was freed, and what a client sees is
  the life cycle that `thread_pool.h` describes.
* File system: a descriptor is always inside its file, reference counts are exact,
  deleted files live as long as descriptors lead to them and no longer, and reads
  and writes are those of a sequence of bytes.
* Coroutines: the list holds the live coroutines, control goes only to a suspended
  unfinished one, each gets its turn; making one leaves no trace in the signal state.
* File sorter: each file is sorted exactly once, whatever the yields; the merged
  output is the sorted union; the program ends.
* Shell: the commands run for a line are those its operators ask for, with the words
  as they were written; each program reads from its neighbour and from nobody else; the
  shell keeps no pipe end and no zombie of a command; everything ends.
* Tracker: each live block is in the list once, nothing else is, and no legal program
  is aborted.
* Lecture programs: mutual exclusion without lost increments or wake-ups, one taker for
  each signal, stacks freed once and not in use, data delivered whole and in order, no
  server blocked on one client.

## 2. Modules

| module | models | how |
|---|---|---|
| `TaskPool` | the promise of `thread_pool.h` | life cycle of a task: freed, idle, queued, running, done; the two limits; when a pool may end |
| `ThreadPool` | `thread_pool.c` | one step per critical section; `pthread_cond_wait` ends a step. Fields of a task are sets (the tasks whose flag is true) or functions of the task; condition variables are the sets of their sleepers; `thread_pc` and `client_pc` say where each thread is |
| `ThreadPoolProofs` | | inductive invariants and theorems of the pool; `ThreadPool` implements `TaskPool` |
| `FileSystem` | the promise of `userfs.h` | files are sequences of bytes, descriptors are positions |
| `UserFS` | `userfs.c` | one step per call, one step per byte inside `ufs_read` and `ufs_write`; a block list is a sequence of arrays, the file list a set (names in it are unique, `UniqueNames`) |
| `UserFSProofs` | | invariants and theorems of the file system; `UserFS` implements `FileSystem` |
| `Coro` | `libcoro.c` | the links `next` and `prev` as functions, the set `ctx` of contexts that can be resumed; the bodies of coroutines are arbitrary |
| `CoroProofs` | | invariant and theorems of the coroutine library |
| `FileSorter` | `solution.c` on top of `Coro` | one step per loop iteration; recursion as the sequence of pending calls |
| `FileSorterProofs` | | invariant and theorems of the file sorter |
| `ShellText` | `utils.c`, `tokenizer.c`, `parser.c` | records for the reader and the tokenizer, each fed one character at a time; a token goes into a command |
| `Shell` | `main.c` on top of `ShellText` | one step per system call or group of local statements, for the shell, the subshell of an `&` and every child; descriptor tables by number, pipes as counters of bytes, children as forked, running, zombie or reaped |
| `ShellProofs` | | inductive invariant and theorems of the shell |
| `HeapHelp` | `heap_help.c` | a stack of the tracker's functions for each thread; one step per section of `allocs_lock` or per call of the C library |
| `HeapHelpProofs` | | invariant and theorems of the tracker |
| `LibCoro` | `12_libcoro.c` | one step per call of the system in `coro_new` and in the handler; signals from other processes at any moment |
| `CThread`, `Condvar`, `Futex`, `Reordering` | `12_cthread_detach.c`, `14_condvar.c`, `8_futex.c`, `8_5_cpu_reordering.c` | one step per access to what is shared; in `Reordering` stores enter a buffer first and reach memory later |
| `SortChannel` | `2_parallel_sort.c`, `3_mem_sort.c` | one step per copied chunk and per flag |
| `SemEvents` | `9_sem_event_source.c`, `9_sem_event_cons.c` | one step per call on the semaphores or the queue, the two removals included; each source and consumer has the queue that the key named when it looked; what the kernel undoes at an exit is kept per source |
| `EchoServer` | the four servers of `9_aio` and `4_client.c` | one step per turn of the server's loop; the kernel's answer is what is readable at the time of the wait |
| `MC...` | | instances: symmetry, inputs, bounded contents. `MCLectures` holds the lecture modules side by side, each with its own variables, and a constant variable `program` that says which one a behaviour runs |
| `LectureProofs`, `ChannelProofs` | | invariants and theorems of the lecture programs |

Definitions keep the names of the functions and fields they model; `PROJECT.json`
maps each to its lines. In each module a definition introduced by "A mistake to be
caught" is not part of the model: it is a plausible error in the definition that
follows, and putting it in that definition's place must make TLC find a violation
of the property paired with it under `mutants`. Some of these mistakes are earlier stages
of the same lecture: a condition variable that does not wait for its waiter is
`13_simple_condvar.c`, a detach without a lock is `11_cthread_bad_detach.c`.

### Abstractions

* Thread pool. Every access is under `pool->lock`, so critical sections are atomic.
  A task's function returns after an arbitrary time; its result is the parity of
  the number of pushes, which is enough to tell a stale result from a fresh one.
  Timed joins may time out at any moment; the deadline arithmetic is not modelled.
  Both condition variables may wake spuriously. Callers keep to `thread_pool.h`: a
  task is the argument of one call at a time and is not touched after a detach,
  and the pool is not used after its deletion has begun; a task is not pushed while
  it is in the pool. `SharedQueries` lifts the first of these for status queries.
* File system. `BLOCK_SIZE`, `MAX_FILE_SIZE` and `INT_MAX` are parameters. The
  memory of a new block is `GARBAGE`. Signed overflow wraps, as the build does it.
  `Grow` says whether callers may resize a file beyond its last block: the code
  has no support for it (see `UserFS_grow`), so the passing runs show what holds for
  callers who do not.
* Coroutines. In `Coro` the calls of `coro_new` are one step whose only effect is a saved
  context; `LibCoro` has them one by one and is shown to implement `Coro`.
  `switch_count` is only reported and left out.
* File sorter. Whether a time quantum is over is nondeterministic, so all timings,
  a zero quantum included, are covered. Counters and times that are only printed
  are left out. The files exist and hold numbers; at least one coroutine is asked for.
* Shell. A program copies its input if it is one that does, writes some bytes and exits
  with its code; bytes are not told apart. `fork`, `pipe` and `fopen` succeed, and the
  contents of the file behind `>` are left out. In the scripts a short word stands for a
  name of any length; the texts that test words are spelled out character by character.
* Tracker. A legal program: a block is freed once and by the function that goes
  with it. The C library may call the intercepted functions from inside of `strdup`,
  `getline` and `getaddrinfo`, from the symbol lookup and from `backtrace`; which of its
  blocks have an internal trace is nondeterministic. Sizes and the text of the report are
  left out. The first thread allocates before a second one exists, since making
  a thread allocates. Nobody calls `strdup` once the program exits, and its assertion about
  that (`509`) is left out for the calls another thread is inside of at that moment, so
  `NoAbort` does not speak of them.
* Lecture programs. Errors of system calls at start-up end the programs and are left out.
  The compiler keeps the order of the statements in `Reordering`; the order of
  the processor's stores is the model's subject. In `SemEvents` each source runs once, consumers start when the semaphores and the queue have been made
  and are not killed, and the model ends when source 1 has removed the semaphores: all that
  is left for the others then is calls on them that fail.

## 3. Runs

Passing runs:

| run | instance | shows |
|---|---|---|
| `ThreadPool_safety` | 3 tasks, 2 clients, 2 workers, 2 slots | the safety invariants of the pool, with more tasks than slots; `ThreadPool` implements `TaskPool` |
| `ThreadPool_drain` | 2 tasks, 2 clients, 2 workers, 2 slots | once pushing stops, the queue empties and joins return |
| `UserFS_data` | blocks of 2 bytes, files of up to 3, 2 descriptors, 2 file objects | positions, limits and contents at every block boundary; `UserFS` implements `FileSystem` |
| `UserFS_files` | 2 names, 3 file objects, 3 descriptors, two kinds of flags | reference counts, table, names, reclamation |
| `FileSorter_sort` | 2 coroutines, 2 files of up to 3 numbers from 1..3 | the whole program of part 1 |
| `Shell_lines` | every line of three programs with two of `\|`, `&&`, `\|\|`; lines with `&`, `>`, `>>`, `exit`, `cd`; a redirection behind a command that may be skipped; lines bash would refuse; words of up to two of six characters in three spellings; pipes of 1 byte, 4 children, descriptors 0..8 | which commands run, with which words and descriptors, and that every script ends |
| `HeapHelp_track` | 2 threads, 2 addresses, batches of 2, all eight functions on one thread against `malloc`, `realloc` and `free` on the other | one entry per live block, no assertion fails, no object lost, the leaks counted |
| `Lecture_programs` | 3 coroutines; 3 cloned threads; 3 waiters and 3 signals; 3 counting threads, 2 rounds; 2 sorters, arrays of 0, 2 and 4 bytes through channels of 3; 3 clients of each server; 2 processors with and without the fence; 3 sources, 2 events each, 2 consumers, a queue of 4 | each lecture program's invariants, `LibCoro` implements `Coro`, no starvation and no lost wake-up |

Three tasks are the fewest for which the swaps of push, fetch and join meet a first,
a middle and a last entry of the tasks there are, and with two slots the array is full
as well; what depends on longer arrays is proved (section 4). Two workers and two
clients are the fewest for a race between equals. A file of three bytes in blocks of
two has a full block, a partly filled one and both boundaries; two descriptors are one
that truncates and one that is truncated. Three numbers are the fewest for which a
partition leaves two parts one of which is partitioned again, with repetitions and every
order. Three coroutines are a head, an inner entry and an end of the list, beside the
scheduler. In the shell a program that writes two bytes fills a pipe of one and blocks;
three programs have a neighbour on both sides, and two operators are the fewest where a
skip has something behind it. In the tracker an address is used again at once when
there are two, and a batch of two is used up. A message of two bytes for the size and an
array of four pass a channel of three in pieces that do not divide it.

`INT_MAX` is 15 and no size of the passing runs of `UserFS` comes near to it. The deadlock
check is off wherever the system may stop: clients may stop calling, a freed pool and a
destroyed file system allow no call, the sorter, the scripts and the tracked program
end, and of the lecture programs some end and some wait for ever for clients. That
nobody waits for ever is what `QueueDrains`, `EveryTurnComes`, `Terminates`, `ScriptEnds` and
`ProgramsProgress` say instead.

Runs that find a disagreement between the code and what is said about it:

| run | shows |
|---|---|
| `ThreadPool_delete` | a worker that is between two tasks when `thread_pool_delete` broadcasts goes to sleep afterwards; the deletion never returns |
| `ThreadPool_query` | a status query races a join of the same task to a null `parent_pool` |
| `UserFS_grow` | growing a file beyond its last block creates no blocks |
| `Shell_status` | the child before `&&` or `\|\|` is waited for twice; the second time fails, and a line whose last command was skipped has status 0 |

Read off the code and not given a run:

* Thread pool: two quick pushes start one thread, since a thread that has not taken its
  task does not count as running (`thread_pool.c:174`); the second task waits although
  `task_eng.txt:54` has threads started "gradually when needed".
* `thread_pool_delete` succeeds while finished tasks are still in the pool, and leaves
  their `parent_pool` dangling; `thread_pool.h` says "pool still has tasks", the test
  "delete does not work until there are not finished tasks".
* Tasks are not served first come first served, and one may be overtaken for ever:
  the place of the task taken is filled by the last unassigned one.
* File system: a write of nearly `INT_MAX` bytes from a position above 0 passes the limit
  check by overflow (`userfs.c:284`). The first descriptor is 0, where `userfs.h` says
  "> 0". A file of exactly `MAX_FILE_SIZE` bytes, which `ufs_write` allows, cannot be
  resized to its own size. After a resize beyond the last block, `ufs_read` can
  return a negative count.
* Shell: what is skipped after `||` or `&&` is a command, so that `true || echo x > f`
  skips `echo` and then, `>` being taken for `&&`, runs `f` (`main.c:164-184`). `a > f &`
  redirects nothing, because the
  redirection is looked for at the very end of the line (`65-78`). A background subshell
  closes its stdin, the pipes it makes get descriptor 0, and closing them by number
  leaves a program of its pipeline without input (`120`, `193-200`; `StdinConnected` is
  about the programs of the shell itself). A quoted word that starts with `&`, `|` or `>`
  is taken for an operator (`parser.c:32`). Comments are not cut off (`task_eng.txt:21`). The
  subshell of an `&` is never waited for (`117-125`) and stays a zombie until the shell ends. The file of a redirection is not checked
  (`main.c:225`).
* Tracker: `realloc` gives its old block back before the tracker forgets it. If the
  library's `calloc` of another thread gets that address, the list has it twice, and the
  newest entry is removed: a block of the library may then be reported as a leak of
  the program and the other way round (`heap_help.c:550`, `214`). A `realloc` that fails
  forgets a block that the program still has (`552`). `strdup` during the exit, also
  one that another thread began before, fails an assertion (`509`).
* Lecture programs: `main` of `12_cthread_detach.c` never looks at thread 0 again
  after `i = 0`, which the loop increments (`141-146`). The loop of `5_server_poll.c` begins
  with the listening socket, where `recv` fails and ends the round, and reads bits that
  `realloc` left uninitialised (`86-99`). `select` and `poll` servers never close the socket
  of a client that has gone. Any reset client ends the epoll and kqueue servers. In
  `9_sem_event_source.c` `SETALL` and the undo at an exit lose events whose messages stay
  in the queue; one source that fills the queue keeps the others from sending, and the
  consumer, which waits for all three, from emptying it; a consumer that is killed
  gives back the counts of every event it has taken. Source 1 removes the queue and then
  the semaphores (`104`, `105`). In between, a consumer can still be let in: its `msgrcv`
  fails, the result is not checked, and it unpacks and prints a message that was never
  received (`9_sem_event_cons.c:30-35`). Another source counts a message although its
  `msgsnd` has failed (`74`), and one that starts then makes a new queue, which nobody removes.

### Fairness

* `ThreadPool`: weak fairness of each worker and of each joiner whose wait is over: the
  mutex is granted in the end and task functions return. Clients owe no call, a
  timeout or a spurious wake-up never has to happen.
* `Coro`, `LibCoro`: a coroutine that runs yields or finishes in the end (they are
  cooperative), and the program that started them waits for them. Signals from outside
  never have to come.
* `FileSorter`: the single thread of the program goes on as long as it can.
* `Shell`: the shell, the subshell and each child are scheduled when they can run; a
  `read` or `write` that can go on does.
* Other lecture programs: each thread, sorter and the server are scheduled. A thread that
  tries to lock the futex is not guaranteed to get it before the others; since each
  counts a bounded number of times, all end. Clients owe nothing. `CThread`, `Condvar`,
  `Reordering` and `SemEvents` are checked for safety only: their loops spin, and what ends
  the spinning is up to a program or a person outside.

## 4. Proofs

The theorems hold for every value of the constants that satisfies the named assumptions of
the modules. Each comes from an inductive invariant that TLC checked on the instance of
the run before it was proved, and is proved action by action.

| module | theorem | states | for any number of |
|---|---|---|---|
| `ThreadPoolProofs` | `Invariance` | the inductive invariant `IInv` | tasks, clients; threads and tasks of a pool |
| | `TypeCorrect` | `TypeOK`: no index leaves its array and no counter its range | |
| | `PartitionKept` | `PoolPartition` | |
| | `ExecutionExclusive`, `RunningCounted` | `ExclusiveExecution`, `RunningCountExact` | |
| | `WakeupNotLost` | `NoLostWakeup` | |
| | `JoinerNotForgotten` | `NoForgottenJoiner` | |
| | `TaskInvariance` | `IInv` and `TInv` | |
| | `ResultFresh` | `FreshResult` | |
| | `LifetimesKept` | `TaskLifetimes` | |
| | `PoolImplementsTaskPool` | `ImplementsTaskPool`, the refinement of `TaskPool` | |
| `UserFSProofs` | `FileInvariance` | the inductive invariant `FInv` | names, file objects, descriptors, bytes of a block |
| | `TableHolds` | `TableInBounds` | |
| | `FilesHeld` | `FilesHeldExactly` | |
| | `NamesUnique` | `UniqueNames` | |
| | `LimitsKept` | `WithinLimits`, when `SizesFit` | also bytes of a file |
| | `FileSystemImplemented` | `ImplementsFileSystem`, the refinement of `FileSystem`, when `SizesFit` | |
| `HeapHelpProofs` | `TrackerInvariance` | the inductive invariant `HInv` | threads, addresses, objects of a batch |
| | `NeverAborts` | `NoAbort` | |
| | `BlocksTracked` | `TrackedOnce` | |
| | `ObjectsKept` | `ObjectsAccounted` | |
| | `LeaksReported` | `LeaksCounted` | |
| `ShellProofs` | `ShellInvariance` | the inductive invariant `IInv` | scripts, programs, bytes of a pipe, children, descriptors |
| | `ShellStops` | `Stops`: a redirection ends the loop of `main` when its command was run | |
| | `ShellTypes` | `TypeOK` | |
| | `ShellRuns` | `RunsAsWritten` | also commands of a line |
| | `ShellStdin` | `StdinConnected` | |
| | `ShellNothingLeft` | `NothingLeft` | |
| `FileSorterProofs` | `FilesSortedOnce` | `SortedOnce` | coroutines, files, numbers |
| | `YieldsKeepSort` | `SortCorrect` | |
| | `FilesMerged` | `OutputMerged` | |
| | `SorterKeepsLibrary` | `ListExact`, `OneRuns` and `FinishedCaught` of `Coro` | |
| `LectureProofs` | `NoIncrementLost` | `CountExact` of `Futex` | threads and rounds |
| | `SignalTaken` | `SignalTakenOnce` of `Condvar` | waiters and signals |
| | `MessagesThere` | `EventsReadable` of `SemEvents` | consumers, events, places in the queue |
| | `StacksFreedOnce` | `StacksSafe` of `CThread` | threads |
| | `FenceWorks` | `FenceStopsReordering` of `Reordering` | values of the fence |
| | `CoroutinesKept` | `CoroInvariants` of `LibCoro` | coroutines |
| | `LibCoroImplementsCoro` | `ImplementsCoro`, the refinement of `Coro` | |
| `CoroProofs` | `LibraryInvariants` | `ListExact`, `OneRuns` and `FinishedCaught` of `Coro` | coroutines |
| | `LibrarySwitches` | `SwitchSafe` of `Coro` | |
| `ChannelProofs` | `ServerNeverBlocks` | `ServerAnswers` of `EchoServer` | clients and numbers |
| | `ArraysArrive` | `ArraysDelivered` of `SortChannel` | workers, bytes of an array, a size and a channel |

### The thread pool

From `ThreadPoolAssumption` alone: `NULL` is no task, the limits are positive. None of the
properties is inductive alone. `IInv` is their conjunction with
`ThreadsBorn` (exactly the workers up to `thread_count` exist, and only workers that wait
are asleep), `PoolPhase` (an ending pool has no unassigned task, workers leave only then,
and there is one deleter),
`JoinerOwnsTask` (no two clients are in calls that join the same task, and it is not
detached) and `PoolMembers` (tasks in the pool are allocated, and
the finished ones among them are assigned). The
partition needs to know that a task being joined is in the pool and assigned once it
has finished; the wake-up argument needs that a sleeping worker is a born one and
that a pool which announces its end has nothing unassigned; the counters need that
`running_tasks_count` is the cardinality of the set of running workers, for which
`FiniteSetTheorems` is used. The argument has three layers: lemmas about the array
operations alone (`PushPartitioned`, `FetchPartitioned`, `RemovePartitioned`), lemmas about
the count of running workers, and one lemma per action that `IInv` is preserved.

`TInv` adds what concerns the task objects: a status query under way has a task that no
worker will free, and the pool is not deleted while a join sleeps, because the task it
waits for is unassigned or running and either one forbids the deletion. The refinement maps
the flags and the array to the five phases of a task; each action of the code is one of
`TaskPool` or, like a worker that goes to sleep, none.

### The file system

`FInv` says which files exist, that `refs` is the number of descriptors that lead to a file
(counted over the table, so that filling and clearing a place change one count by one),
that a file which has lost its name is not in the list, and where the loop of a read
or write is. `LimitsKept` adds the positions: byte `offset` of block `block` is inside of
the file, and no file is longer than the limit. Its arithmetic is that of blocks of
any size (`OneByteMore`, `NextByteInside`). It has two hypotheses, together `SizesFit`, that
name what the code leaves to its callers: they do not grow a file by
`ufs_resize` (`UserFS_grow` shows what happens when they do), and a size added to
`MAX_FILE_SIZE` does not overflow an `int` (`userfs.c:284` adds before it compares). Every
instance of the passing runs satisfies the second. `NullAssumption`: `NULL` is no
name, no file, no descriptor and no record of a file and a position.

`FileSystemImplemented` has the same hypotheses. The refinement reads a file as the bytes of
its blocks up to `occupied` of the last one, a descriptor as its file and
`current_block * BLOCK_SIZE + block_offset`, and a name as the file in `file_list` that has
it. Errors and the start of a loop change none of these. `ufs_open` is `Open`; one byte of
`ufs_write` is `Write`, which replaces the byte at the position or
appends one, because `LInv` puts the byte in the block and the offset of the position
(`LoopPosition`) and moves the end only when the position is at it; one byte of `ufs_read` is
`Read`; the end of a loop is `Return`; the rest have the names of their functions. `Close` and `Delete` need that the
reference count is the number of holders, so that 1 means this descriptor only
(`LastHolder`), and that the files without a name are those marked for deletion, for which
`NamesKept` (a listed file has a name) is added to the invariant. `Resize` needs
that the new end is in the last block kept, so that the bytes before it and the positions
behind it are exactly those of the abstract file.

### The tracker

`HInv` has six parts. `Stacks`: each thread is outside of the tracker, in one
of its functions, or in one called from inside of another, which is in its
initialisation, in the library's function or in `backtrace`. `InitOK`: only the main thread
initialises, while it holds `init_lock`. `LivesOK`: a block of a call under way is
nobody else's. `TrackedOK`: for each address the objects of the list that name it are as
many as its owner and the calls responsible for it; as an address may be
given to another thread before `realloc` has forgotten it, the number can be more
than one, and the invariant is about cardinalities. `ObjectsOK`: objects are in the
list, in the pool or in the hand of one thread, and all of them together are what was
carved from the batches. `OwedOK`: after an exit with no call under way the list stays as
it is. For each step one lemma shows what becomes of the stack; `LocalStep` carries
the counts over steps that leave the list alone, `ListStep` over those that add to it
or take from it. `HeapHelpAssumption`: finitely many threads and addresses, `NULL` and the
static buffer are no addresses, a batch is not empty.

### The shell

The same invariant holds for the shell and for the subshell of an `&`, so each of its parts
is about one of them (`ShellOK`). `Shape` says where `main` is in its line: at which command,
behind which operator, with which of its local descriptors in use. `KidsOK` ties the list of
children to the commands of the line they were forked for, newest first, and says that
every child forked for a command and not in the list has been waited for. The subshell
of an `&` is never in that list, and `NothingLeft` does not speak of it: the code never waits
for it. `TableOK` lists the descriptors:
what the shell started with, plus exactly those its locals name, which are the ends of
the pipes of its own children. `ChildOK` follows the same ends into the child: it is the
only one to hold the write end of its pipe, and its input is the output of the program
before the `|`. `LineOK` is about the list: while no pipe is waiting to be read, the last
child has been waited for and `last_child_exit_code` is its status; and for each operator
passed (`Decided`) the command behind it was run exactly if the statuses so far ask for it.
`TextOK` keeps the line inside the reader's buffer.

`NothingLeft` needs `KidsOK` and `TableOK` together: `close` by number is right only because
the number still means the end that the local was given for. `StdinConnected` needs
that an end is inherited by a fork in between and closed there again before the next one.
`RunsAsWritten` reads the status of a command that was waited for in the middle of the
line: `Decided` must hold of a reaped child, whose code no later step changes (`Same`).
What is behind a redirection needs a second invariant on top, `Stops`. Each action has a lemma
for each part of `ShellOK` that it disturbs; what one shell does leaves the other's part
alone, since a fork takes a child that neither has.

`PipeAssumption`: a pipe holds at least a byte. `BoundAssumption`: there are at least five
descriptors, the terminal's three and a pipe. `TextAssumption`: scripts are sequences of
characters, and a program writes some bytes and has an exit code of eight bits. A line is
one that is well formed (commands and operators alternate) where `RunsAsWritten` says so.

### The coroutine library

`CoroInv` says that there is a sequence without repetitions of exactly the coroutines not
returned yet, whose order `next` and `prev` follow in both directions; who runs, who is
suspended, and that a finished one is the one that just ran. Adding at the head, deleting
anywhere and freeing a returned coroutine each give such a sequence again
(`AddKeepsList`, `DeleteKeepsList`, `ClearKeepsList`). That the walk along `next` meets
its entries in order is an induction over places, put as the absence of a least
counterexample (`LeastOf`, `AtList`). `CoroAssumption`: finitely many coroutines, and
the scheduler and `NULL` are none of them.

For `LibCoro`, `LibInv` says what each call inside of `coro_new` has changed and not yet
restored. The point is that SIGUSR2 stays blocked from the first call to the last except
inside of `sigsuspend`, which is reached with the constructor's own signal pending and the
stack and handler in place; so a signal from outside finds either the program's handler or
waits. In the refinement a coroutine under construction is hidden from `Coro`
(`UnderWay`), and the invariant of the library comes from `CoroProofs` by way of the
mapped steps.

### The file sorter

`SorterInv` has a part for each stage. `Halfway` is the one that makes the recursion
provable without induction over data: whatever is still out of order in an array lies
inside of one pending call or of the partition under way (`Ordered`), these are apart and
follow one another from left to right (`Apart`), and the partition has put the numbers
it has seen on either side of `pivot_index` (`Split`). Exchanging two numbers inside of the
partition cannot put a number behind one outside (`OrderInside`); when it returns, its two
parts are ordered against each other (`PartsOrdered`), so the two calls may take its
place, the second beginning at the pivot itself; and with no calls left the array is sorted.
No number is lost because an exchange is a bijection of the places (`ExchangeKeeps`).
`Queue` ties each file to the one coroutine that has it and `Progress` says
that a coroutine can finish only when the queue is empty, whence main, which has deleted all
of them, finds every file stored. `Merging` counts for each number the places passed in the
files; at the end bijections between a file and its sorted array, one for each file, are
put together (`AllTaken`). That `Coro`'s invariants hold comes from `CoroProofs`, each step
being one of the library or leaving its state alone. `FileSorterAssumption`: finitely many
coroutines and at least one, as `argv[2]` says, files of integers, and `NULL` is nothing else.

### The lecture programs

All share the behaviours of `MCLectures`; each proof begins with the lemma that a step of
another program leaves its variables alone. `ProgramsAssumption`: the sets of
threads, waiters, consumers and coroutines are finite, the names used for the main
program are not theirs, there is at least one file to sort, and an `int` has a byte.

* `Futex`: the counter and the rounds to come add up; the rounds are counted as a
  set of pairs, and only the write of the counter takes one away, since whoever writes
  has read the present value under the lock.
* `Condvar`: the mutex tells who may touch the flag, and `wait_count` is the number of
  waiters.
* `SemEvents`: at most one consumer is past the fourth semaphore, which is set only while
  none is (`GateInv`). Until source 1 removes the queue (`QueueInv`) everybody has the
  same one, and a semaphore's value, the consumers it was taken for and the message sent but
  not yet counted are at most the messages in it. From then on only the first part holds.
* `CThread`: the lock orders the end of the thread and its detach or join; the second of
  the two sees the note of the first and destroys the thread, once.
* `Reordering`: the stores of one iteration are numbered from the last, and the buffer of each
  processor holds the next ones that memory has not seen (`Buffered`); so one number for
  each says what memory holds (`InMemory`). A thread that has passed its fence has its variable
  in memory, so whichever of the two reads second sees the store of the first (`Fenced`).
  `main()` waits until it reads from memory that both have ended, since its own clearing of
  the flags comes before its starting them in the same buffer.
* `EchoServer`: a socket that a wait has reported stays readable until the server turns to
  it, since only the server reads; entries that move in the array have not been passed yet,
  or have. `poll`'s first entry is the listening socket, whose failing `recv` ends the
  round, so the bits that `realloc` left uninitialised are never acted on.
* `SortChannel`: what `main()` has of a message, the bytes in the channel and those the worker
  still has to copy are, in this order, the stream of both messages; through shared memory
  the flags say whose turn it is, and when they change both sides are at the same
  message, so that no chunk is read twice and none has bytes of two messages. The facts
  about sequences (`ConcatCancel`, `SplitBytes`) are for sequences of any length.

### Only model-checked

Out of the prover's reach: liveness (`QueueDrains`, `EveryTurnComes`, `Terminates`,
`ScriptEnds`, `ProgramsProgress`), and what recursion over data computes: that a word comes
out of the reader, the tokenizer and the parser with the characters it was written with
(`WordsKept`) is an induction over the text. Every other property of the passing runs is
proved.

## 5. Plan

Done: the models and runs above, and the proofs of section 4. What could follow is outside
of the models: programs that `fork` or `pipe` fail for, and callers of the file system whose
sizes overflow an `int`.

## 6. Not modelled

* `5/`: the functions that would hold the protocol of the chat are stubs.
* The time arithmetic of the timed join and of the sorter: it only decides when a wait
  or a quantum is over, which is nondeterministic here.
* `8_sem.c`, `3_fcntl_lock.c`, `2_flock.c` and the other programs that hand single system
  calls to a person at a terminal, and the demonstrations of one call or of the
  memory layout: there is no protocol in them beyond the kernel's. `9_daemon.c` repeats
  the poll server behind a fork; the socket and message servers of `7_ipc` and `8_net`
  answer one client per thread or per message.
* Tests and checkers, which were read as documentation.
