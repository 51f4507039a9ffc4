----------------------------- MODULE FileSorter -----------------------------
(***************************************************************************)
(* The program of 1/solution.c on top of the coroutine library: a pool of  *)
(* coroutines takes files from a shared queue and sorts each with a        *)
(* quicksort that may yield after every iteration of its loop; then main   *)
(* merges the sorted files.                                                *)
(*                                                                         *)
(* Whether the time quantum of a coroutine is over is left open, so it may *)
(* yield or not at every place where the code asks.  Times and counters    *)
(* that are only printed are left out.                                     *)
(***************************************************************************)
EXTENDS Integers, Sequences, FiniteSets

CONSTANTS
  Coros, coro_sched, NULL,   \* as in Coro; main starts one coroutine per address
  FILE_COUNT,
  Contents                   \* the sequences of numbers a file may hold

\* The variables of quick_sort_partition.
Partitions ==
  [first : Nat, count : Nat, i : Nat, pivot_index : Nat, pivot_value : Int]

ASSUME FileSorterAssumption ==
  /\ IsFiniteSet(Coros) /\ Coros # {}              \* argv[2] is at least 1
  /\ coro_sched \notin Coros /\ NULL \notin Coros \cup {coro_sched}
  /\ FILE_COUNT \in Nat
  /\ Contents \subseteq Seq(Int)
  /\ NULL \notin 0..FILE_COUNT /\ NULL \notin Seq(Int) /\ NULL \notin Partitions

Files == 0..(FILE_COUNT - 1)

VARIABLES
  coro_list, next, prev, allocated, is_finished, coro_this_ptr, is_sched_waiting,
  ctx, returned,             \* the library's state
  file,                      \* what is on the disk
  file_ptr, sorted_files,    \* the shared queue
  working,                   \* each coroutine's file, NULL outside the loop body
  numbers,                   \* its array
  calls,                     \* its pending calls of the sort, as <<first index, count>>
  loop,                      \* its partition under way, or NULL
  main_pc,                   \* "create", "wait", "merge", "end"
  current_number_ptr,        \* the merge's position in each file
  output                     \* merged_tests.txt

coroVars  == <<coro_list, next, prev, allocated, is_finished, coro_this_ptr,
               is_sched_waiting, ctx, returned>>
sortVars  == <<working, numbers, calls, loop>>
mergeVars == <<current_number_ptr, output>>

vars == <<coroVars, file, file_ptr, sorted_files, sortVars, main_pc, mergeVars>>

C == INSTANCE Coro

-----------------------------------------------------------------------------
(***************************************************************************)
(* create_file_queue and the start of main                                 *)
(***************************************************************************)

Init ==
  /\ C!Init
  /\ file \in [Files -> Contents]
  /\ file_ptr = 0
  /\ sorted_files = [f \in Files |-> NULL]
  /\ working = [c \in Coros |-> NULL]
  /\ numbers = [c \in Coros |-> <<>>]
  /\ calls = [c \in Coros |-> <<>>]
  /\ loop = [c \in Coros |-> NULL]
  /\ main_pc = "create"
  /\ current_number_ptr = [f \in Files |-> 0]
  /\ output = <<>>

\* Lines 346-353
Create ==
  /\ main_pc = "create"
  /\ \/ /\ \E c \in Coros : C!coro_new(c)
        /\ UNCHANGED main_pc
     \/ /\ allocated = Coros
        /\ main_pc' = "wait"
        /\ UNCHANGED coroVars
  /\ UNCHANGED <<file, file_ptr, sorted_files, sortVars, mergeVars>>

-----------------------------------------------------------------------------
(***************************************************************************)
(* coroutine_func_f                                                        *)
(***************************************************************************)

\* A mistake to be caught: the file is left in the queue while it is sorted.
AdvanceNot == UNCHANGED file_ptr

AdvanceQueue == file_ptr' = file_ptr + 1

\* A mistake to be caught: a call with one number does not return at once.
CallUnlessEmpty(first, count) == IF count <= 0 THEN <<>> ELSE << <<first, count>> >>

\* get_sorted_inplace_numbers returns at once if there is nothing to sort.
Call(first, count) == IF count <= 1 THEN <<>> ELSE << <<first, count>> >>

\* The coroutine takes the next file and reads it.
TakeFile(c) ==
  /\ coro_this_ptr = c
  /\ working[c] = NULL
  /\ file_ptr < FILE_COUNT
  /\ working' = [working EXCEPT ![c] = file_ptr]
  /\ numbers' = [numbers EXCEPT ![c] = file[file_ptr]]
  /\ calls' = [calls EXCEPT ![c] = Call(0, Len(file[file_ptr]))]
  /\ AdvanceQueue
  /\ UNCHANGED <<coroVars, file, sorted_files, loop, main_pc, mergeVars>>

\* quick_sort_partition begins: its pivot is the last number.
PartitionStart(c) ==
  /\ coro_this_ptr = c
  /\ loop[c] = NULL
  /\ calls[c] # <<>>
  /\ LET first == Head(calls[c])[1]
         count == Head(calls[c])[2]
     IN  loop' = [loop EXCEPT ![c] =
           [first |-> first, count |-> count, i |-> 0, pivot_index |-> 0,
            pivot_value |-> numbers[c][first + count]]]
  /\ calls' = [calls EXCEPT ![c] = Tail(@)]
  /\ UNCHANGED <<coroVars, file, file_ptr, sorted_files, working, numbers, main_pc,
                 mergeVars>>

Below(number, pivot_value) == number <= pivot_value

\* A mistake to be caught: one of the two numbers is lost.
ExchangedHalf(array, i, j) == [array EXCEPT ![i + 1] = array[j + 1]]

\* The array with the entries of two indexes exchanged.
Exchanged(array, i, j) == [array EXCEPT ![i + 1] = array[j + 1], ![j + 1] = array[i + 1]]

\* coro_yield_with_respect_to_quantum
YieldOrNot(c) == C!coro_yield(c) \/ UNCHANGED coroVars

\* One iteration of the loop of quick_sort_partition.
PartitionIterate(c) ==
  LET l == loop[c]
  IN  /\ coro_this_ptr = c
      /\ l # NULL
      /\ l.i < l.count
      /\ \/ /\ Below(numbers[c][l.first + l.i + 1], l.pivot_value)
            /\ numbers' = [numbers EXCEPT ![c] =
                 Exchanged(@, l.first + l.i, l.first + l.pivot_index)]
            /\ loop' = [loop EXCEPT ![c].i = @ + 1, ![c].pivot_index = @ + 1]
         \/ /\ ~ Below(numbers[c][l.first + l.i + 1], l.pivot_value)
            /\ loop' = [loop EXCEPT ![c].i = @ + 1]
            /\ UNCHANGED numbers
      /\ YieldOrNot(c)
      /\ UNCHANGED <<file, file_ptr, sorted_files, working, calls, main_pc, mergeVars>>

\* Lines 170-171
Calls(first, count, pivot_index) ==
  Call(first, pivot_index) \o Call(first + pivot_index, count - pivot_index)

\* quick_sort_partition returns, and its caller sorts the two parts.
PartitionReturn(c) ==
  LET l == loop[c]
  IN  /\ coro_this_ptr = c
      /\ l # NULL
      /\ l.i = l.count
      /\ calls' = [calls EXCEPT ![c] = Calls(l.first, l.count, l.pivot_index - 1) \o @]
      /\ loop' = [loop EXCEPT ![c] = NULL]
      /\ UNCHANGED <<coroVars, file, file_ptr, sorted_files, working, numbers, main_pc,
                     mergeVars>>

\* The sort has returned: the file's numbers go to the shared queue.
StoreFile(c) ==
  /\ coro_this_ptr = c
  /\ working[c] # NULL
  /\ loop[c] = NULL
  /\ calls[c] = <<>>
  /\ sorted_files' = [sorted_files EXCEPT ![working[c]] = numbers[c]]
  /\ working' = [working EXCEPT ![c] = NULL]
  /\ numbers' = [numbers EXCEPT ![c] = <<>>]
  /\ UNCHANGED <<coroVars, file, file_ptr, calls, loop, main_pc, mergeVars>>

\* No file is left: the coroutine frees its context and finishes.
Exit(c) ==
  /\ coro_this_ptr = c
  /\ working[c] = NULL
  /\ file_ptr >= FILE_COUNT
  /\ C!coro_finish(c)
  /\ UNCHANGED <<file, file_ptr, sorted_files, sortVars, main_pc, mergeVars>>

-----------------------------------------------------------------------------
(***************************************************************************)
(* Waiting and merging                                                     *)
(***************************************************************************)

\* coro_sched_wait is about to return NULL.
WaitedForAll == coro_list = NULL

\* The loop of lines 356-359: wait for a coroutine, delete it.
Wait ==
  /\ main_pc = "wait"
  /\ \/ /\ returned = {}
        /\ C!coro_sched_wait
        /\ main_pc' = IF WaitedForAll THEN "merge" ELSE main_pc
     \/ /\ \E c \in Coros : C!coro_delete(c)
        /\ UNCHANGED main_pc
  /\ UNCHANGED <<file, file_ptr, sorted_files, sortVars, mergeVars>>

\* The files that the merge has not used up.
Left == {f \in Files : current_number_ptr[f] < Len(sorted_files[f])}

Current(f) == sorted_files[f][current_number_ptr[f] + 1]

\* A mistake to be caught: the comparison of the merge is the wrong way round.
GreatestFirst(f) == \A g \in Left : Current(f) > Current(g) \/ (Current(f) = Current(g) /\ f <= g)

\* Lines 296-306: the first file whose current number is the smallest.
SmallestFirst(f) == \A g \in Left : Current(f) < Current(g) \/ (Current(f) = Current(g) /\ f <= g)

\* output_merged_sorted_numbers_to_file, one number at a time.
Merge ==
  /\ main_pc = "merge"
  /\ \/ \E f \in Left :
          /\ SmallestFirst(f)
          /\ output' = Append(output, Current(f))
          /\ current_number_ptr' = [current_number_ptr EXCEPT ![f] = @ + 1]
          /\ UNCHANGED main_pc
     \/ /\ Left = {}
        /\ main_pc' = "end"
        /\ UNCHANGED mergeVars
  /\ UNCHANGED <<coroVars, file, file_ptr, sorted_files, sortVars>>

-----------------------------------------------------------------------------
(***************************************************************************)
(* Specification                                                           *)
(***************************************************************************)

CoroutineStep(c) ==
  \/ TakeFile(c)
  \/ PartitionStart(c)
  \/ PartitionIterate(c)
  \/ PartitionReturn(c)
  \/ StoreFile(c)
  \/ Exit(c)

Next ==
  \/ Create
  \/ \E c \in Coros : CoroutineStep(c)
  \/ Wait
  \/ Merge

\* The program is one thread that goes on as long as it can.
Spec == Init /\ [][Next]_vars /\ WF_vars(Next)

-----------------------------------------------------------------------------
(***************************************************************************)
(* Properties                                                              *)
(***************************************************************************)

Sorted(s) == \A i, j \in 1..Len(s) : i < j => s[i] <= s[j]

\* How often v is in s.
Count(s, v) == Cardinality({i \in 1..Len(s) : s[i] = v})

Values == UNION {{file[f][i] : i \in 1..Len(file[f])} : f \in Files}

SameNumbers(s, t) == Len(s) = Len(t) /\ \A v \in Values : Count(s, v) = Count(t, v)

\* However the coroutines yield, each file that has left the queue is in the
\* hands of exactly one of them or stored, never both, and no other is.
TakenOnce ==
  \A f \in Files :
    Cardinality({c \in Coros : working[c] = f})
      = IF f < file_ptr /\ sorted_files[f] = NULL THEN 1 ELSE 0

\* While a file is sorted, across yields, its array keeps the numbers of the
\* file; the partition's part below pivot_index is at most the pivot, the part
\* from there to i is greater; and every call stays inside the array.
PartitionSplits ==
  \A c \in Coros : working[c] # NULL =>
    LET l == loop[c]
        n == numbers[c]
    IN  /\ SameNumbers(n, file[working[c]])
        /\ \A k \in 1..Len(calls[c]) : calls[c][k][1] + calls[c][k][2] <= Len(n)
        /\ l # NULL =>
             /\ l.pivot_index <= l.i /\ l.i <= l.count /\ l.first + l.count <= Len(n)
             /\ \A k \in 1..l.i :
                  n[l.first + k] <= l.pivot_value <=> k <= l.pivot_index

\* What is stored for a file is the file, sorted.
StoredSorted ==
  \A f \in Files : sorted_files[f] # NULL =>
    Sorted(sorted_files[f]) /\ SameNumbers(sorted_files[f], file[f])

\* main merges only when every file is stored and every coroutine is gone.
MergeReady ==
  main_pc \in {"merge", "end"} =>
    /\ \A f \in Files : sorted_files[f] # NULL
    /\ allocated = {}

\* The merged file is sorted and holds, in the end, what the files held.
OutputMerged ==
  /\ Sorted(output)
  /\ main_pc = "end" => \A v \in Values :
       Count(output, v) = Cardinality({p \in Files \X (1..Len(output)) :
                                         p[2] <= Len(file[p[1]]) /\ file[p[1]][p[2]] = v})

\* Each file is sorted by one coroutine, before the merge.
SortedOnce == TakenOnce /\ MergeReady

\* Yields in the middle of the sort do no harm to it.
SortCorrect == PartitionSplits /\ StoredSorted

\* The sort makes progress also when the pivot is the smallest number and its
\* second call gets the whole array again: the program always ends.
Terminates == <>(main_pc = "end")
=============================================================================
