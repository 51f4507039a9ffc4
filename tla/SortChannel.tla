---------------------------- MODULE SortChannel ----------------------------
(***************************************************************************)
(* lecture_examples/7_ipc/2_parallel_sort.c and 3_mem_sort.c: one process  *)
(* for each file sorts it and sends the size of the array and the array to *)
(* the main process, through a pipe or through shared memory that the two  *)
(* hand to each other with a pair of flags.  The main process takes the    *)
(* workers in order and waits for one child after each.                    *)
(*                                                                         *)
(* What qsort makes of a file is any array; its bytes are numbered.        *)
(***************************************************************************)
EXTENDS Integers, Sequences, FiniteSetsExt

CONSTANTS
  KINDS,         \* channels to try: "pipe", "mem"
  nfiles,
  SIZES,         \* the sizes, in bytes, that an array may have
  SIZE_BYTES,    \* sizeof(int)
  MEM_SIZE       \* bytes that fit into a pipe, or into the memory behind its flags

Workers == 1..nfiles
Main == 0

VARIABLES
  kind,
  file,            \* the size of each worker's array
  message,         \* what each worker is sending; then "exit", and "reaped"
  src,             \* its bytes not yet sent
  mem, is_readable, is_writable,    \* the channels
  handing,         \* the processes between their stores to the two flags
  reader, w, dst,  \* what main() is reading, from whom, and what it has of it
  size, array      \* what main() has

sorterVars == <<file, message, src>>
mainVars == <<reader, w, dst, size, array>>
vars == <<kind, sorterVars, mem, is_readable, is_writable, handing, mainVars>>

\* The numbered bytes of the two messages.
SizeOf(i) == [k \in 1..SIZE_BYTES |-> <<file[i], k>>]
ArrayOf(i) == [k \in 1..file[i] |-> <<i, k>>]

FirstBytes(s, n) == SubSeq(s, 1, Min({n, Len(s)}))
Without(s, n) == SubSeq(s, Min({n, Len(s)}) + 1, Len(s))

Init ==
  /\ kind \in KINDS
  /\ file \in [Workers -> SIZES]
  /\ message = [i \in Workers |-> "size"]
  /\ src = [i \in Workers |-> SizeOf(i)]
  /\ mem = [i \in Workers |-> <<>>]
  /\ is_readable = {} /\ is_writable = Workers
  /\ handing = {}
  /\ reader = "size" /\ w = 1 /\ dst = <<>>
  /\ size = [i \in Workers |-> 0]
  /\ array = [i \in Workers |-> <<>>]

Sending(i) == message[i] \in {"size", "array"}
Reading == reader \in {"size", "array"}

\* sorter: behind the size comes the array, behind the array the end.
NextMessage(i) ==
  IF message[i] = "size"
  THEN message' = [message EXCEPT ![i] = "array"] /\ src' = [src EXCEPT ![i] = ArrayOf(i)]
  ELSE message' = [message EXCEPT ![i] = "exit"] /\ src' = [src EXCEPT ![i] = <<>>]

Expected == IF reader = "size" THEN SIZE_BYTES ELSE size[w]

\* main(): what is done with a whole message.
MessageRead ==
  /\ dst' = <<>>
  /\ IF reader = "size"
     THEN reader' = "array" /\ size' = [size EXCEPT ![w] = dst[1][1]] /\ UNCHANGED array
     ELSE reader' = "wait" /\ array' = [array EXCEPT ![w] = dst] /\ UNCHANGED size
  /\ UNCHANGED w

-----------------------------------------------------------------------------
(***************************************************************************)
(* Shared memory                                                           *)
(***************************************************************************)

\* Lines 41-50: wait for the memory, copy what fits; a message of no bytes is
\* handed over as well.
WriteChunk(i) ==
  /\ kind = "mem" /\ Sending(i) /\ i \notin handing
  /\ i \in is_writable
  /\ mem' = [mem EXCEPT ![i] = FirstBytes(src[i], MEM_SIZE)]
  /\ src' = [src EXCEPT ![i] = Without(@, MEM_SIZE)]
  /\ is_writable' = is_writable \ {i}
  /\ handing' = handing \cup {i}
  /\ UNCHANGED <<kind, file, message, is_readable, mainVars>>

\* Lines 51-55
WriteReadable(i) ==
  /\ i \in handing
  /\ is_readable' = is_readable \cup {i}
  /\ handing' = handing \ {i}
  /\ IF src[i] = <<>> THEN NextMessage(i) ELSE UNCHANGED <<message, src>>
  /\ UNCHANGED <<kind, file, mem, is_writable, mainVars>>

\* A mistake to be caught: what has been read can be read again.
LeaveReadable == UNCHANGED is_readable

\* Line 78
TakeReadable == is_readable' = is_readable \ {w}

\* Lines 69-78
ReadChunk ==
  /\ kind = "mem" /\ Reading /\ Main \notin handing
  /\ w \in is_readable
  /\ dst' = dst \o FirstBytes(mem[w], Expected - Len(dst))
  /\ TakeReadable
  /\ handing' = handing \cup {Main}
  /\ UNCHANGED <<kind, sorterVars, mem, is_writable, reader, w, size, array>>

\* Lines 79-83
ReadWritable ==
  /\ Main \in handing
  /\ is_writable' = is_writable \cup {w}
  /\ handing' = handing \ {Main}
  /\ IF Len(dst) = Expected THEN MessageRead ELSE UNCHANGED mainVars
  /\ UNCHANGED <<kind, sorterVars, mem, is_readable>>

-----------------------------------------------------------------------------
(***************************************************************************)
(* Pipes                                                                   *)
(***************************************************************************)

flagVars == <<is_readable, is_writable, handing>>

\* write copies what the pipe has room for and blocks until the rest is copied.
PipeWrite(i) ==
  LET room == MEM_SIZE - Len(mem[i]) IN
  /\ kind = "pipe" /\ Sending(i)
  /\ IF src[i] = <<>> THEN NextMessage(i) /\ UNCHANGED mem
     ELSE /\ room > 0
          /\ mem' = [mem EXCEPT ![i] = @ \o FirstBytes(src[i], room)]
          /\ src' = [src EXCEPT ![i] = Without(@, room)]
          /\ UNCHANGED message
  /\ UNCHANGED <<kind, file, flagVars, mainVars>>

\* read_from_pipe: read takes what is there, and does not block for no bytes.
PipeRead ==
  LET want == Expected - Len(dst) IN
  /\ kind = "pipe" /\ Reading
  /\ IF want = 0 THEN MessageRead /\ UNCHANGED mem
     ELSE /\ mem[w] # <<>>
          /\ dst' = dst \o FirstBytes(mem[w], want)
          /\ mem' = [mem EXCEPT ![w] = Without(@, want)]
          /\ UNCHANGED <<reader, w, size, array>>
  /\ UNCHANGED <<kind, sorterVars, flagVars>>

-----------------------------------------------------------------------------

\* wait(NULL) takes any child that has ended.
Wait ==
  /\ reader = "wait"
  /\ \E i \in Workers : message[i] = "exit" /\ message' = [message EXCEPT ![i] = "reaped"]
  /\ IF w = nfiles THEN reader' = "done" /\ UNCHANGED w ELSE reader' = "size" /\ w' = w + 1
  /\ UNCHANGED <<kind, file, src, mem, flagVars, dst, size, array>>

WorkerStep(i) == WriteChunk(i) \/ WriteReadable(i) \/ PipeWrite(i)
MainStep == ReadChunk \/ ReadWritable \/ PipeRead \/ Wait

Next == MainStep \/ \E i \in Workers : WorkerStep(i)

Done == reader = "done"

\* Whatever the sizes of the arrays are to the size of the channel, an array is
\* read whole, once, in order, and from its own worker; and when all have been
\* read no child is left.
ArraysDelivered ==
  /\ \A i \in Workers : i < w \/ (i = w /\ reader \in {"wait", "done"}) => array[i] = ArrayOf(i)
  /\ Done => \A i \in Workers : message[i] = "reaped"
=============================================================================
