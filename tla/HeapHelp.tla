------------------------------ MODULE HeapHelp ------------------------------
(***************************************************************************)
(* The allocation tracker utils/heap_help/heap_help.c: it stands in front  *)
(* of the allocation functions of the C library and keeps a list of the    *)
(* blocks that the program has and has not freed.                          *)
(*                                                                         *)
(* A thread has a stack of the tracker's functions it is inside of: the    *)
(* library calls them too, from dlsym while the tracker initialises        *)
(* itself, from strdup, getline and getaddrinfo, and from the backtrace.   *)
(* What allocs_lock protects is used inside its sections only, and a       *)
(* section is one step.                                                    *)
(*                                                                         *)
(* The program frees each block once and with the function that goes with  *)
(* it; a reallocation returns NULL only when it was asked for no bytes;    *)
(* nobody calls strdup once the program is exiting.  The first thread      *)
(* allocates before there is a second one: to make a thread allocates.     *)
(***************************************************************************)
EXTENDS Integers, Sequences, SequencesExt, FiniteSetsExt

CONSTANTS
  Threads, Main,          \* the threads and the one that runs main()
  Uses,                   \* which of the functions each thread calls
  Addrs,                  \* the addresses of the heap
  NULL,
  Static,                 \* any address in static_buf
  static_size,            \* how many blocks static_buf holds
  ALLOCATION_BATCH_SIZE   \* objects come in batches of this many

ASSUME HeapHelpAssumption ==
  /\ IsFiniteSet(Threads) /\ IsFiniteSet(Addrs)
  /\ NULL \notin Addrs /\ Static \notin Addrs \cup {NULL}
  /\ static_size \in Nat
  /\ ALLOCATION_BATCH_SIZE \in Nat \ {0}

VARIABLES
  use,             \* what each address of the heap is used for
  stack,           \* of each thread, the innermost function first
  init_lock, init_lock_count,
  is_init_done, is_exit_done,
  static_used,
  default,         \* where the default_ functions lead: "static" or "sym"
  allocs, alloc_pool,     \* the two lists of allocation objects
  batches, used,   \* the batches mapped so far, and how much of the last is used
  mem, internal,   \* fields of the objects in the list: the block, and whether the
                   \* trace is internal
  alloc_count,
  report,          \* at exit: the leaks found and the internal ones, suppressed
  aborted,         \* an assertion has failed
  owed             \* history: what the report should be, if no call was under way
                   \* when the program began to exit

listVars == <<allocs, alloc_pool, batches, used, mem, internal, alloc_count>>
initVars == <<init_lock, init_lock_count, is_init_done, static_used, default>>
endVars == <<is_exit_done, report, owed>>
vars == <<use, stack, initVars, endVars, listVars, aborted>>

Init ==
  /\ use = [a \in Addrs |-> "free"]
  /\ stack = [t \in Threads |-> <<>>]
  /\ init_lock = FALSE
  /\ init_lock_count = [t \in Threads |-> 0]
  /\ is_init_done = FALSE
  /\ is_exit_done = FALSE
  /\ static_used = 0
  /\ default = "none"
  /\ allocs = <<>>
  /\ alloc_pool = <<>>
  /\ batches = 0
  /\ used = ALLOCATION_BATCH_SIZE
  /\ mem = [o \in {} |-> NULL]
  /\ internal = {}
  /\ alloc_count = 0
  /\ report = <<>>
  /\ owed = <<>>
  /\ aborted = FALSE

-----------------------------------------------------------------------------
(***************************************************************************)
(* Functions under way                                                     *)
(***************************************************************************)

Releasing == {"free", "freeaddrinfo"}

\* The steps of heaph_touch, which come before ++depth.
TouchSteps == {"touch", "lock", "init", "done", "unlock"}

Busy(t) == stack[t] # <<>>
Top(t) == Head(stack[t])
At(t, step) == Busy(t) /\ Top(t).step = step

depth(t) == Cardinality({i \in DOMAIN stack[t] : stack[t][i].step \notin TouchSteps})

Frame(fn, ptr) == [fn |-> fn, ptr |-> ptr, res |-> NULL, obj |-> <<>>, step |-> "touch"]

Push(t, fn, ptr) == stack' = [stack EXCEPT ![t] = <<Frame(fn, ptr)>> \o @]

SetTop(t, f) == stack' = [stack EXCEPT ![t] = <<f>> \o Tail(@)]

AtStep(f, s) == [f EXCEPT !.step = s]

Goto(t, s) == SetTop(t, AtStep(Top(t), s))

\* The block to be forgotten and the block to be tracked when fn is done: lines
\* 490-498 and 550-557, of which the other functions are special cases.
Old(f) == IF f.ptr = f.res THEN NULL ELSE f.ptr
New(f) == IF f.ptr = f.res THEN NULL ELSE f.res

\* Mistakes to be caught: calls inside calls are tracked like the others; tracking
\* goes on while the report is made.
UntrackedShallow(d, ptr) == ptr \in {NULL, Static} \/ is_exit_done
UntrackedLate(d, ptr) == ptr \in {NULL, Static} \/ d > 1

\* Lines 156-169 and 206-212: what is not tracked, at depth d.
Untracked(d, ptr) == ptr \in {NULL, Static} \/ d > 1 \/ is_exit_done

\* f, at depth d, with the result of the library's function.
Returned(f, d, res) ==
  LET g == [f EXCEPT !.res = res] IN
  AtStep(g, IF g.fn \in Releasing THEN "end"
            ELSE IF ~ Untracked(d, Old(g)) THEN "forget"
            ELSE IF ~ Untracked(d, New(g)) THEN "take" ELSE "end")

Result(t, res) == SetTop(t, Returned(Top(t), depth(t), res))

-----------------------------------------------------------------------------
(***************************************************************************)
(* The calls of the program                                                *)
(***************************************************************************)

\* ptr is the call's from now on.  A block is the program's ("block", "info") or
\* belongs to the library ("own", with an internal trace; "kept", not tracked).
Call(t, fn, ptr) ==
  /\ fn \in Uses[t]
  /\ ~ Busy(t)
  /\ t # Main => is_init_done
  /\ t = Main => ~ is_exit_done
  /\ Push(t, fn, ptr)
  /\ use' = IF ptr = NULL THEN use ELSE [use EXCEPT ![ptr] = "call"]
  /\ UNCHANGED <<initVars, endVars, listVars, aborted>>

Blocks == {a \in Addrs : use[a] = "block"}

malloc(t) == Call(t, "malloc", NULL)
calloc(t) == Call(t, "calloc", NULL)
strdup(t) == ~ is_exit_done /\ Call(t, "strdup", NULL)
realloc(t) == \E p \in Blocks \cup {NULL} : Call(t, "realloc", p)
getline(t) == \E p \in Blocks \cup {NULL} : Call(t, "getline", p)
free(t) == \E p \in {a \in Addrs : use[a] \in {"block", "own"}} : Call(t, "free", p)
getaddrinfo(t) == Call(t, "getaddrinfo", NULL)
freeaddrinfo(t) == \E p \in {a \in Addrs : use[a] = "info"} : Call(t, "freeaddrinfo", p)

-----------------------------------------------------------------------------
(***************************************************************************)
(* Initialisation                                                          *)
(***************************************************************************)

\* Where a function goes from heaph_touch.
AfterTouch(t) ==
  LET f == Top(t) IN
  IF f.fn \in Releasing /\ ~ Untracked(depth(t) + 1, f.ptr) THEN "forget" ELSE "default"

\* A mistake to be caught: a call made by the initialisation starts another one.
TouchDone(t) == is_init_done

\* Lines 471-474
Touched(t) == is_init_done \/ init_lock_count[t] > 0

heaph_touch(t) ==
  /\ At(t, "touch")
  /\ Goto(t, IF Touched(t) THEN AfterTouch(t) ELSE "lock")
  /\ UNCHANGED <<use, initVars, endVars, listVars, aborted>>

heaph_lock(t) ==
  /\ At(t, "lock")
  /\ init_lock_count[t] = 0 => ~ init_lock
  /\ init_lock' = TRUE
  /\ init_lock_count' = [init_lock_count EXCEPT ![t] = @ + 1]
  /\ default' = "static"
  /\ Goto(t, "init")
  /\ UNCHANGED <<use, is_init_done, static_used, endVars, listVars, aborted>>

\* dlsym may allocate; freeing static memory has no effect (lines 568-569).
Dlsym(t) ==
  /\ At(t, "init")
  /\ static_used + 1 < static_size
  /\ Push(t, "calloc", NULL)
  /\ UNCHANGED <<use, initVars, endVars, listVars, aborted>>

heaph_init(t) ==
  /\ At(t, "init")
  /\ default' = "sym"
  /\ Goto(t, "done")
  /\ UNCHANGED <<use, init_lock, init_lock_count, is_init_done, static_used, endVars,
                 listVars, aborted>>

\* Line 478, with the assertion of line 480.
ExchangeDone(t) ==
  /\ At(t, "done")
  /\ is_init_done' = TRUE
  /\ aborted' = is_init_done
  /\ Goto(t, "unlock")
  /\ UNCHANGED <<use, init_lock, init_lock_count, static_used, default, endVars, listVars>>

heaph_unlock(t) ==
  /\ At(t, "unlock")
  /\ init_lock_count' = [init_lock_count EXCEPT ![t] = @ - 1]
  /\ init_lock' = (init_lock_count[t] > 1)
  /\ aborted' = ~ init_lock
  /\ Goto(t, AfterTouch(t))
  /\ UNCHANGED <<use, is_init_done, static_used, default, endVars, listVars>>

-----------------------------------------------------------------------------
(***************************************************************************)
(* The library's functions                                                 *)
(***************************************************************************)

\* Static memory is only for the initialisation.
static_malloc(t) ==
  /\ default = "static"
  /\ At(t, "default")
  /\ Top(t).fn \in {"malloc", "calloc"}
  /\ static_used' = static_used + 1
  /\ aborted' = (is_init_done \/ ~ init_lock \/ static_used + 1 >= static_size)
  /\ Result(t, Static)
  /\ UNCHANGED <<use, init_lock, init_lock_count, is_init_done, default, endVars, listVars>>

\* malloc finds no memory, or a free block.
SymAllocate(t) ==
  /\ Top(t).ptr = NULL
  /\ \/ Result(t, NULL) /\ UNCHANGED use
     \/ \E a \in Addrs :
          /\ use[a] = "free"
          /\ use' = [use EXCEPT ![a] = "call"]
          /\ Result(t, a)

\* realloc leaves the block where it is, moves it, or frees it (no bytes).
SymResize(t) ==
  LET p == Top(t).ptr IN
  /\ p # NULL
  /\ Top(t).fn \in {"realloc", "getline"}
  /\ \/ Result(t, p) /\ UNCHANGED use
     \/ \E a \in Addrs :
          /\ use[a] = "free"
          /\ use' = [use EXCEPT ![p] = "free", ![a] = "call"]
          /\ Result(t, a)
     \/ /\ Top(t).fn = "realloc"
        /\ Len(stack[t]) = 1   \* getline never asks for no bytes
        /\ use' = [use EXCEPT ![p] = "free"]
        /\ Result(t, NULL)

SymRelease(t) ==
  /\ Top(t).fn \in Releasing
  /\ use' = [use EXCEPT ![Top(t).ptr] = "free"]
  /\ Goto(t, "end")

\* The library may go through the tracked functions itself, or not.
Inner(f) ==
  CASE f.fn \in {"strdup", "getaddrinfo"} -> "malloc"
    [] f.fn = "getline" -> "realloc"
    [] f.fn = "freeaddrinfo" -> "free"
    [] OTHER -> "none"

CallDefault(t) ==
  /\ default = "sym"
  /\ At(t, "default")
  /\ \/ SymAllocate(t)
     \/ SymResize(t)
     \/ SymRelease(t)
     \/ Inner(Top(t)) # "none" /\ Push(t, Inner(Top(t)), Top(t).ptr) /\ UNCHANGED use
  /\ UNCHANGED <<initVars, endVars, listVars, aborted>>

-----------------------------------------------------------------------------
(***************************************************************************)
(* Tracking                                                                *)
(***************************************************************************)

\* The first object of the list for ptr, as a position in it.
Found(ptr) == {i \in DOMAIN allocs : mem[allocs[i]] = ptr
                                     /\ \A j \in 1..(i - 1) : mem[allocs[j]] # ptr}

\* Lines 219-224
Unlink(i) ==
  /\ alloc_pool' = <<allocs[i]>> \o alloc_pool
  /\ allocs' = RemoveAt(allocs, i)

\* Nobody reads the fields of an object that is not in the list.
alloc_free(t) ==
  LET f == Top(t)
      ptr == IF f.fn \in Releasing THEN f.ptr ELSE Old(f)
  IN
  /\ At(t, "forget")
  /\ IF Found(ptr) = {}
     THEN aborted' = TRUE /\ UNCHANGED <<allocs, alloc_pool, mem, internal, alloc_count>>
     ELSE \E i \in Found(ptr) :
            /\ Unlink(i)
            /\ mem' = [o \in DOMAIN mem \ {allocs[i]} |-> mem[o]]
            /\ internal' = internal \ {allocs[i]}
            /\ alloc_count' = alloc_count - 1
            /\ aborted' = (alloc_count' < 0)
  /\ Goto(t, IF f.fn \in Releasing THEN "default"
             ELSE IF Untracked(depth(t), New(f)) THEN "end" ELSE "take")
  /\ UNCHANGED <<use, initVars, endVars, batches, used>>

\* A mistake to be caught: the object in hand stays in the pool.
TakePooledKept ==
  /\ alloc_pool # <<>>
  /\ UNCHANGED <<alloc_pool, batches, used>>

\* Lines 172-174
TakePooled ==
  /\ alloc_pool # <<>>
  /\ alloc_pool' = Tail(alloc_pool)
  /\ UNCHANGED <<batches, used>>

\* Lines 176-186
Carve ==
  /\ alloc_pool = <<>>
  /\ IF used = ALLOCATION_BATCH_SIZE
     THEN batches' = batches + 1 /\ used' = 1
     ELSE used' = used + 1 /\ UNCHANGED batches
  /\ UNCHANGED alloc_pool

\* The first section of alloc_trace_new.
TakeObject(t) ==
  /\ At(t, "take")
  /\ aborted' = ~ is_init_done
  /\ TakePooled \/ Carve
  /\ SetTop(t, AtStep([Top(t) EXCEPT !.obj = IF alloc_pool # <<>> THEN Head(alloc_pool)
                                             ELSE <<batches', used'>>], "add"))
  /\ UNCHANGED <<use, initVars, endVars, allocs, mem, internal, alloc_count>>

\* Between the two sections: backtrace loads a library the first time.
Backtrace(t) ==
  /\ At(t, "add")
  /\ \A a \in Addrs : use[a] # "kept"
  /\ Push(t, "malloc", NULL)
  /\ UNCHANGED <<use, initVars, endVars, listVars, aborted>>

\* The trace is internal or not: lines 304-338 say by which functions are in it,
\* and it is a library that calls calloc for itself.  The fields of the object
\* are its owner's alone until the second section publishes it.
AddObject(t) ==
  LET f == Top(t) IN
  /\ At(t, "add")
  /\ mem' = [o \in DOMAIN mem \cup {f.obj} |-> IF o = f.obj THEN New(f) ELSE mem[o]]
  /\ \/ internal' = internal \ {f.obj}
     \/ f.fn = "calloc" /\ internal' = internal \cup {f.obj}
  /\ allocs' = <<f.obj>> \o allocs
  /\ alloc_count' = alloc_count + 1
  /\ Goto(t, "end")
  /\ UNCHANGED <<use, initVars, endVars, alloc_pool, batches, used, aborted>>

\* What becomes of a result: the caller of the outermost function has it.
UsedFor(t) ==
  IF Len(stack[t]) > 1 THEN IF stack[t][2].step = "add" THEN "kept" ELSE "call"
  ELSE IF Top(t).fn = "getaddrinfo" THEN "info"
  ELSE IF Top(t).obj \in internal THEN "own" ELSE "block"

\* The end of a function: --depth.  A library's function that called it returns
\* at once; the initialisation and the backtrace go on.
Return(t) ==
  LET f == Top(t)
      callers == Tail(stack[t]) IN
  /\ At(t, "end")
  /\ use' = IF f.res \in Addrs THEN [use EXCEPT ![f.res] = UsedFor(t)] ELSE use
  /\ stack' = [stack EXCEPT ![t] =
       IF callers # <<>> /\ Head(callers).step = "default"
       THEN <<Returned(Head(callers), depth(t) - 1, f.res)>> \o Tail(callers)
       ELSE callers]
  /\ UNCHANGED <<initVars, endVars, listVars, aborted>>

-----------------------------------------------------------------------------
(***************************************************************************)
(* Queries and the end of the program                                      *)
(***************************************************************************)

\* Lines 378-399
Leaks == Cardinality({o \in ToSet(allocs) : o \notin internal})

\* Line 360: the main thread returns from main().
StartExit ==
  /\ ~ Busy(Main)
  /\ ~ is_exit_done
  /\ is_exit_done' = TRUE
  /\ owed' = IF \E t \in Threads : Busy(t) THEN <<>>
             ELSE <<Cardinality({a \in Addrs : use[a] \in {"block", "info"}}),
                    Cardinality({a \in Addrs : use[a] = "own"})>>
  /\ UNCHANGED <<use, stack, initVars, listVars, report, aborted>>

\* The rest of heaph_atexit: every block of the list must be in the count (line
\* 387).  The process ends, whatever the other threads are doing.
heaph_atexit ==
  /\ is_exit_done
  /\ report' = <<Leaks, alloc_count - Leaks>>
  /\ aborted' = \E i \in DOMAIN allocs :
       alloc_count <= Cardinality({j \in 1..(i - 1) : allocs[j] \in internal})
  /\ UNCHANGED <<use, stack, initVars, is_exit_done, owed, listVars>>

-----------------------------------------------------------------------------
(***************************************************************************)
(* Specification                                                           *)
(***************************************************************************)

Calls(t) ==
  \/ malloc(t) \/ calloc(t) \/ strdup(t) \/ realloc(t)
  \/ getline(t) \/ free(t) \/ getaddrinfo(t) \/ freeaddrinfo(t)

Steps(t) ==
  \/ heaph_touch(t) \/ heaph_lock(t) \/ Dlsym(t) \/ heaph_init(t)
  \/ ExchangeDone(t) \/ heaph_unlock(t) \/ static_malloc(t) \/ CallDefault(t)
  \/ alloc_free(t) \/ TakeObject(t) \/ Backtrace(t) \/ AddObject(t) \/ Return(t)

Next ==
  /\ ~ aborted
  /\ report = <<>>
  /\ \/ \E t \in Threads : Calls(t) \/ Steps(t)
     \/ StartExit
     \/ heaph_atexit

Spec == Init /\ [][Next]_vars

-----------------------------------------------------------------------------
(***************************************************************************)
(* Properties                                                              *)
(***************************************************************************)

\* No assertion of the tracker fails in a program that frees what it allocated:
\* no "freeing bad memory" though a reallocation gives an address back before
\* the tracker has forgotten it, no static memory after the initialisation, no
\* second initialisation.
NoAbort == ~ aborted

\* The address a call has made the tracker responsible for and has not returned.
InFlight(f) ==
  CASE f.step \in TouchSteps \cup {"default", "forget"} ->
         IF f.fn \in Releasing /\ f.step = "default" THEN {} ELSE {f.ptr}
    [] f.step = "end" /\ f.fn \notin Releasing -> {f.res}
    [] OTHER -> {}

Outermost(t) == Last(stack[t])

\* Each block the program has is in the list exactly once, and so is each one
\* that a call under way is responsible for, through moved blocks, addresses
\* used again by another thread, and functions that the library calls itself.
TrackedOnce ==
  is_exit_done \/ \A a \in Addrs :
    Cardinality({i \in DOMAIN allocs : mem[allocs[i]] = a})
      = (IF use[a] \in {"block", "info", "own"} THEN 1 ELSE 0)
        + Cardinality({t \in Threads : Busy(t) /\ a \in InFlight(Outermost(t))})

\* An allocation object is in the list, in the pool, in one thread's hand or not
\* carved yet, no batch is carved past its end, and the count is that of the list.
ObjectsAccounted ==
  LET hands == {t \in Threads : Busy(t) /\ Outermost(t).step = "add"}
      places == allocs \o alloc_pool IN
  /\ IsInjective(places)
  /\ \A t \in hands : Outermost(t).obj \notin ToSet(places)
                       /\ \A u \in hands \ {t} : Outermost(u).obj # Outermost(t).obj
  /\ Len(places) + Cardinality(hands) = ALLOCATION_BATCH_SIZE * (batches - 1) + used
  /\ used \in 1..ALLOCATION_BATCH_SIZE
  /\ alloc_count = Len(allocs)

\* When a program exits whose threads are not inside of a call, as many blocks are
\* reported or suppressed as there are, whatever the other threads still do.
LeaksCounted == report # <<>> /\ owed # <<>> => report[1] + report[2] = owed[1] + owed[2]
=============================================================================
