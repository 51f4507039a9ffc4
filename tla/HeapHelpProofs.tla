--------------------------- MODULE HeapHelpProofs ---------------------------
(***************************************************************************)
(* Proofs about the allocation tracker, for any number of threads,         *)
(* addresses and batches.                                                  *)
(***************************************************************************)
EXTENDS HeapHelp, TLAPS, FiniteSetTheorems, SequenceTheorems, WellFoundedInduction

Functions == {"malloc", "calloc", "strdup", "realloc", "getline", "free", "getaddrinfo",
              "freeaddrinfo"}

Moving == {"realloc", "getline"}

Steps_ == TouchSteps \cup {"default", "forget", "take", "add", "end"}

\* Allocation objects by batch and place, and those that have been carved.
Object == Nat \X (1..ALLOCATION_BATCH_SIZE)
Carved == {o \in Object : /\ o[1] \in 1..batches
                          /\ o[1] = batches => o[2] <= used}

FrameType == [fn : Functions, ptr : Addrs \cup {NULL}, res : Addrs \cup {NULL, Static},
              obj : Object \cup {<<>>}, step : Steps_]

\* What a function of the tracker has been called with and has got, where it is.
FrameOK(f) ==
  /\ f \in FrameType
  /\ f.fn \in Releasing => /\ f.ptr \in Addrs /\ f.res = NULL
                           /\ f.step \notin {"take", "add"}
  /\ f.fn \notin Releasing \cup Moving => f.ptr = NULL
  /\ f.step = "forget" => f.ptr \in Addrs /\ f.ptr # f.res
  /\ f.step \in {"take", "add"} => f.res \in Addrs /\ f.ptr # f.res
  /\ f.step = "add" => f.obj \in Object

\* The block that the call of one function owns.
LiveOf(f) ==
  (IF f.fn \in Releasing THEN IF f.step = "end" THEN {} ELSE {f.ptr}
   ELSE IF f.step \in {"forget", "take", "add", "end"} THEN {f.res} ELSE {f.ptr}) \cap Addrs

\* A call of the program, and one inside of it.
OuterOK(t, f) ==
  /\ FrameOK(f) /\ f.res # Static
  /\ f.step \in {"lock", "init", "done", "unlock"} => t = Main
  /\ f.step \in {"unlock", "default", "forget", "take", "add", "end"} => is_init_done
  /\ f.step \in {"lock", "init", "done"} => ~ is_init_done
  /\ ~ is_init_done => t = Main

InnerOK(g, f) ==
  /\ FrameOK(g)
  /\ g.step \in {"touch", "default", "end"}
  /\ \/ /\ f.step = "init"
        /\ g.fn = "calloc" /\ g.ptr = NULL
        /\ g.step = "end" => g.res = Static
        /\ g.step # "end" => static_used + 1 < static_size
     \/ /\ f.step = "default"
        /\ g.fn = Inner(f) /\ g.ptr = f.ptr /\ g.res # Static
     \/ /\ f.step = "add"
        /\ g.fn = "malloc" /\ g.ptr = NULL /\ g.res # Static
        /\ LiveOf(g) \cap LiveOf(f) = {}

StackOK(t, s) ==
  \/ s = <<>>
  \/ s = <<s[1]>> /\ OuterOK(t, s[1])
  \/ s = <<s[1], s[2]>> /\ OuterOK(t, s[2]) /\ InnerOK(s[1], s[2])

Stacks == \A t \in Threads : StackOK(t, stack[t])

\* Where the call of the program is.
Where(s) == IF s = <<>> THEN "idle" ELSE Last(s).step

\* Only the main thread initialises the tracker, and it does so once.
InitOK ==
  /\ is_init_done => default = "sym"
  /\ ~ is_init_done /\ Main \in Threads =>
       /\ Where(stack[Main]) \in {"init", "done"} => init_lock /\ init_lock_count[Main] = 1
       /\ Where(stack[Main]) = "init" => default = "static"
       /\ Where(stack[Main]) = "done" => default = "sym"
       /\ Where(stack[Main]) \notin {"init", "done"}
            => default = "none" /\ init_lock_count[Main] = 0
  /\ \A t \in Threads :
       Where(stack[t]) = "unlock" => init_lock /\ init_lock_count[t] = 1

\* What one thread has the tracker do, seen in its stack: the blocks of its call,
\* the one its call is responsible for, the one to be forgotten, the object in hand.
Lives(s) ==
  IF s = <<>> THEN {}
  ELSE LiveOf(Head(s)) \cup (IF Last(s).step \in {"init", "add"} THEN LiveOf(Last(s)) ELSE {})

Claim(s) == IF s = <<>> THEN {} ELSE InFlight(Last(s)) \cap Addrs

Forget(s) == IF Where(s) = "forget" THEN {Last(s).ptr} ELSE {}

Hand(s) == IF Where(s) = "add" THEN {Last(s).obj} ELSE {}

\* A block of a call is nobody else's.
LivesOK ==
  /\ \A t \in Threads : \A a \in Lives(stack[t]) : use[a] = "call"
  /\ \A t, u \in Threads : t # u => Lives(stack[t]) \cap Lives(stack[u]) = {}

Owned == {a \in Addrs : use[a] \in {"block", "info", "own"}}
Claimants(a) == {t \in Threads : a \in Claim(stack[t])}
Forgetters(a) == {t \in Threads : a \in Forget(stack[t])}
Holding(a) == {o \in DOMAIN mem : mem[o] = a}
Hands == {t \in Threads : Hand(stack[t]) # {}}

\* For each block there is an object in the list for its owner and for each call
\* that is responsible for it; and at any time for each call about to forget it.
TrackedOK ==
  \A a \in Addrs :
    /\ ~ is_exit_done => Cardinality(Holding(a))
         = (IF a \in Owned THEN 1 ELSE 0) + Cardinality(Claimants(a))
    /\ Cardinality(Forgetters(a)) <= Cardinality(Holding(a))

ObjectsOK ==
  /\ allocs \in Seq(Object) /\ alloc_pool \in Seq(Object)
  /\ batches \in Nat /\ used \in 1..ALLOCATION_BATCH_SIZE
  /\ batches = 0 => used = ALLOCATION_BATCH_SIZE
  /\ DOMAIN mem = ToSet(allocs) /\ \A o \in DOMAIN mem : mem[o] \in Addrs
  /\ IsInjective(allocs) /\ IsInjective(alloc_pool)
  /\ ToSet(allocs) \cap ToSet(alloc_pool) = {}
  /\ \A t \in Threads : Hand(stack[t]) \cap (ToSet(allocs) \cup ToSet(alloc_pool)) = {}
  /\ \A t, u \in Threads : t # u => Hand(stack[t]) \cap Hand(stack[u]) = {}
  /\ ToSet(allocs) \cup ToSet(alloc_pool) \subseteq Carved
  /\ \A t \in Threads : Hand(stack[t]) \subseteq Carved
  /\ Len(allocs) + Len(alloc_pool) + Cardinality(Hands)
       = ALLOCATION_BATCH_SIZE * (batches - 1) + used
  /\ alloc_count = Len(allocs)

\* When no call was under way at the exit, none is tracked later.
OwedOK ==
  /\ report # <<>> => is_exit_done
  /\ owed # <<>> =>
       /\ is_exit_done
       /\ \A t \in Threads : Where(stack[t]) \notin {"forget", "take", "add"}
       /\ owed \in Seq(Nat) /\ Len(owed) = 2
       /\ Len(allocs) = owed[1] + owed[2]
       /\ report # <<>> => report[1] + report[2] = owed[1] + owed[2]

HTypes ==
  /\ use \in [Addrs -> {"free", "call", "block", "info", "own", "kept"}]
  /\ DOMAIN stack = Threads
  /\ init_lock \in BOOLEAN /\ is_init_done \in BOOLEAN /\ is_exit_done \in BOOLEAN
  /\ init_lock_count \in [Threads -> Nat]
  /\ static_used \in Nat
  /\ default \in {"none", "static", "sym"}

HInv ==
  /\ HTypes /\ Stacks /\ InitOK /\ LivesOK /\ TrackedOK /\ ObjectsOK /\ OwedOK
  /\ ~ aborted

-----------------------------------------------------------------------------
(***************************************************************************)
(* Functions under way                                                     *)
(***************************************************************************)

USE HeapHelpAssumption

LEMMA Stack1 ==
  ASSUME NEW f
  PROVE  /\ <<f>> # <<>> /\ Head(<<f>>) = f /\ Last(<<f>>) = f /\ Tail(<<f>>) = <<>>
         /\ <<f>> \o <<>> = <<f>> /\ Len(<<f>>) = 1 /\ <<f>>[1] = f
  BY DEF Last

LEMMA Stack2 ==
  ASSUME NEW f, NEW g
  PROVE  /\ <<g, f>> # <<>> /\ Head(<<g, f>>) = g /\ Last(<<g, f>>) = f
         /\ Tail(<<g, f>>) = <<f>> /\ Len(<<g, f>>) = 2
         /\ <<g, f>>[1] = g /\ <<g, f>>[2] = f
         /\ <<g>> \o <<f>> = <<g, f>>
  <1>1. <<g>> \in Seq({f, g}) /\ <<f>> \in Seq({f, g}) /\ <<g, f>> \in Seq({f, g})
    OBVIOUS
  <1>2. /\ <<g>> \o <<f>> \in Seq({f, g})
        /\ Len(<<g>> \o <<f>>) = 2
        /\ (<<g>> \o <<f>>)[1] = g /\ (<<g>> \o <<f>>)[2] = f
    BY <1>1, ConcatProperties
  <1>3. Len(<<g, f>>) = 2 /\ <<g, f>>[1] = g /\ <<g, f>>[2] = f
    OBVIOUS
  <1>4. <<g>> \o <<f>> = <<g, f>>
    <2>1. \A i \in 1..2 : (<<g>> \o <<f>>)[i] = <<g, f>>[i]
      BY <1>2, <1>3
    <2> QED BY <1>1, <1>2, <1>3, <2>1, SeqEqual
  <1> QED BY <1>3, <1>4 DEF Last

\* A frame in which one field is changed.
LEMMA StepFields ==
  ASSUME NEW f \in FrameType, NEW s \in Steps_
  PROVE  /\ AtStep(f, s) \in FrameType
         /\ AtStep(f, s).fn = f.fn /\ AtStep(f, s).ptr = f.ptr /\ AtStep(f, s).res = f.res
         /\ AtStep(f, s).obj = f.obj /\ AtStep(f, s).step = s
  BY DEF AtStep, FrameType

LEMMA ResFields ==
  ASSUME NEW f \in FrameType, NEW r \in Addrs \cup {NULL, Static}
  PROVE  LET h == [f EXCEPT !.res = r] IN
         /\ h \in FrameType
         /\ h.fn = f.fn /\ h.ptr = f.ptr /\ h.res = r
         /\ h.obj = f.obj /\ h.step = f.step
  BY DEF FrameType

LEMMA ObjFields ==
  ASSUME NEW f \in FrameType, NEW o \in Object
  PROVE  LET h == [f EXCEPT !.obj = o] IN
         /\ h \in FrameType
         /\ h.fn = f.fn /\ h.ptr = f.ptr /\ h.res = f.res
         /\ h.obj = o /\ h.step = f.step
  BY DEF FrameType

LEMMA FrameFields ==
  ASSUME NEW fn \in Functions, NEW ptr \in Addrs \cup {NULL}
  PROVE  /\ Frame(fn, ptr) \in FrameType
         /\ Frame(fn, ptr).fn = fn /\ Frame(fn, ptr).ptr = ptr /\ Frame(fn, ptr).res = NULL
         /\ Frame(fn, ptr).step = "touch"
  BY DEF Frame, FrameType, Steps_, TouchSteps

\* What is done next with a result.
NextStep(f, d, r) ==
  IF f.fn \in Releasing \/ d > 1 \/ is_exit_done THEN "end"
  ELSE IF f.ptr \in Addrs /\ f.ptr # r THEN "forget"
  ELSE IF f.ptr = NULL /\ r \in Addrs THEN "take" ELSE "end"

LEMMA ReturnedFields ==
  ASSUME NEW f \in FrameType, NEW r \in Addrs \cup {NULL, Static}, NEW d \in Nat
  PROVE  LET h == Returned(f, d, r) IN
         /\ h \in FrameType
         /\ h.fn = f.fn /\ h.ptr = f.ptr /\ h.res = r
         /\ h.obj = f.obj /\ h.step = NextStep(f, d, r)
  <1> DEFINE g == [f EXCEPT !.res = r]
             s == IF g.fn \in Releasing THEN "end"
                  ELSE IF ~ Untracked(d, Old(g)) THEN "forget"
                  ELSE IF ~ Untracked(d, New(g)) THEN "take" ELSE "end"
  <1>1. /\ g \in FrameType
        /\ g.fn = f.fn /\ g.ptr = f.ptr /\ g.res = r
        /\ g.obj = f.obj
    BY ResFields
  <1>2. Returned(f, d, r) = AtStep(g, s)
    BY DEF Returned
  <1> HIDE DEF g
  <1>3. f.ptr \in Addrs \cup {NULL}
    BY DEF FrameType
  <1>4. s = NextStep(f, d, r)
    BY <1>1, <1>3 DEF NextStep, Untracked, Old, New
  <1>5. s \in Steps_
    BY DEF Steps_
  <1> HIDE DEF s
  <1> QED BY <1>1, <1>2, <1>4, <1>5, StepFields

LEMMA Depth1 ==
  ASSUME NEW t, NEW f, stack[t] = <<f>>
  PROVE  depth(t) = IF f.step \in TouchSteps THEN 0 ELSE 1
  <1> DEFINE S == {i \in DOMAIN stack[t] : stack[t][i].step \notin TouchSteps}
  <1>1. S = IF f.step \in TouchSteps THEN {} ELSE {1}
    OBVIOUS
  <1>2. depth(t) = Cardinality(S)
    BY DEF depth
  <1> HIDE DEF S
  <1> QED BY <1>1, <1>2, FS_EmptySet, FS_Singleton

LEMMA PairCount ==
  ASSUME NEW x, NEW y, x # y
  PROVE  Cardinality({x} \cup {y}) = 2
  <1>1. IsFiniteSet({x}) /\ Cardinality({x}) = 1 /\ y \notin {x}
    BY FS_Singleton
  <1>2. Cardinality({x} \cup {y}) = 1 + 1
    BY <1>1, FS_AddElement
  <1> QED BY <1>2

-----------------------------------------------------------------------------
(***************************************************************************)
(* Steps that leave the lists alone                                        *)
(***************************************************************************)

LEMMA ThreadsFinite ==
  ASSUME NEW a
  PROVE  /\ IsFiniteSet(Claimants(a)) /\ Cardinality(Claimants(a)) \in Nat
         /\ IsFiniteSet(Forgetters(a)) /\ Cardinality(Forgetters(a)) \in Nat
         /\ IsFiniteSet(Hands) /\ Cardinality(Hands) \in Nat
  <1>1. /\ Claimants(a) \in SUBSET Threads /\ Forgetters(a) \in SUBSET Threads
        /\ Hands \in SUBSET Threads
    BY DEF Claimants, Forgetters, Hands
  <1> QED BY <1>1, FS_Subset, FS_CardinalityType

LEMMA ListFinite ==
  ASSUME ObjectsOK
  PROVE  /\ IsFiniteSet(DOMAIN mem)
         /\ \A a : IsFiniteSet(Holding(a)) /\ Cardinality(Holding(a)) \in Nat
         /\ Cardinality(DOMAIN mem) = Len(allocs)
  <1>1. Len(allocs) \in Nat /\ DOMAIN allocs = 1..Len(allocs)
    BY LenProperties DEF ObjectsOK
  <1>2. IsFiniteSet(1..Len(allocs)) /\ Cardinality(1..Len(allocs)) = Len(allocs)
    <2> DEFINE n == Len(allocs)
    <2> HIDE DEF n
    <2>1. n \in Nat => IsFiniteSet(1..n) /\ Cardinality(1..n) = n
      BY FS_Interval
    <2> QED BY <1>1, <2>1 DEF n
  <1>3. allocs \in Bijection(1..Len(allocs), DOMAIN mem)
    BY <1>1, LenProperties DEF ObjectsOK, ToSet, IsInjective, Bijection, Injection, Surjection
  <1>4. IsFiniteSet(DOMAIN mem) /\ Cardinality(DOMAIN mem) = Len(allocs)
    BY <1>2, <1>3, FS_Bijection DEF ExistsBijection
  <1>5. \A a : Holding(a) \in SUBSET DOMAIN mem
    BY DEF Holding
  <1> QED BY <1>4, <1>5, FS_Subset, FS_CardinalityType

\* One thread more, one less, or the same.
LEMMA CountMember ==
  ASSUME NEW S, NEW T, IsFiniteSet(S), NEW t, \A u : u # t => (u \in S <=> u \in T)
  PROVE  /\ IsFiniteSet(T) /\ Cardinality(S) \in Nat /\ Cardinality(T) \in Nat
         /\ (t \in S <=> t \in T) => Cardinality(T) = Cardinality(S)
         /\ t \in S /\ t \notin T => Cardinality(T) = Cardinality(S) - 1
         /\ t \notin S /\ t \in T => Cardinality(T) = Cardinality(S) + 1
  <1>1. CASE t \in S <=> t \in T
    <2>1. S = T
      BY <1>1
    <2> QED BY <1>1, <2>1, FS_CardinalityType
  <1>2. CASE t \in S /\ t \notin T
    <2>1. T = S \ {t}
      BY <1>2
    <2>2. IsFiniteSet(T) /\ Cardinality(T) = Cardinality(S) - 1
      BY <1>2, <2>1, FS_RemoveElement
    <2> QED BY <1>2, <2>2, FS_CardinalityType
  <1>3. CASE t \notin S /\ t \in T
    <2>1. T = S \cup {t}
      BY <1>3
    <2>2. IsFiniteSet(T) /\ Cardinality(T) = Cardinality(S) + 1
      BY <1>3, <2>1, FS_AddElement
    <2> QED BY <1>3, <2>2, FS_CardinalityType
  <1> QED BY <1>1, <1>2, <1>3

LEMMA ForgetClaimed ==
  ASSUME NEW t \in Threads, NEW a \in Addrs, a \in Forget(stack[t]), DOMAIN stack = Threads
  PROVE  a \in Claim(stack[t])
  BY DEF Forget, Claim, Where, InFlight, TouchSteps

\* t does something that is none of the tracker's lists' business.
Local(t, s) ==
  /\ t \in Threads
  /\ stack' = [stack EXCEPT ![t] = s]
  /\ UNCHANGED listVars
  /\ UNCHANGED endVars
  /\ use' \in [Addrs -> {"free", "call", "block", "info", "own", "kept"}]
  /\ Hand(s) = Hand(stack[t])
  /\ Where(s) \in {"forget", "take", "add"}
       => ~ is_exit_done \/ Where(stack[t]) \in {"forget", "take", "add"}
  /\ ~ is_exit_done => Forget(s) \subseteq Claim(s)
  /\ is_exit_done => Forget(s) \subseteq Forget(stack[t])

LocalUse(t, s) ==
  /\ \A a \in Lives(s) : use'[a] = "call"
  /\ \A u \in Threads \ {t} : \A a \in Lives(stack[u]) : use'[a] = "call" /\ a \notin Lives(s)
  /\ ~ is_exit_done => \A a \in Addrs :
       (IF a \in Owned' THEN 1 ELSE 0) + (IF a \in Claim(s) THEN 1 ELSE 0)
         = (IF a \in Owned THEN 1 ELSE 0) + (IF a \in Claim(stack[t]) THEN 1 ELSE 0)

LEMMA LocalStep ==
  ASSUME HInv, NEW t, NEW s, Local(t, s), LocalUse(t, s)
  PROVE  (LivesOK /\ TrackedOK /\ ObjectsOK /\ OwedOK)'
  <1> USE DEF HInv, HTypes
  <1>1. stack'[t] = s /\ \A u \in Threads : u # t => stack'[u] = stack[u]
    BY DEF Local
  <1>2. LivesOK'
    BY <1>1 DEF Local, LocalUse, LivesOK
  <1>3. Hands' = Hands
    BY <1>1 DEF Local, Hands
  <1>4. \A u \in Threads : Hand(stack'[u]) = Hand(stack[u])
    BY <1>1 DEF Local
  <1>5. ObjectsOK'
    BY <1>3, <1>4 DEF Local, ObjectsOK, listVars, Carved
  <1>6. OwedOK'
    BY <1>1 DEF Local, OwedOK, endVars, listVars
  <1>7. TrackedOK'
    <2> SUFFICES ASSUME NEW a \in Addrs
                 PROVE  /\ ~ is_exit_done' => Cardinality(Holding(a)')
                             = (IF a \in Owned' THEN 1 ELSE 0) + Cardinality(Claimants(a)')
                        /\ Cardinality(Forgetters(a)') <= Cardinality(Holding(a)')
      BY DEF TrackedOK
    <2>1. Holding(a)' = Holding(a)
      BY DEF Local, listVars, Holding
    <2>2. is_exit_done' = is_exit_done
      BY DEF Local, endVars
    <2>3. ASSUME ~ is_exit_done
          PROVE  Cardinality(Holding(a))
                   = (IF a \in Owned' THEN 1 ELSE 0) + Cardinality(Claimants(a)')
      <3>1. \A u : u # t => (u \in Claimants(a) <=> u \in Claimants(a)')
        BY <1>1 DEF Claimants
      <3>2. t \in Claimants(a) <=> a \in Claim(stack[t])
        BY DEF Claimants, Local
      <3>3. t \in Claimants(a)' <=> a \in Claim(s)
        BY <1>1 DEF Claimants, Local
      <3>4. /\ Cardinality(Claimants(a)) \in Nat /\ Cardinality(Claimants(a)') \in Nat
            /\ Cardinality(Claimants(a)') + (IF a \in Claim(stack[t]) THEN 1 ELSE 0)
                 = Cardinality(Claimants(a)) + (IF a \in Claim(s) THEN 1 ELSE 0)
        <4> DEFINE A == Claimants(a)
                   B == Claimants(a)'
        <4>1. IsFiniteSet(A)
          BY ThreadsFinite
        <4>2. \A u : u # t => (u \in A <=> u \in B)
          BY <3>1
        <4> HIDE DEF A, B
        <4>3. /\ Cardinality(A) \in Nat /\ Cardinality(B) \in Nat
              /\ (t \in A <=> t \in B) => Cardinality(B) = Cardinality(A)
              /\ t \in A /\ t \notin B => Cardinality(B) = Cardinality(A) - 1
              /\ t \notin A /\ t \in B => Cardinality(B) = Cardinality(A) + 1
          BY <4>1, <4>2, CountMember
        <4>4. (t \in A <=> a \in Claim(stack[t])) /\ (t \in B <=> a \in Claim(s))
          BY <3>2, <3>3 DEF A, B
        <4>5. /\ Cardinality(A) \in Nat /\ Cardinality(B) \in Nat
              /\ Cardinality(B) + (IF a \in Claim(stack[t]) THEN 1 ELSE 0)
                   = Cardinality(A) + (IF a \in Claim(s) THEN 1 ELSE 0)
          BY <4>3, <4>4
        <4> QED BY <4>5 DEF A, B
      <3>5. (IF a \in Owned' THEN 1 ELSE 0) + (IF a \in Claim(s) THEN 1 ELSE 0)
              = (IF a \in Owned THEN 1 ELSE 0) + (IF a \in Claim(stack[t]) THEN 1 ELSE 0)
        BY <2>3 DEF LocalUse
      <3>6. Cardinality(Holding(a)) = (IF a \in Owned THEN 1 ELSE 0) + Cardinality(Claimants(a))
        BY <2>3 DEF TrackedOK
      <3> QED BY <3>4, <3>5, <3>6
    <2>4. CASE ~ is_exit_done
      <3>1. \A u \in Threads : a \in Forget(stack'[u]) => a \in Claim(stack'[u])
        BY <1>1, <2>4, ForgetClaimed DEF Local
      <3>2. Forgetters(a)' \in SUBSET Claimants(a)'
        BY <3>1 DEF Forgetters, Claimants
      <3>3. Claimants(a)' \in SUBSET Threads
        BY DEF Claimants
      <3>4. /\ Cardinality(Forgetters(a)') <= Cardinality(Claimants(a)')
            /\ Cardinality(Forgetters(a)') \in Nat /\ Cardinality(Claimants(a)') \in Nat
        BY <3>2, <3>3, FS_Subset, FS_CardinalityType
      <3> QED BY <2>1, <2>2, <2>3, <2>4, <3>4
    <2>5. CASE is_exit_done
      <3>1. Forgetters(a)' \in SUBSET Forgetters(a)
        BY <1>1, <2>5 DEF Local, Forgetters
      <3>2. /\ Cardinality(Forgetters(a)') <= Cardinality(Forgetters(a))
            /\ Cardinality(Forgetters(a)') \in Nat
        BY <3>1, ThreadsFinite, FS_Subset, FS_CardinalityType
      <3>3. Cardinality(Forgetters(a)) <= Cardinality(Holding(a))
        BY DEF TrackedOK
      <3>4. Cardinality(Holding(a)) \in Nat
        BY ListFinite
      <3> QED BY <2>1, <2>2, <2>5, <3>2, <3>3, <3>4, ThreadsFinite
    <2> QED BY <2>4, <2>5
  <1> QED BY <1>2, <1>5, <1>6, <1>7

\* ... and allocates and frees nothing.
LEMMA SilentStep ==
  ASSUME HInv, NEW t, NEW s, Local(t, s), UNCHANGED use,
         Lives(s) \subseteq Lives(stack[t]), ~ is_exit_done => Claim(s) = Claim(stack[t])
  PROVE  (LivesOK /\ TrackedOK /\ ObjectsOK /\ OwedOK)'
  <1>1. LocalUse(t, s)
    BY DEF LocalUse, Local, HInv, LivesOK, Owned
  <1> QED BY <1>1, LocalStep

-----------------------------------------------------------------------------
(***************************************************************************)
(* What becomes of a stack                                                 *)
(***************************************************************************)

\* h inside of f.
Within(h, f) == <<h, f>>

\* The call of the program that t is in is f.
Outer(t, f) ==
  /\ Where(stack[t]) = f.step
  /\ Claim(stack[t]) = InFlight(f) \cap Addrs
  /\ Hand(stack[t]) = IF f.step = "add" THEN {f.obj} ELSE {}

LEMMA Shapes ==
  ASSUME Stacks, NEW t \in Threads, stack[t] # <<>>
  PROVE  \/ \E f : stack[t] = <<f>> /\ OuterOK(t, f)
         \/ \E f, g : stack[t] = Within(g, f) /\ OuterOK(t, f) /\ InnerOK(g, f)
  BY DEF Stacks, StackOK, Within

LEMMA Concat1 ==
  ASSUME NEW f
  PROVE  \A h : <<h>> \o <<f>> = Within(h, f)
  <1>1. ASSUME NEW h PROVE <<h>> \o <<f>> = Within(h, f)
    <2>1. <<h>> \o <<f>> = <<h, f>>
      BY Stack2, Zenon
    <2> QED BY <2>1, Zenon DEF Within
  <1> QED BY <1>1

LEMMA Alone ==
  ASSUME NEW t \in Threads, NEW f, stack[t] = <<f>>
  PROVE  /\ Busy(t) /\ Top(t) = f /\ Where(stack[t]) = f.step /\ Outer(t, f)
         /\ \A h : SetTop(t, h) => stack' = [stack EXCEPT ![t] = <<h>>]
         /\ \A fn, ptr : Push(t, fn, ptr)
              => stack' = [stack EXCEPT ![t] = Within(Frame(fn, ptr), f)]
         /\ Lives(stack[t]) = LiveOf(f)
         /\ Claim(stack[t]) = InFlight(f) \cap Addrs
         /\ Forget(stack[t]) = IF f.step = "forget" THEN {f.ptr} ELSE {}
         /\ Hand(stack[t]) = IF f.step = "add" THEN {f.obj} ELSE {}
  <1>1. stack[t] # <<>> /\ Head(stack[t]) = f /\ Last(stack[t]) = f /\ Tail(stack[t]) = <<>>
    BY Stack1
  <1>2. \A h : <<h>> \o Tail(stack[t]) = <<h>>
    BY <1>1, Stack1
  <1>3. \A h : <<h>> \o stack[t] = Within(h, f)
    BY Concat1
  <1> QED BY <1>1, <1>2, <1>3
          DEF Busy, Top, Where, SetTop, Push, Lives, Claim, Forget, Hand, Outer

LEMMA Inside ==
  ASSUME NEW t \in Threads, NEW f, NEW g, stack[t] = Within(g, f)
  PROVE  /\ Busy(t) /\ Top(t) = g /\ Where(stack[t]) = f.step /\ Outer(t, f)
         /\ Tail(stack[t]) = <<f>>
         /\ \A h : SetTop(t, h) => stack' = [stack EXCEPT ![t] = Within(h, f)]
         /\ Lives(stack[t]) = LiveOf(g) \cup (IF f.step \in {"init", "add"} THEN LiveOf(f) ELSE {})
         /\ Claim(stack[t]) = InFlight(f) \cap Addrs
         /\ Forget(stack[t]) = IF f.step = "forget" THEN {f.ptr} ELSE {}
  <1>0. <<g, f>> # <<>> /\ Head(<<g, f>>) = g /\ Last(<<g, f>>) = f /\ Tail(<<g, f>>) = <<f>>
    BY Stack2, Zenon
  <1>1. stack[t] # <<>> /\ Head(stack[t]) = g /\ Last(stack[t]) = f /\ Tail(stack[t]) = <<f>>
    BY <1>0, Zenon DEF Within
  <1>2. \A h : <<h>> \o Tail(stack[t]) = Within(h, f)
    BY <1>1, Concat1
  <1> QED BY <1>1, <1>2 DEF Busy, Top, Where, SetTop, Lives, Claim, Forget, Hand, Outer

LEMMA Depth2 ==
  ASSUME NEW t, NEW f, NEW g, stack[t] = Within(g, f)
  PROVE  depth(t) = (IF f.step \in TouchSteps THEN 0 ELSE 1)
                    + (IF g.step \in TouchSteps THEN 0 ELSE 1)
  <1> DEFINE S == {i \in DOMAIN stack[t] : stack[t][i].step \notin TouchSteps}
  <1>0. depth(t) = Cardinality(S)
    BY DEF depth
  <1>1. DOMAIN stack[t] = {1, 2} /\ stack[t][1] = g /\ stack[t][2] = f
    BY DEF Within
  <1>2. S = (IF g.step \in TouchSteps THEN {} ELSE {1})
            \cup (IF f.step \in TouchSteps THEN {} ELSE {2})
    BY <1>1
  <1> HIDE DEF S
  <1>3. Cardinality({1}) = 1 /\ Cardinality({2}) = 1 /\ Cardinality({}) = 0
    BY FS_EmptySet, FS_Singleton
  <1>4. Cardinality({1} \cup {2}) = 2
    <2>1. 1 # 2
      OBVIOUS
    <2> QED BY <2>1, PairCount, Zenon
  <1>5. {1} \cup {} = {1} /\ {} \cup {2} = {2} /\ {} \cup {} = {}
    OBVIOUS
  <1> QED BY <1>0, <1>2, <1>3, <1>4, <1>5

LEMMA Views1 ==
  ASSUME NEW f
  PROVE  /\ Where(<<f>>) = f.step
         /\ Lives(<<f>>) = LiveOf(f) /\ Claim(<<f>>) = InFlight(f) \cap Addrs
         /\ Forget(<<f>>) = IF f.step = "forget" THEN {f.ptr} ELSE {}
         /\ Hand(<<f>>) = IF f.step = "add" THEN {f.obj} ELSE {}
  BY Stack1 DEF Where, Lives, Claim, Forget, Hand

LEMMA Views2 ==
  ASSUME NEW f, NEW g
  PROVE  /\ Where(<<g, f>>) = f.step
         /\ Lives(<<g, f>>) = LiveOf(g) \cup (IF f.step \in {"init", "add"} THEN LiveOf(f) ELSE {})
         /\ Claim(<<g, f>>) = InFlight(f) \cap Addrs
         /\ Forget(<<g, f>>) = IF f.step = "forget" THEN {f.ptr} ELSE {}
         /\ Hand(<<g, f>>) = IF f.step = "add" THEN {f.obj} ELSE {}
  <1>1. <<g, f>> # <<>> /\ Head(<<g, f>>) = g /\ Last(<<g, f>>) = f
    BY Stack2, Zenon
  <1> DEFINE s == <<g, f>>
  <1> HIDE DEF s
  <1>2. s # <<>> /\ Head(s) = g /\ Last(s) = f
    BY <1>1 DEF s
  <1>3. /\ Where(s) = f.step
        /\ Lives(s) = LiveOf(g) \cup (IF f.step \in {"init", "add"} THEN LiveOf(f) ELSE {})
        /\ Claim(s) = InFlight(f) \cap Addrs
        /\ Forget(s) = IF f.step = "forget" THEN {f.ptr} ELSE {}
        /\ Hand(s) = IF f.step = "add" THEN {f.obj} ELSE {}
    BY <1>2 DEF Where, Lives, Claim, Forget, Hand
  <1> QED BY <1>3 DEF s

\* The steps that a function inside of another one does not take.
LEMMA OuterAt ==
  ASSUME Stacks, NEW t \in Threads, NEW step, At(t, step),
         step \in {"lock", "init", "done", "unlock", "forget", "take", "add"}
  PROVE  \E f : stack[t] = <<f>> /\ OuterOK(t, f) /\ f.step = step
  <1>1. ASSUME NEW f, NEW g, stack[t] = Within(g, f), InnerOK(g, f) PROVE FALSE
    BY <1>1, Inside DEF At, InnerOK
  <1>2. ASSUME NEW f, stack[t] = <<f>>, OuterOK(t, f) PROVE f.step = step
    BY <1>2, Alone DEF At
  <1> QED BY <1>1, <1>2, Shapes DEF At, Busy

LEMMA StacksStep ==
  ASSUME HInv, NEW t \in Threads, NEW s, stack' = [stack EXCEPT ![t] = s],
         UNCHANGED <<is_init_done, static_used>>, StackOK(t, s)
  PROVE  Stacks'
  <1>1. stack'[t] = s /\ \A u \in Threads : u # t => stack'[u] = stack[u]
    BY DEF HInv, HTypes
  <1>2. \A u, r : StackOK(u, r)' <=> StackOK(u, r)
    BY DEF StackOK, OuterOK, InnerOK
  <1>3. \A u \in Threads : StackOK(u, stack'[u])
    BY <1>1 DEF HInv, Stacks
  <1> QED BY <1>2, <1>3 DEF Stacks

\* t does not move in the initialisation.
InitUnmoved(t, s) ==
  \/ Where(s) = Where(stack[t])
  \/ /\ Where(s) \notin {"init", "done", "unlock"}
     /\ is_init_done \/ Where(stack[t]) \notin {"init", "done"}

LEMMA InitKept ==
  ASSUME HInv, NEW t \in Threads, NEW s, stack' = [stack EXCEPT ![t] = s],
         UNCHANGED <<init_lock, init_lock_count, is_init_done, default>>,
         InitUnmoved(t, s)
  PROVE  InitOK'
  BY DEF HInv, HTypes, InitOK, InitUnmoved

\* A step that concerns one stack only.
LEMMA StackOnly ==
  ASSUME HInv, NEW t, NEW s, Local(t, s), UNCHANGED use, UNCHANGED initVars, ~ aborted',
         StackOK(t, s), Lives(s) \subseteq Lives(stack[t]),
         ~ is_exit_done => Claim(s) = Claim(stack[t]),
         InitUnmoved(t, s)
  PROVE  HInv'
  <1>1. (LivesOK /\ TrackedOK /\ ObjectsOK /\ OwedOK)'
    BY SilentStep
  <1>2. t \in Threads /\ stack' = [stack EXCEPT ![t] = s]
    BY DEF Local
  <1>3. Stacks'
    BY <1>2, StacksStep DEF initVars
  <1>4. InitOK'
    BY <1>2, InitKept DEF initVars
  <1>5. HTypes'
    BY <1>2 DEF HInv, HTypes, initVars, Local, endVars
  <1> QED BY <1>1, <1>3, <1>4, <1>5 DEF HInv

\* ... of a function that no other one has called,
LEMMA OuterGoes ==
  ASSUME HInv, NEW t \in Threads, NEW f, NEW h, stack[t] = <<f>>, OuterOK(t, h),
         stack' = [stack EXCEPT ![t] = <<h>>],
         UNCHANGED <<use, initVars, endVars, listVars, aborted>>,
         f.step \notin {"add", "init", "done"},
         h.step \notin {"add", "init", "done", "unlock"},
         h.step = "take" => ~ is_exit_done,
         h.step = "forget" => ~ is_exit_done,
         LiveOf(h) \subseteq LiveOf(f), ~ is_exit_done => InFlight(h) = InFlight(f)
  PROVE  HInv'
  <1>1. /\ Lives(stack[t]) = LiveOf(f) /\ Claim(stack[t]) = InFlight(f) \cap Addrs
        /\ Where(stack[t]) = f.step /\ Hand(stack[t]) = {}
    BY Alone
  <1>2. /\ Lives(<<h>>) = LiveOf(h) /\ Claim(<<h>>) = InFlight(h) \cap Addrs
        /\ Where(<<h>>) = h.step /\ Hand(<<h>>) = {}
        /\ Forget(<<h>>) = IF h.step = "forget" THEN {h.ptr} ELSE {}
    BY Views1
  <1>3. ~ is_exit_done => Forget(<<h>>) \subseteq Claim(<<h>>)
    BY <1>2 DEF InFlight, TouchSteps, OuterOK, FrameOK
  <1>4. StackOK(t, <<h>>)
    BY DEF StackOK
  <1>5. UNCHANGED use /\ UNCHANGED initVars /\ UNCHANGED endVars /\ UNCHANGED listVars
        /\ ~ aborted'
    BY DEF HInv
  <1>6. use' \in [Addrs -> {"free", "call", "block", "info", "own", "kept"}]
    BY <1>5 DEF HInv, HTypes
  <1> DEFINE s == <<h>>
  <1>7. stack' = [stack EXCEPT ![t] = s]
    OBVIOUS
  <1> HIDE DEF s
  <1>8. /\ Lives(s) = LiveOf(h) /\ Claim(s) = InFlight(h) \cap Addrs
        /\ Where(s) = h.step /\ Hand(s) = {}
        /\ Forget(s) = IF h.step = "forget" THEN {h.ptr} ELSE {}
        /\ ~ is_exit_done => Forget(s) \subseteq Claim(s)
        /\ StackOK(t, s)
    BY <1>2, <1>3, <1>4 DEF s
  <1>9. Local(t, s)
    BY <1>1, <1>5, <1>6, <1>7, <1>8 DEF Local
  <1>10. InitUnmoved(t, s)
    BY <1>1, <1>8 DEF InitUnmoved
  <1>11. /\ Lives(s) \subseteq Lives(stack[t])
         /\ ~ is_exit_done => Claim(s) = Claim(stack[t])
    BY <1>1, <1>8
  <1> QED BY <1>5, <1>8, <1>9, <1>10, <1>11, StackOnly

LEMMA InnerLocal ==
  ASSUME HInv, NEW t \in Threads, NEW f, NEW h, NEW s, s = Within(h, f),
         Outer(t, f), f.step # "forget",
         stack' = [stack EXCEPT ![t] = s], UNCHANGED listVars, UNCHANGED endVars,
         use' \in [Addrs -> {"free", "call", "block", "info", "own", "kept"}]
  PROVE  /\ Local(t, s) /\ InitUnmoved(t, s) /\ Claim(s) = Claim(stack[t])
         /\ Lives(s) = LiveOf(h) \cup (IF f.step \in {"init", "add"} THEN LiveOf(f) ELSE {})
  <1>1. /\ Where(s) = f.step /\ Claim(s) = InFlight(f) \cap Addrs
        /\ Lives(s) = LiveOf(h) \cup (IF f.step \in {"init", "add"} THEN LiveOf(f) ELSE {})
        /\ Forget(s) = IF f.step = "forget" THEN {f.ptr} ELSE {}
        /\ Hand(s) = IF f.step = "add" THEN {f.obj} ELSE {}
    BY Views2, Zenon DEF Within
  <1>2. /\ Where(s) = Where(stack[t]) /\ Hand(s) = Hand(stack[t])
        /\ Claim(s) = Claim(stack[t]) /\ Forget(s) = {}
    BY <1>1, Zenon DEF Outer
  <1>3. Local(t, s)
    BY <1>2, Zenon DEF Local
  <1>4. InitUnmoved(t, s)
    BY <1>2, Zenon DEF InitUnmoved
  <1> QED BY <1>1, <1>2, <1>3, <1>4, Zenon

LEMMA InnerGoes ==
  ASSUME HInv, NEW t \in Threads, NEW f, NEW h, Outer(t, f), f.step # "forget",
         OuterOK(t, f), InnerOK(h, f), stack' = [stack EXCEPT ![t] = Within(h, f)],
         UNCHANGED <<use, initVars, endVars, listVars, aborted>>,
         LiveOf(h) \cup (IF f.step \in {"init", "add"} THEN LiveOf(f) ELSE {}) \subseteq Lives(stack[t])
  PROVE  HInv'
  <1>1. UNCHANGED use /\ UNCHANGED initVars /\ UNCHANGED endVars /\ UNCHANGED listVars
        /\ ~ aborted'
    BY DEF HInv
  <1>2. use' \in [Addrs -> {"free", "call", "block", "info", "own", "kept"}]
    BY <1>1 DEF HInv, HTypes
  <1> DEFINE s == Within(h, f)
  <1>3. stack' = [stack EXCEPT ![t] = s]
    OBVIOUS
  <1>4. StackOK(t, s)
    BY DEF StackOK, Within
  <1> HIDE DEF s
  <1>5. s = Within(h, f)
    BY DEF s
  <1>6. /\ Local(t, s) /\ InitUnmoved(t, s) /\ Claim(s) = Claim(stack[t])
        /\ Lives(s) = LiveOf(h) \cup (IF f.step \in {"init", "add"} THEN LiveOf(f) ELSE {})
    BY <1>1, <1>2, <1>3, <1>5, InnerLocal
  <1>7. Lives(s) \subseteq Lives(stack[t])
    BY <1>6, Zenon
  <1>8. ~ is_exit_done => Claim(s) = Claim(stack[t])
    BY <1>6
  <1> QED BY <1>1, <1>4, <1>6, <1>7, <1>8, StackOnly, Zenon

LEMMA TouchStep ==
  ASSUME HInv, NEW t \in Threads, heaph_touch(t)
  PROVE  HInv'
  <1>0. stack[t] # <<>> /\ Top(t).step = "touch"
    BY DEF heaph_touch, At, Busy
  <1> DEFINE st == IF Touched(t) THEN AfterTouch(t) ELSE "lock"
  <1>1. SetTop(t, AtStep(Top(t), st)) /\ UNCHANGED <<use, initVars, endVars, listVars, aborted>>
    BY DEF heaph_touch, Goto
  <1>2. CASE \E f : stack[t] = <<f>> /\ OuterOK(t, f)
    <2> PICK f : stack[t] = <<f>> /\ OuterOK(t, f)
      BY <1>2
    <2>1. Top(t) = f /\ f.step = "touch" /\ Where(stack[t]) = "touch"
          /\ f \in FrameType /\ FrameOK(f)
      BY <1>0, Alone DEF OuterOK, FrameOK
    <2>2. depth(t) = 0
      BY <2>1, Depth1 DEF TouchSteps
    <2>3. Touched(t) <=> is_init_done
      <3>1. is_init_done \/ init_lock_count[t] = 0
        BY <2>1 DEF HInv, InitOK, OuterOK
      <3> QED BY <3>1 DEF Touched
    <2>4. st = IF ~ is_init_done THEN "lock"
               ELSE IF f.fn \in Releasing /\ ~ is_exit_done THEN "forget" ELSE "default"
      <3>1. f.fn \in Releasing => (Untracked(depth(t) + 1, f.ptr) <=> is_exit_done)
        BY <2>1, <2>2 DEF Untracked, FrameOK
      <3> QED BY <2>1, <2>3, <3>1 DEF AfterTouch
    <2> HIDE DEF st
    <2> DEFINE h == AtStep(f, st)
    <2>5. /\ h \in FrameType /\ h.fn = f.fn /\ h.ptr = f.ptr /\ h.res = f.res
          /\ h.obj = f.obj /\ h.step = st
      BY <2>1, <2>4, StepFields DEF Steps_, TouchSteps
    <2>6. stack' = [stack EXCEPT ![t] = <<h>>]
      BY <1>1, <2>1, Alone
    <2> HIDE DEF h
    <2>7. FrameOK(h)
      BY <2>1, <2>4, <2>5 DEF FrameOK
    <2>8. OuterOK(t, h)
      BY <2>1, <2>4, <2>5, <2>7 DEF OuterOK
    <2>9. LiveOf(h) \subseteq LiveOf(f) /\ (~ is_exit_done => InFlight(h) = InFlight(f))
      BY <2>1, <2>4, <2>5 DEF LiveOf, InFlight, TouchSteps
    <2> QED BY <1>1, <2>1, <2>4, <2>5, <2>6, <2>8, <2>9, OuterGoes
  <1>3. CASE \E f, g : stack[t] = Within(g, f) /\ OuterOK(t, f) /\ InnerOK(g, f)
    <2> PICK f, g : stack[t] = Within(g, f) /\ OuterOK(t, f) /\ InnerOK(g, f)
      BY <1>3
    <2>0. /\ Top(t) = g /\ Where(stack[t]) = f.step /\ Outer(t, f)
          /\ \A h : SetTop(t, h) => stack' = [stack EXCEPT ![t] = Within(h, f)]
          /\ Lives(stack[t]) = LiveOf(g) \cup (IF f.step \in {"init", "add"} THEN LiveOf(f) ELSE {})
      BY Inside
    <2>1. g.step = "touch" /\ g \in FrameType /\ FrameOK(g)
      BY <1>0, <2>0 DEF InnerOK, FrameOK
    <2>2. Touched(t)
      <3>1. f.step = "init" => ~ is_init_done /\ t = Main
        BY DEF OuterOK
      <3>2. f.step # "init" => is_init_done
        BY DEF OuterOK, InnerOK
      <3>3. f.step = "init" => init_lock_count[t] = 1
        BY <2>0, <3>1 DEF HInv, InitOK
      <3> QED BY <3>2, <3>3 DEF Touched
    <2>3. \/ f.step = "init" /\ g.fn = "calloc"
          \/ f.step \in {"default", "add"} /\ depth(t) = 1
      <3>1. depth(t) = (IF f.step \in TouchSteps THEN 0 ELSE 1)
                       + (IF g.step \in TouchSteps THEN 0 ELSE 1)
        BY Depth2
      <3>2. g.step \in TouchSteps
        BY <2>1 DEF TouchSteps
      <3>3. f.step \in {"default", "add"} => depth(t) = 1 + 0
        BY <3>1, <3>2 DEF TouchSteps
      <3> QED BY <3>3 DEF InnerOK
    <2>4. st = "default"
      BY <2>0, <2>1, <2>2, <2>3 DEF AfterTouch, Releasing, Untracked
    <2> HIDE DEF st
    <2> DEFINE h == AtStep(g, st)
    <2>5. /\ h \in FrameType /\ h.fn = g.fn /\ h.ptr = g.ptr /\ h.res = g.res
          /\ h.obj = g.obj /\ h.step = "default"
      BY <2>1, <2>4, StepFields DEF Steps_
    <2>6. stack' = [stack EXCEPT ![t] = Within(h, f)]
      BY <1>1, <2>0
    <2> HIDE DEF h
    <2>7. FrameOK(h)
      BY <2>1, <2>5 DEF FrameOK
    <2>8. LiveOf(h) = LiveOf(g)
      BY <2>1, <2>5 DEF LiveOf
    <2>9. InnerOK(h, f)
      BY <2>1, <2>5, <2>7, <2>8 DEF InnerOK
    <2>10. LiveOf(h) \cup (IF f.step \in {"init", "add"} THEN LiveOf(f) ELSE {}) \subseteq Lives(stack[t])
      BY <2>0, <2>8
    <2>11. f.step # "forget"
      BY <2>3
    <2> QED BY <1>1, <2>0, <2>6, <2>9, <2>10, <2>11, InnerGoes
  <1> QED BY <1>0, <1>2, <1>3, Shapes DEF HInv

\* f has the tracker's function fn called.
LEMMA EnterStep ==
  ASSUME HInv, NEW t \in Threads, NEW f, stack[t] = <<f>>, OuterOK(t, f), f.step # "forget",
         NEW fn \in Functions, NEW ptr \in Addrs \cup {NULL}, Push(t, fn, ptr),
         UNCHANGED <<use, initVars, endVars, listVars, aborted>>,
         InnerOK(Frame(fn, ptr), f), {ptr} \cap Addrs \subseteq LiveOf(f)
  PROVE  HInv'
  <1> DEFINE g == Frame(fn, ptr)
  <1>1. g.ptr = ptr /\ g.step = "touch"
    BY FrameFields
  <1>2. InnerOK(g, f)
    OBVIOUS
  <1>3. stack' = [stack EXCEPT ![t] = Within(g, f)]
    BY Alone
  <1> HIDE DEF g
  <1>4. LiveOf(g) = {ptr} \cap Addrs
    BY <1>1 DEF LiveOf
  <1>5. Outer(t, f) /\ Lives(stack[t]) = LiveOf(f)
    BY Alone
  <1>6. LiveOf(g) \cup (IF f.step \in {"init", "add"} THEN LiveOf(f) ELSE {}) \subseteq Lives(stack[t])
    BY <1>4, <1>5
  <1> QED BY <1>2, <1>3, <1>5, <1>6, InnerGoes

LEMMA DlsymStep ==
  ASSUME HInv, NEW t \in Threads, Dlsym(t)
  PROVE  HInv'
  <1> PICK f : stack[t] = <<f>> /\ OuterOK(t, f) /\ f.step = "init"
    BY OuterAt DEF Dlsym, HInv
  <1>1. /\ Push(t, "calloc", NULL) /\ static_used + 1 < static_size
        /\ UNCHANGED <<use, initVars, endVars, listVars, aborted>>
    BY DEF Dlsym
  <1>2. "calloc" \in Functions
    BY DEF Functions
  <1> DEFINE g == Frame("calloc", NULL)
  <1>3. /\ g \in FrameType /\ g.fn = "calloc" /\ g.ptr = NULL /\ g.res = NULL
        /\ g.step = "touch"
    BY <1>2, FrameFields
  <1> HIDE DEF g
  <1>4. InnerOK(g, f)
    BY <1>1, <1>3 DEF InnerOK, FrameOK, Releasing
  <1> QED BY <1>1, <1>2, <1>4, EnterStep DEF g

LEMMA BacktraceStep ==
  ASSUME HInv, NEW t \in Threads, Backtrace(t)
  PROVE  HInv'
  <1> PICK f : stack[t] = <<f>> /\ OuterOK(t, f) /\ f.step = "add"
    BY OuterAt DEF Backtrace, HInv
  <1>1. /\ Push(t, "malloc", NULL)
        /\ UNCHANGED <<use, initVars, endVars, listVars, aborted>>
    BY DEF Backtrace
  <1>2. "malloc" \in Functions
    BY DEF Functions
  <1> DEFINE g == Frame("malloc", NULL)
  <1>3. /\ g \in FrameType /\ g.fn = "malloc" /\ g.ptr = NULL /\ g.res = NULL
        /\ g.step = "touch"
    BY <1>2, FrameFields
  <1> HIDE DEF g
  <1>4. LiveOf(g) = {}
    BY <1>3 DEF LiveOf
  <1>5. InnerOK(g, f)
    BY <1>3, <1>4 DEF InnerOK, FrameOK, Releasing
  <1> QED BY <1>1, <1>2, <1>5, EnterStep DEF g

-----------------------------------------------------------------------------
(***************************************************************************)
(* Initialisation                                                          *)
(***************************************************************************)

\* t goes on with the initialisation.
LEMMA InitStep ==
  ASSUME HInv, NEW t \in Threads, NEW f, stack[t] = <<f>>, OuterOK(t, f),
         f.step \in {"lock", "init", "done", "unlock"},
         NEW st \in {"init", "done", "unlock", "default", "forget"},
         Goto(t, st), UNCHANGED use, UNCHANGED endVars, UNCHANGED listVars,
         st = "forget" => ~ is_exit_done /\ f.fn \in Releasing,
         st = "default" /\ ~ is_exit_done => f.fn \notin Releasing
  PROVE  \E h :
           /\ FrameOK(h) /\ h.step = st /\ h.res = f.res
           /\ stack' = [stack EXCEPT ![t] = <<h>>]
           /\ (LivesOK /\ TrackedOK /\ ObjectsOK /\ OwedOK)'
  <1> DEFINE h == AtStep(f, st)
  <1>1. Top(t) = f /\ Where(stack[t]) = f.step /\ Lives(stack[t]) = LiveOf(f)
        /\ Claim(stack[t]) = InFlight(f) \cap Addrs /\ Hand(stack[t]) = {}
    BY Alone
  <1>2. stack' = [stack EXCEPT ![t] = <<h>>]
    BY <1>1, Alone DEF Goto
  <1>3. f \in FrameType /\ FrameOK(f) /\ st \in Steps_
    BY DEF OuterOK, FrameOK, Steps_, TouchSteps
  <1>4. /\ h \in FrameType /\ h.fn = f.fn /\ h.ptr = f.ptr /\ h.res = f.res
        /\ h.obj = f.obj /\ h.step = st
    BY <1>3, StepFields
  <1> HIDE DEF h
  <1>5. FrameOK(h)
    BY <1>3, <1>4 DEF FrameOK
  <1>6. LiveOf(h) \subseteq LiveOf(f) /\ (~ is_exit_done => InFlight(h) = InFlight(f))
    BY <1>4 DEF LiveOf, InFlight, TouchSteps
  <1>7. /\ Lives(<<h>>) = LiveOf(h) /\ Claim(<<h>>) = InFlight(h) \cap Addrs
        /\ Where(<<h>>) = h.step /\ Hand(<<h>>) = {}
        /\ Forget(<<h>>) = IF h.step = "forget" THEN {h.ptr} ELSE {}
    BY <1>4, Views1
  <1>8. /\ ~ is_exit_done => Forget(<<h>>) \subseteq Claim(<<h>>)
        /\ is_exit_done => Forget(<<h>>) \subseteq Forget(stack[t])
    BY <1>4, <1>5, <1>7 DEF InFlight, TouchSteps, FrameOK
  <1>9. use' \in [Addrs -> {"free", "call", "block", "info", "own", "kept"}]
    BY DEF HInv, HTypes
  <1>10. Local(t, <<h>>)
    BY <1>1, <1>2, <1>4, <1>7, <1>8, <1>9 DEF Local
  <1>11. Lives(<<h>>) \subseteq Lives(stack[t])
         /\ (~ is_exit_done => Claim(<<h>>) = Claim(stack[t]))
    BY <1>1, <1>6, <1>7
  <1>12. (LivesOK /\ TrackedOK /\ ObjectsOK /\ OwedOK)'
    BY <1>10, <1>11, SilentStep
  <1> QED BY <1>2, <1>4, <1>5, <1>12

LEMMA LockStep ==
  ASSUME HInv, NEW t \in Threads, heaph_lock(t)
  PROVE  HInv'
  <1> PICK f : stack[t] = <<f>> /\ OuterOK(t, f) /\ f.step = "lock"
    BY OuterAt DEF heaph_lock, HInv
  <1>1. /\ Goto(t, "init") /\ init_lock' = TRUE /\ default' = "static"
        /\ init_lock_count' = [init_lock_count EXCEPT ![t] = @ + 1]
        /\ UNCHANGED use /\ UNCHANGED endVars /\ UNCHANGED listVars
        /\ UNCHANGED is_init_done /\ UNCHANGED static_used /\ UNCHANGED aborted
    BY DEF heaph_lock
  <1>2. PICK h : /\ FrameOK(h) /\ h.step = "init" /\ h.res = f.res
                 /\ stack' = [stack EXCEPT ![t] = <<h>>]
                 /\ (LivesOK /\ TrackedOK /\ ObjectsOK /\ OwedOK)'
    BY <1>1, InitStep
  <1>3. t = Main /\ ~ is_init_done /\ Where(stack[t]) = "lock" /\ f.res # Static
    BY Alone DEF OuterOK
  <1>4. StackOK(t, <<h>>)
    BY <1>2, <1>3 DEF StackOK, OuterOK
  <1>5. Stacks'
    BY <1>1, <1>2, <1>4, StacksStep
  <1>6. Where(<<h>>) = "init"
    BY <1>2, Views1
  <1>7. init_lock_count[t] = 0
    BY <1>3 DEF HInv, InitOK
  <1>8. \A u \in Threads : Where(stack'[u]) # "unlock"
    BY <1>2, <1>3, <1>6, Shapes, Alone, Inside DEF HInv, HTypes, OuterOK, Where
  <1>9. InitOK'
    BY <1>1, <1>2, <1>3, <1>6, <1>7, <1>8 DEF HInv, HTypes, InitOK
  <1>10. HTypes'
    BY <1>1, <1>2 DEF HInv, HTypes, endVars
  <1> QED BY <1>1, <1>2, <1>5, <1>9, <1>10 DEF HInv

LEMMA OthersIdle ==
  ASSUME HInv, NEW u \in Threads, u # Main
  PROVE  /\ ~ is_init_done => stack[u] = <<>>
         /\ Where(stack[u]) \notin {"lock", "init", "done", "unlock"}
  <1>1. CASE stack[u] = <<>>
    BY <1>1 DEF Where
  <1>2. CASE stack[u] # <<>>
    <2>1. \E f : OuterOK(u, f) /\ Where(stack[u]) = f.step
      BY <1>2, Shapes, Alone, Inside DEF HInv
    <2> QED BY <2>1 DEF OuterOK
  <1> QED BY <1>1, <1>2

LEMMA InitDoneStep ==
  ASSUME HInv, NEW t \in Threads, heaph_init(t)
  PROVE  HInv'
  <1> PICK f : stack[t] = <<f>> /\ OuterOK(t, f) /\ f.step = "init"
    BY OuterAt DEF heaph_init, HInv
  <1>1. /\ Goto(t, "done") /\ default' = "sym"
        /\ UNCHANGED use /\ UNCHANGED endVars /\ UNCHANGED listVars
        /\ UNCHANGED is_init_done /\ UNCHANGED static_used /\ UNCHANGED aborted
        /\ UNCHANGED init_lock /\ UNCHANGED init_lock_count
    BY DEF heaph_init
  <1>2. PICK h : /\ FrameOK(h) /\ h.step = "done" /\ h.res = f.res
                 /\ stack' = [stack EXCEPT ![t] = <<h>>]
                 /\ (LivesOK /\ TrackedOK /\ ObjectsOK /\ OwedOK)'
    BY <1>1, InitStep
  <1>3. t = Main /\ ~ is_init_done /\ Where(stack[t]) = "init" /\ f.res # Static
    BY Alone DEF OuterOK
  <1>4. StackOK(t, <<h>>)
    BY <1>2, <1>3 DEF StackOK, OuterOK
  <1>5. Stacks'
    BY <1>1, <1>2, <1>4, StacksStep
  <1>6. Where(<<h>>) = "done"
    BY <1>2, Views1
  <1>7. init_lock /\ init_lock_count[t] = 1
    BY <1>3 DEF HInv, InitOK
  <1>8. \A u \in Threads : Where(stack'[u]) # "unlock"
    BY <1>2, <1>3, <1>6, OthersIdle DEF HInv, HTypes
  <1>9. InitOK'
    BY <1>1, <1>2, <1>3, <1>6, <1>7, <1>8 DEF HInv, HTypes, InitOK
  <1>10. HTypes'
    BY <1>1, <1>2 DEF HInv, HTypes, endVars
  <1> QED BY <1>1, <1>2, <1>5, <1>9, <1>10 DEF HInv

LEMMA ExchangeStep ==
  ASSUME HInv, NEW t \in Threads, ExchangeDone(t)
  PROVE  HInv'
  <1> PICK f : stack[t] = <<f>> /\ OuterOK(t, f) /\ f.step = "done"
    BY OuterAt DEF ExchangeDone, HInv
  <1>1. /\ Goto(t, "unlock") /\ is_init_done' = TRUE /\ aborted' = is_init_done
        /\ UNCHANGED use /\ UNCHANGED endVars /\ UNCHANGED listVars
        /\ UNCHANGED static_used /\ UNCHANGED default
        /\ UNCHANGED init_lock /\ UNCHANGED init_lock_count
    BY DEF ExchangeDone
  <1>2. PICK h : /\ FrameOK(h) /\ h.step = "unlock" /\ h.res = f.res
                 /\ stack' = [stack EXCEPT ![t] = <<h>>]
                 /\ (LivesOK /\ TrackedOK /\ ObjectsOK /\ OwedOK)'
    BY <1>1, InitStep
  <1>3. t = Main /\ ~ is_init_done /\ Where(stack[t]) = "done" /\ f.res # Static
    BY Alone DEF OuterOK
  <1>4. OuterOK(t, h)'
    BY <1>1, <1>2, <1>3 DEF OuterOK
  <1>5. Stacks'
    <2>1. \A u \in Threads : u # t => stack'[u] = <<>>
      BY <1>2, <1>3, OthersIdle DEF HInv, HTypes
    <2>2. stack'[t] = <<h>>
      BY <1>2 DEF HInv, HTypes
    <2>3. StackOK(t, <<h>>)'
      BY <1>4 DEF StackOK
    <2>4. \A u \in Threads : StackOK(u, stack[u])'
      BY <2>1, <2>2, <2>3 DEF StackOK
    <2> QED BY <2>4 DEF Stacks
  <1>6. Where(<<h>>) = "unlock"
    BY <1>2, Views1
  <1>7. init_lock /\ init_lock_count[t] = 1 /\ default = "sym"
    BY <1>3 DEF HInv, InitOK
  <1>8. \A u \in Threads : u # t => Where(stack'[u]) # "unlock"
    BY <1>2, <1>3, OthersIdle DEF HInv, HTypes
  <1>9. InitOK'
    BY <1>1, <1>2, <1>6, <1>7, <1>8 DEF HInv, HTypes, InitOK
  <1>10. HTypes'
    BY <1>1, <1>2 DEF HInv, HTypes, endVars
  <1> QED BY <1>1, <1>2, <1>3, <1>5, <1>9, <1>10 DEF HInv

LEMMA UnlockStep ==
  ASSUME HInv, NEW t \in Threads, heaph_unlock(t)
  PROVE  HInv'
  <1> PICK f : stack[t] = <<f>> /\ OuterOK(t, f) /\ f.step = "unlock"
    BY OuterAt DEF heaph_unlock, HInv
  <1> DEFINE st == AfterTouch(t)
  <1>1. /\ Goto(t, st)
        /\ init_lock_count' = [init_lock_count EXCEPT ![t] = @ - 1]
        /\ init_lock' = (init_lock_count[t] > 1) /\ aborted' = ~ init_lock
        /\ UNCHANGED use /\ UNCHANGED endVars /\ UNCHANGED listVars
        /\ UNCHANGED is_init_done /\ UNCHANGED static_used /\ UNCHANGED default
    BY DEF heaph_unlock
  <1>2. t = Main /\ is_init_done /\ Where(stack[t]) = "unlock" /\ f.res # Static
        /\ Top(t) = f /\ FrameOK(f) /\ f \in FrameType
    BY Alone DEF OuterOK, FrameOK
  <1>3. st = IF f.fn \in Releasing /\ ~ is_exit_done THEN "forget" ELSE "default"
    <2>1. depth(t) = 0
      BY Depth1 DEF TouchSteps
    <2>2. f.fn \in Releasing => (Untracked(depth(t) + 1, f.ptr) <=> is_exit_done)
      BY <1>2, <2>1 DEF Untracked, FrameOK
    <2> QED BY <1>2, <2>2 DEF AfterTouch
  <1> HIDE DEF st
  <1>4. st \in {"forget", "default"}
        /\ (st = "forget" => ~ is_exit_done /\ f.fn \in Releasing)
        /\ (st = "default" /\ ~ is_exit_done => f.fn \notin Releasing)
    BY <1>3
  <1>5. PICK h : /\ FrameOK(h) /\ h.step = st /\ h.res = f.res
                 /\ stack' = [stack EXCEPT ![t] = <<h>>]
                 /\ (LivesOK /\ TrackedOK /\ ObjectsOK /\ OwedOK)'
    BY <1>1, <1>4, InitStep
  <1>6. StackOK(t, <<h>>)
    BY <1>2, <1>4, <1>5 DEF StackOK, OuterOK
  <1>7. Stacks'
    BY <1>1, <1>5, <1>6, StacksStep
  <1>8. Where(<<h>>) = st
    BY <1>5, Views1
  <1>9. init_lock /\ init_lock_count[t] = 1
    BY <1>2 DEF HInv, InitOK
  <1>10. \A u \in Threads : Where(stack'[u]) # "unlock"
    BY <1>2, <1>4, <1>5, <1>8, OthersIdle DEF HInv, HTypes
  <1>11. InitOK'
    BY <1>1, <1>2, <1>10 DEF HInv, HTypes, InitOK
  <1>12. HTypes'
    BY <1>1, <1>5, <1>9 DEF HInv, HTypes, endVars
  <1> QED BY <1>1, <1>5, <1>7, <1>9, <1>11, <1>12 DEF HInv

-----------------------------------------------------------------------------
(***************************************************************************)
(* The library's functions                                                 *)
(***************************************************************************)

LEMMA StaticStep ==
  ASSUME HInv, NEW t \in Threads, static_malloc(t)
  PROVE  HInv'
  <1>1. /\ default = "static" /\ stack[t] # <<>> /\ Top(t).step = "default"
        /\ static_used' = static_used + 1 /\ Result(t, Static)
        /\ aborted' = (is_init_done \/ ~ init_lock \/ static_used + 1 >= static_size)
        /\ UNCHANGED use /\ UNCHANGED endVars /\ UNCHANGED listVars /\ UNCHANGED is_init_done
        /\ UNCHANGED init_lock /\ UNCHANGED init_lock_count /\ UNCHANGED default
    BY DEF static_malloc, At, Busy
  <1>2. ~ is_init_done
    BY <1>1 DEF HInv, InitOK
  <1>3. PICK f, g : stack[t] = Within(g, f) /\ OuterOK(t, f) /\ InnerOK(g, f)
    BY <1>1, <1>2, Shapes, Alone DEF HInv, OuterOK
  <1>4. /\ f.step = "init" /\ t = Main /\ g.fn = "calloc" /\ g.ptr = NULL
        /\ FrameOK(g) /\ g \in FrameType
    BY <1>2, <1>3 DEF InnerOK, OuterOK, FrameOK
  <1>5. /\ Top(t) = g /\ Where(stack[t]) = f.step /\ Outer(t, f)
        /\ Lives(stack[t]) = LiveOf(g) \cup (IF f.step \in {"init", "add"} THEN LiveOf(f) ELSE {})
        /\ \A h : SetTop(t, h) => stack' = [stack EXCEPT ![t] = Within(h, f)]
    BY <1>3, Inside
  <1>6. static_used + 1 < static_size
    BY <1>1, <1>3, <1>4, <1>5 DEF InnerOK
  <1>7. init_lock
    BY <1>2, <1>4, <1>5 DEF HInv, InitOK
  <1>8. ~ aborted'
    BY <1>1, <1>2, <1>6, <1>7 DEF HInv, HTypes
  <1>9. depth(t) = 1
    BY <1>1, <1>3, <1>4, <1>5, Depth2 DEF TouchSteps
  <1>10. PICK h : /\ h \in FrameType /\ h.fn = "calloc" /\ h.ptr = NULL /\ h.res = Static
                  /\ h.step = "end" /\ h = Returned(g, depth(t), Static)
    BY <1>4, <1>9, ReturnedFields DEF NextStep
  <1>11. stack' = [stack EXCEPT ![t] = Within(h, f)]
    BY <1>1, <1>5, <1>10 DEF Result
  <1>12. InnerOK(h, f)
    BY <1>3, <1>4, <1>10 DEF InnerOK, FrameOK, Releasing
  <1>13. LiveOf(h) = {}
    BY <1>10 DEF LiveOf, Releasing
  <1> PICK s : s = Within(h, f)
    OBVIOUS
  <1>14. StackOK(t, s)'
    <2>1. InnerOK(h, f)'
      BY <1>12, <1>10 DEF InnerOK
    <2>2. OuterOK(t, f)'
      BY <1>1, <1>3 DEF OuterOK
    <2> QED BY <2>1, <2>2 DEF StackOK, Within
  <1>15. /\ Local(t, s) /\ InitUnmoved(t, s) /\ Claim(s) = Claim(stack[t])
         /\ Lives(s) = LiveOf(h) \cup (IF f.step \in {"init", "add"} THEN LiveOf(f) ELSE {})
    <2>1. use' \in [Addrs -> {"free", "call", "block", "info", "own", "kept"}]
      BY <1>1 DEF HInv, HTypes
    <2>2. stack' = [stack EXCEPT ![t] = s] /\ f.step # "forget"
      BY <1>4, <1>11
    <2>3. UNCHANGED listVars /\ UNCHANGED endVars /\ Outer(t, f)
      BY <1>1, <1>5
    <2> QED BY <2>1, <2>2, <2>3, InnerLocal
  <1>16. (LivesOK /\ TrackedOK /\ ObjectsOK /\ OwedOK)'
    <2>1. Lives(s) \subseteq Lives(stack[t]) /\ Claim(s) = Claim(stack[t]) /\ Local(t, s)
      BY <1>5, <1>13, <1>15
    <2> QED BY <1>1, <2>1, SilentStep
  <1>17. stack' = [stack EXCEPT ![t] = s]
    BY <1>11
  <1>18. Stacks'
    <2>1. \A u \in Threads : u # t => stack'[u] = <<>>
      BY <1>2, <1>4, <1>17, OthersIdle DEF HInv, HTypes
    <2>2. stack'[t] = s
      BY <1>17 DEF HInv, HTypes
    <2>3. \A u \in Threads : StackOK(u, stack[u])'
      BY <2>1, <2>2, <1>14 DEF StackOK
    <2> QED BY <2>3 DEF Stacks
  <1>19. InitOK'
    BY <1>1, <1>15, <1>17, InitKept
  <1>20. HTypes'
    BY <1>1, <1>17 DEF HInv, HTypes, endVars
  <1> QED BY <1>8, <1>16, <1>18, <1>19, <1>20 DEF HInv

\* A step that concerns one stack and what addresses are used for.
LEMMA UseStep ==
  ASSUME HInv, NEW t, NEW s, Local(t, s), LocalUse(t, s), UNCHANGED initVars, ~ aborted',
         StackOK(t, s), InitUnmoved(t, s)
  PROVE  HInv'
  <1>1. (LivesOK /\ TrackedOK /\ ObjectsOK /\ OwedOK)'
    BY LocalStep
  <1>2. t \in Threads /\ stack' = [stack EXCEPT ![t] = s]
    BY DEF Local
  <1>3. Stacks'
    BY <1>2, StacksStep DEF initVars
  <1>4. InitOK'
    BY <1>2, InitKept DEF initVars
  <1>5. HTypes'
    BY <1>2 DEF HInv, HTypes, initVars, Local, endVars
  <1> QED BY <1>1, <1>3, <1>4, <1>5 DEF HInv

LEMMA CallStep ==
  ASSUME HInv, NEW t \in Threads, NEW fn \in Functions, NEW ptr, Call(t, fn, ptr),
         ptr = NULL \/ (ptr \in Addrs /\ use[ptr] \in {"block", "own", "info"}),
         fn \in Releasing => ptr # NULL, fn \notin Releasing \cup Moving => ptr = NULL
  PROVE  HInv'
  <1>1. stack[t] = <<>> /\ (t # Main => is_init_done)
        /\ Push(t, fn, ptr)
        /\ use' = (IF ptr = NULL THEN use ELSE [use EXCEPT ![ptr] = "call"])
        /\ UNCHANGED initVars /\ UNCHANGED endVars /\ UNCHANGED listVars /\ ~ aborted'
    BY DEF Call, Busy, HInv
  <1>2. PICK h : h = Frame(fn, ptr)
    OBVIOUS
  <1>3. /\ h \in FrameType /\ h.fn = fn /\ h.ptr = ptr /\ h.res = NULL /\ h.step = "touch"
    BY <1>2, FrameFields
  <1> PICK s : s = <<h>>
    OBVIOUS
  <1>4. stack' = [stack EXCEPT ![t] = s]
    BY <1>1, <1>2, Stack1 DEF Push
  <1>5. /\ Where(s) = "touch" /\ Lives(s) = {ptr} \cap Addrs /\ Claim(s) = {ptr} \cap Addrs
        /\ Forget(s) = {} /\ Hand(s) = {}
    BY <1>3, Views1 DEF LiveOf, InFlight, TouchSteps
  <1>6. /\ Where(stack[t]) = "idle" /\ Lives(stack[t]) = {} /\ Claim(stack[t]) = {}
        /\ Hand(stack[t]) = {}
    BY <1>1 DEF Where, Lives, Claim, Hand
  <1>7. FrameOK(h)
    BY <1>3 DEF FrameOK
  <1>8. OuterOK(t, h)
    BY <1>1, <1>3, <1>7 DEF OuterOK
  <1>9. StackOK(t, s)
    BY <1>8 DEF StackOK
  <1>10. use' \in [Addrs -> {"free", "call", "block", "info", "own", "kept"}]
    BY <1>1 DEF HInv, HTypes
  <1>11. Local(t, s)
    BY <1>1, <1>4, <1>5, <1>6, <1>10 DEF Local
  <1>12. InitUnmoved(t, s)
    BY <1>5, <1>6 DEF InitUnmoved
  <1>13. LocalUse(t, s)
    <2>1. CASE ptr = NULL
      BY <1>1, <1>5, <1>6, <2>1 DEF LocalUse, HInv, LivesOK, Owned
    <2>2. CASE ptr \in Addrs /\ use[ptr] \in {"block", "own", "info"}
      <3>1. /\ use'[ptr] = "call"
            /\ \A a \in Addrs : a # ptr => use'[a] = use[a]
        BY <1>1, <2>2 DEF HInv, HTypes
      <3>2. \A u \in Threads \ {t} : \A a \in Lives(stack[u]) : use[a] = "call" /\ a # ptr
        BY <2>2 DEF HInv, LivesOK
      <3>3. \A u \in Threads : Lives(stack[u]) \subseteq Addrs
        BY DEF Lives, LiveOf
      <3>4. \A a \in Addrs :
              (IF a \in Owned' THEN 1 ELSE 0) + (IF a \in Claim(s) THEN 1 ELSE 0)
                = (IF a \in Owned THEN 1 ELSE 0) + (IF a \in Claim(stack[t]) THEN 1 ELSE 0)
        BY <1>5, <1>6, <2>2, <3>1 DEF Owned
      <3> QED BY <1>5, <2>2, <3>1, <3>2, <3>3, <3>4 DEF LocalUse
    <2> QED BY <2>1, <2>2
  <1> QED BY <1>1, <1>9, <1>11, <1>12, <1>13, UseStep

LEMMA CallsStep ==
  ASSUME HInv, NEW t \in Threads, Calls(t)
  PROVE  HInv'
  <1>0. /\ "malloc" \in Functions /\ "calloc" \in Functions /\ "strdup" \in Functions
        /\ "realloc" \in Functions /\ "getline" \in Functions /\ "free" \in Functions
        /\ "getaddrinfo" \in Functions /\ "freeaddrinfo" \in Functions
    BY DEF Functions
  <1>1. CASE malloc(t) \/ calloc(t) \/ strdup(t) \/ getaddrinfo(t)
    BY <1>0, <1>1, CallStep DEF malloc, calloc, strdup, getaddrinfo, Releasing
  <1>2. CASE realloc(t) \/ getline(t)
    BY <1>0, <1>2, CallStep DEF realloc, getline, Releasing, Moving, Blocks
  <1>3. CASE free(t) \/ freeaddrinfo(t)
    BY <1>0, <1>3, CallStep DEF free, freeaddrinfo, Releasing
  <1> QED BY <1>1, <1>2, <1>3 DEF Calls

\* f with the result r: it may be its own result, or a function's inside of it.
LEMMA Resulted ==
  ASSUME HInv, NEW t \in Threads, NEW f, OuterOK(t, f), f.step = "default",
         NEW r \in Addrs \cup {NULL}, f.fn \in Releasing => r = NULL
  PROVE  LET h == Returned(f, 1, r) IN
         /\ OuterOK(t, h) /\ h.step \in {"forget", "take", "end"}
         /\ h.step # "end" => ~ is_exit_done
         /\ LiveOf(h) = {r} \cap Addrs
         /\ ~ is_exit_done => InFlight(h) \cap Addrs = InFlight(f) \cap Addrs
         /\ h.step = "forget" => h.ptr = f.ptr /\ f.fn \notin Releasing
  <1> PICK h : h = Returned(f, 1, r)
    OBVIOUS
  <1>1. f \in FrameType /\ FrameOK(f) /\ is_init_done /\ f.res # Static
        /\ f.ptr \in Addrs \cup {NULL}
    BY DEF OuterOK, FrameOK, FrameType
  <1>2. /\ h \in FrameType /\ h.fn = f.fn /\ h.ptr = f.ptr /\ h.res = r
        /\ h.obj = f.obj /\ h.step = NextStep(f, 1, r)
    BY <1>1, ReturnedFields
  <1>3. h.step = IF f.fn \in Releasing \/ is_exit_done THEN "end"
                 ELSE IF f.ptr \in Addrs /\ f.ptr # r THEN "forget"
                 ELSE IF f.ptr = NULL /\ r \in Addrs THEN "take" ELSE "end"
    BY <1>2 DEF NextStep
  <1>4. FrameOK(h)
    BY <1>1, <1>2, <1>3 DEF FrameOK
  <1>5. OuterOK(t, h)
    BY <1>1, <1>2, <1>3, <1>4 DEF OuterOK
  <1>6. LiveOf(h) = {r} \cap Addrs
    BY <1>1, <1>2, <1>3 DEF LiveOf
  <1>7. ~ is_exit_done => InFlight(h) \cap Addrs = InFlight(f) \cap Addrs
    BY <1>1, <1>2, <1>3 DEF InFlight, TouchSteps
  <1>8. /\ h.step \in {"forget", "take", "end"}
        /\ h.step # "end" => ~ is_exit_done
        /\ h.step = "forget" => h.ptr = f.ptr /\ f.fn \notin Releasing
    BY <1>2, <1>3
  <1> QED BY <1>5, <1>6, <1>7, <1>8

\* A function of the library has changed the block p for r.
Exchanged(p, r) ==
  /\ use' \in [Addrs -> {"free", "call", "block", "info", "own", "kept"}]
  /\ r \in Addrs => use'[r] = "call" /\ (r = p \/ use[r] = "free")
  /\ p \in Addrs /\ p # r => use'[p] = "free"
  /\ \A a \in Addrs : a # p /\ a # r => use'[a] = use[a]

LEMMA ExchangedUse ==
  ASSUME HInv, NEW t \in Threads, NEW s, NEW p, NEW r, Exchanged(p, r),
         {p} \cap Addrs \subseteq Lives(stack[t]),
         Lives(s) \subseteq ({r} \cap Addrs) \cup (Lives(stack[t]) \ {p}),
         ~ is_exit_done => Claim(s) = Claim(stack[t])
  PROVE  LocalUse(t, s)
  <1>0. \A u \in Threads : Lives(stack[u]) \subseteq Addrs
    BY DEF Lives, LiveOf
  <1>1. \A a \in Lives(stack[t]) : use[a] = "call"
    BY DEF HInv, LivesOK
  <1>2. \A a \in Lives(s) : use'[a] = "call"
    BY <1>0, <1>1 DEF Exchanged
  <1>3. ASSUME NEW u \in Threads \ {t}, NEW a \in Lives(stack[u])
        PROVE  use'[a] = "call" /\ a \notin Lives(s)
    <2>1. a \in Addrs /\ use[a] = "call" /\ a \notin Lives(stack[t])
      BY <1>0 DEF HInv, LivesOK
    <2>2. a # p /\ a # r
      BY <2>1 DEF Exchanged
    <2> QED BY <2>1, <2>2 DEF Exchanged
  <1>4. \A a \in Addrs : a \in Owned' <=> a \in Owned
    <2>1. p \in Addrs => use[p] = "call"
      BY <1>1
    <2> QED BY <2>1 DEF Exchanged, Owned
  <1> QED BY <1>2, <1>3, <1>4 DEF LocalUse

LEMMA ResultStep ==
  ASSUME HInv, NEW t \in Threads, stack[t] # <<>>, Top(t).step = "default", default = "sym",
         Top(t).fn \notin Releasing, NEW r \in Addrs \cup {NULL}, Result(t, r),
         Exchanged(Top(t).ptr, r),
         UNCHANGED initVars, UNCHANGED endVars, UNCHANGED listVars, ~ aborted'
  PROVE  HInv'
  <1>0. use' \in [Addrs -> {"free", "call", "block", "info", "own", "kept"}]
    BY DEF Exchanged
  <1>1. CASE \E f : stack[t] = <<f>> /\ OuterOK(t, f)
    <2> PICK f : stack[t] = <<f>> /\ OuterOK(t, f)
      BY <1>1
    <2>1. /\ Top(t) = f /\ Outer(t, f) /\ Where(stack[t]) = f.step /\ Hand(stack[t]) = {}
          /\ Lives(stack[t]) = LiveOf(f) /\ Claim(stack[t]) = InFlight(f) \cap Addrs
          /\ \A h : SetTop(t, h) => stack' = [stack EXCEPT ![t] = <<h>>]
      BY Alone
    <2>2. f.step = "default" /\ f.fn \notin Releasing /\ LiveOf(f) = {f.ptr} \cap Addrs
      BY <2>1 DEF LiveOf
    <2>3. depth(t) = 1
      BY <2>2, Depth1 DEF TouchSteps
    <2>4. PICK h : /\ h = Returned(f, 1, r) /\ OuterOK(t, h)
                   /\ h.step \in {"forget", "take", "end"}
                   /\ h.step # "end" => ~ is_exit_done
                   /\ LiveOf(h) = {r} \cap Addrs
                   /\ ~ is_exit_done => InFlight(h) \cap Addrs = InFlight(f) \cap Addrs
                   /\ h.step = "forget" => h.ptr = f.ptr /\ f.fn \notin Releasing
      BY <2>2, Resulted
    <2> PICK s : s = <<h>>
      OBVIOUS
    <2>5. stack' = [stack EXCEPT ![t] = s]
      BY <2>1, <2>3, <2>4 DEF Result
    <2>6. /\ Where(s) = h.step /\ Lives(s) = LiveOf(h) /\ Claim(s) = InFlight(h) \cap Addrs
          /\ Forget(s) = (IF h.step = "forget" THEN {h.ptr} ELSE {}) /\ Hand(s) = {}
      BY <2>4, Views1
    <2>7. ~ is_exit_done => Forget(s) \subseteq Claim(s)
      BY <2>4, <2>6 DEF InFlight, TouchSteps, OuterOK, FrameOK
    <2>8. is_exit_done => Forget(s) = {}
      BY <2>4, <2>6
    <2>9. Local(t, s)
      BY <1>0, <2>1, <2>2, <2>4, <2>5, <2>6, <2>7, <2>8 DEF Local
    <2>10. StackOK(t, s)
      BY <2>4 DEF StackOK
    <2>11. InitUnmoved(t, s)
      BY <2>1, <2>2, <2>4, <2>6 DEF InitUnmoved
    <2>12. LocalUse(t, s)
      <3>1. /\ {f.ptr} \cap Addrs \subseteq Lives(stack[t])
            /\ Lives(s) \subseteq ({r} \cap Addrs) \cup (Lives(stack[t]) \ {f.ptr})
            /\ ~ is_exit_done => Claim(s) = Claim(stack[t])
        BY <2>1, <2>2, <2>4, <2>6
      <3> QED BY <2>1, <3>1, ExchangedUse
    <2> QED BY <2>9, <2>10, <2>11, <2>12, UseStep
  <1>2. CASE \E f, g : stack[t] = Within(g, f) /\ OuterOK(t, f) /\ InnerOK(g, f)
    <2> PICK f, g : stack[t] = Within(g, f) /\ OuterOK(t, f) /\ InnerOK(g, f)
      BY <1>2
    <2>1. /\ Top(t) = g /\ Outer(t, f) /\ Where(stack[t]) = f.step
          /\ Lives(stack[t]) = LiveOf(g) \cup (IF f.step \in {"init", "add"} THEN LiveOf(f) ELSE {})
          /\ \A h : SetTop(t, h) => stack' = [stack EXCEPT ![t] = Within(h, f)]
      BY Inside
    <2>2. /\ g.step = "default" /\ g.fn \notin Releasing /\ LiveOf(g) = {g.ptr} \cap Addrs
          /\ FrameOK(g) /\ g \in FrameType
      BY <2>1 DEF LiveOf, InnerOK, FrameOK
    <2>3. f.step \in {"default", "add"}
      BY <2>1 DEF HInv, InitOK, InnerOK, OuterOK
    <2>4. depth(t) = 2
      <3>1. depth(t) = (IF f.step \in TouchSteps THEN 0 ELSE 1)
                       + (IF g.step \in TouchSteps THEN 0 ELSE 1)
        BY Depth2
      <3>2. f.step \notin TouchSteps /\ g.step \notin TouchSteps
        BY <2>2, <2>3 DEF TouchSteps
      <3> QED BY <3>1, <3>2
    <2>5. PICK h : /\ h = Returned(g, 2, r)
                   /\ h \in FrameType /\ h.fn = g.fn /\ h.ptr = g.ptr /\ h.res = r
                   /\ h.step = "end"
      <3>1. NextStep(g, 2, r) = "end"
        BY DEF NextStep
      <3>2. 2 \in Nat /\ r \in Addrs \cup {NULL, Static}
        OBVIOUS
      <3>3. LET h == Returned(g, 2, r) IN
            /\ h \in FrameType /\ h.fn = g.fn /\ h.ptr = g.ptr /\ h.res = r
            /\ h.step = NextStep(g, 2, r)
        BY <2>2, <3>2, ReturnedFields
      <3> QED BY <3>1, <3>3
    <2> PICK s : s = Within(h, f)
      OBVIOUS
    <2>6. stack' = [stack EXCEPT ![t] = s]
      BY <2>1, <2>4, <2>5 DEF Result
    <2>7. LiveOf(h) = {r} \cap Addrs
      BY <2>2, <2>5 DEF LiveOf
    <2>8. f.step = "add" => LiveOf(h) \cap LiveOf(f) = {} /\ g.ptr = NULL
      <3>1. f.step = "add" => g.ptr = NULL
        BY DEF InnerOK
      <3>2. f.step = "add" => \A a \in LiveOf(f) : use[a] = "call"
        BY <2>1 DEF HInv, LivesOK
      <3> QED BY <2>1, <2>7, <3>1, <3>2 DEF Exchanged
    <2>9. FrameOK(h)
      BY <2>2, <2>5 DEF FrameOK
    <2>10. InnerOK(h, f)
      BY <2>3, <2>5, <2>8, <2>9 DEF InnerOK
    <2>11. StackOK(t, s)
      BY <2>10 DEF StackOK, Within
    <2>12. /\ Local(t, s) /\ InitUnmoved(t, s) /\ Claim(s) = Claim(stack[t])
           /\ Lives(s) = LiveOf(h) \cup (IF f.step \in {"init", "add"} THEN LiveOf(f) ELSE {})
      <3>1. f.step # "forget"
        BY <2>3
      <3> QED BY <1>0, <2>1, <2>6, <3>1, InnerLocal
    <2>13. LocalUse(t, s)
      <3>1. {g.ptr} \cap Addrs \subseteq Lives(stack[t])
        BY <2>1, <2>2
      <3>2. Lives(s) \subseteq ({r} \cap Addrs) \cup (Lives(stack[t]) \ {g.ptr})
        <4>1. LiveOf(f) \subseteq Addrs
          BY DEF LiveOf
        <4> QED BY <2>1, <2>3, <2>7, <2>8, <2>12, <4>1
      <3> QED BY <2>1, <2>12, <3>1, <3>2, ExchangedUse
    <2> QED BY <2>11, <2>12, <2>13, UseStep
  <1> QED BY <1>1, <1>2, Shapes DEF HInv

LEMMA ReleaseStep ==
  ASSUME HInv, NEW t \in Threads, stack[t] # <<>>, Top(t).step = "default", default = "sym",
         SymRelease(t), UNCHANGED initVars, UNCHANGED endVars, UNCHANGED listVars, ~ aborted'
  PROVE  HInv'
  <1>1. Top(t).fn \in Releasing /\ SetTop(t, AtStep(Top(t), "end"))
        /\ use' = [use EXCEPT ![Top(t).ptr] = "free"]
    BY DEF SymRelease, Goto
  <1>2. ASSUME NEW h, NEW f \in FrameType, f.step = "default", f.fn \in Releasing, FrameOK(f),
               h = AtStep(f, "end")
        PROVE  /\ FrameOK(h) /\ h \in FrameType /\ h.fn = f.fn /\ h.ptr = f.ptr
               /\ h.res = f.res /\ h.step = "end" /\ LiveOf(h) = {}
               /\ InFlight(h) = {} /\ InFlight(f) = {}
    <2>1. /\ h \in FrameType /\ h.fn = f.fn /\ h.ptr = f.ptr /\ h.res = f.res
          /\ h.obj = f.obj /\ h.step = "end"
      BY <1>2, StepFields DEF Steps_
    <2>2. FrameOK(h)
      BY <1>2, <2>1 DEF FrameOK
    <2>3. LiveOf(h) = {}
      BY <1>2, <2>1 DEF LiveOf
    <2>4. InFlight(h) = {} /\ InFlight(f) = {}
      BY <1>2, <2>1 DEF InFlight, TouchSteps
    <2> QED BY <2>1, <2>2, <2>3, <2>4
  <1>3. ASSUME Top(t).ptr \in Addrs
        PROVE  Exchanged(Top(t).ptr, NULL)
    BY <1>1, <1>3 DEF Exchanged, HInv, HTypes
  <1>4. CASE \E f : stack[t] = <<f>> /\ OuterOK(t, f)
    <2> PICK f : stack[t] = <<f>> /\ OuterOK(t, f)
      BY <1>4
    <2>1. /\ Top(t) = f /\ Where(stack[t]) = f.step /\ Hand(stack[t]) = {}
          /\ Lives(stack[t]) = LiveOf(f) /\ Claim(stack[t]) = InFlight(f) \cap Addrs
          /\ \A h : SetTop(t, h) => stack' = [stack EXCEPT ![t] = <<h>>]
      BY Alone
    <2>2. /\ f.step = "default" /\ f.fn \in Releasing /\ LiveOf(f) = {f.ptr} \cap Addrs
          /\ f \in FrameType /\ FrameOK(f) /\ f.ptr \in Addrs
      BY <1>1, <2>1 DEF LiveOf, OuterOK, FrameOK
    <2>3. PICK h : h = AtStep(f, "end")
      OBVIOUS
    <2>4. /\ FrameOK(h) /\ h.fn = f.fn /\ h.ptr = f.ptr /\ h.res = f.res /\ h.step = "end"
          /\ LiveOf(h) = {} /\ InFlight(h) = {} /\ InFlight(f) = {}
      BY <1>2, <2>2, <2>3
    <2> PICK s : s = <<h>>
      OBVIOUS
    <2>5. stack' = [stack EXCEPT ![t] = s]
      BY <1>1, <2>1, <2>3
    <2>6. /\ Where(s) = "end" /\ Lives(s) = {} /\ Claim(s) = {}
          /\ Forget(s) = {} /\ Hand(s) = {}
      BY <2>4, Views1
    <2>7. OuterOK(t, h)
      BY <2>2, <2>4 DEF OuterOK
    <2>8. StackOK(t, s)
      BY <2>7 DEF StackOK
    <2>9. Exchanged(f.ptr, NULL)
      BY <1>3, <2>1, <2>2
    <2>10. Local(t, s)
      BY <2>1, <2>2, <2>5, <2>6, <2>9 DEF Local, Exchanged
    <2>11. InitUnmoved(t, s)
      BY <2>1, <2>2, <2>6 DEF InitUnmoved
    <2>12. LocalUse(t, s)
      <3>1. /\ {f.ptr} \cap Addrs \subseteq Lives(stack[t])
            /\ Lives(s) = {} /\ Claim(s) = Claim(stack[t])
        BY <2>1, <2>2, <2>4, <2>6
      <3> QED BY <2>9, <3>1, ExchangedUse
    <2> QED BY <2>8, <2>10, <2>11, <2>12, UseStep
  <1>5. CASE \E f, g : stack[t] = Within(g, f) /\ OuterOK(t, f) /\ InnerOK(g, f)
    <2> PICK f, g : stack[t] = Within(g, f) /\ OuterOK(t, f) /\ InnerOK(g, f)
      BY <1>5
    <2>1. /\ Top(t) = g /\ Outer(t, f) /\ Where(stack[t]) = f.step
          /\ Lives(stack[t]) = LiveOf(g) \cup (IF f.step \in {"init", "add"} THEN LiveOf(f) ELSE {})
          /\ \A h : SetTop(t, h) => stack' = [stack EXCEPT ![t] = Within(h, f)]
      BY Inside
    <2>2. /\ g.step = "default" /\ g.fn \in Releasing /\ LiveOf(g) = {g.ptr} \cap Addrs
          /\ FrameOK(g) /\ g \in FrameType /\ g.ptr \in Addrs
      BY <1>1, <2>1 DEF LiveOf, InnerOK, FrameOK
    <2>3. f.step = "default" /\ g.fn = Inner(f) /\ g.ptr = f.ptr
      BY <2>2 DEF InnerOK, Releasing
    <2>4. PICK h : h = AtStep(g, "end")
      OBVIOUS
    <2>5. /\ FrameOK(h) /\ h.fn = g.fn /\ h.ptr = g.ptr /\ h.res = g.res /\ h.step = "end"
          /\ LiveOf(h) = {}
      BY <1>2, <2>2, <2>4
    <2> PICK s : s = Within(h, f)
      OBVIOUS
    <2>6. stack' = [stack EXCEPT ![t] = s]
      BY <1>1, <2>1, <2>4
    <2>7. InnerOK(h, f)
      BY <2>2, <2>3, <2>5 DEF InnerOK
    <2>8. StackOK(t, s)
      BY <2>7 DEF StackOK, Within
    <2>9. Exchanged(g.ptr, NULL)
      BY <1>3, <2>1, <2>2
    <2>10. /\ Local(t, s) /\ InitUnmoved(t, s) /\ Claim(s) = Claim(stack[t])
           /\ Lives(s) = LiveOf(h) \cup (IF f.step \in {"init", "add"} THEN LiveOf(f) ELSE {})
      <3>1. f.step # "forget"
        BY <2>3
      <3>2. use' \in [Addrs -> {"free", "call", "block", "info", "own", "kept"}]
        BY <2>9 DEF Exchanged
      <3> QED BY <2>1, <2>6, <3>1, <3>2, InnerLocal
    <2>11. LocalUse(t, s)
      <3>1. {g.ptr} \cap Addrs \subseteq Lives(stack[t]) /\ Lives(s) = {}
        BY <2>1, <2>2, <2>3, <2>5, <2>10
      <3> QED BY <2>9, <2>10, <3>1, ExchangedUse
    <2> QED BY <2>8, <2>10, <2>11, UseStep
  <1> QED BY <1>4, <1>5, Shapes DEF HInv

LEMMA PushStep ==
  ASSUME HInv, NEW t \in Threads, stack[t] # <<>>, Top(t).step = "default",
         Inner(Top(t)) # "none", Push(t, Inner(Top(t)), Top(t).ptr),
         UNCHANGED <<use, initVars, endVars, listVars, aborted>>
  PROVE  HInv'
  <1>1. ASSUME NEW f, NEW g, stack[t] = Within(g, f), InnerOK(g, f) PROVE FALSE
    <2>1. Top(t) = g
      BY <1>1, Inside
    <2>2. Inner(g) = "none"
      BY <1>1 DEF InnerOK, Inner, FrameOK, FrameType, Functions
    <2> QED BY <2>1, <2>2
  <1>2. PICK f : stack[t] = <<f>> /\ OuterOK(t, f)
    BY <1>1, Shapes DEF HInv
  <1>3. /\ Top(t) = f /\ f.step = "default" /\ f \in FrameType /\ FrameOK(f)
        /\ f.ptr \in Addrs \cup {NULL}
    BY <1>2, Alone DEF OuterOK, FrameOK, FrameType
  <1>4. PICK fn, ptr : fn = Inner(f) /\ ptr = f.ptr
    OBVIOUS
  <1>5. /\ fn \in {"malloc", "realloc", "free"}
        /\ fn = "free" => f.fn \in Releasing
        /\ fn = "malloc" => f.fn \notin Releasing \cup Moving
        /\ fn = "realloc" => f.fn = "getline"
    BY <1>3, <1>4 DEF Inner, Releasing, Moving
  <1>6. fn \in Functions
    BY <1>5 DEF Functions
  <1>7. PICK g : g = Frame(fn, ptr)
    OBVIOUS
  <1>8. /\ g \in FrameType /\ g.fn = fn /\ g.ptr = ptr /\ g.res = NULL /\ g.step = "touch"
    BY <1>3, <1>4, <1>6, <1>7, FrameFields
  <1>9. FrameOK(g)
    BY <1>3, <1>4, <1>5, <1>8 DEF FrameOK, Releasing, Moving
  <1>10. InnerOK(g, f)
    BY <1>3, <1>4, <1>8, <1>9 DEF InnerOK
  <1>11. {ptr} \cap Addrs \subseteq LiveOf(f)
    BY <1>3, <1>4 DEF LiveOf
  <1>12. Push(t, fn, ptr) /\ ptr \in Addrs \cup {NULL} /\ InnerOK(Frame(fn, ptr), f)
    BY <1>3, <1>4, <1>7, <1>10
  <1>13. f.step # "forget"
    BY <1>3
  <1> QED BY <1>2, <1>6, <1>11, <1>12, <1>13, EnterStep

LEMMA DefaultStep ==
  ASSUME HInv, NEW t \in Threads, CallDefault(t)
  PROVE  HInv'
  <1>1. /\ default = "sym" /\ stack[t] # <<>> /\ Top(t).step = "default"
        /\ UNCHANGED initVars /\ UNCHANGED endVars /\ UNCHANGED listVars /\ ~ aborted'
        /\ UNCHANGED <<initVars, endVars, listVars, aborted>>
    BY DEF CallDefault, At, Busy, HInv
  <1>2. /\ Top(t) \in FrameType /\ FrameOK(Top(t)) /\ Lives(stack[t]) \subseteq Addrs
        /\ Top(t).fn \notin Releasing => {Top(t).ptr} \cap Addrs \subseteq Lives(stack[t])
    <2>1. FrameOK(Top(t)) /\ LiveOf(Top(t)) \subseteq Lives(stack[t])
      <3>1. ASSUME NEW f, stack[t] = <<f>>, OuterOK(t, f)
            PROVE  FrameOK(Top(t)) /\ LiveOf(Top(t)) \subseteq Lives(stack[t])
        BY <3>1, Alone DEF OuterOK
      <3>2. ASSUME NEW f, NEW g, stack[t] = Within(g, f), InnerOK(g, f)
            PROVE  FrameOK(Top(t)) /\ LiveOf(Top(t)) \subseteq Lives(stack[t])
        BY <3>2, Inside DEF InnerOK
      <3> QED BY <1>1, <3>1, <3>2, Shapes DEF HInv
    <2>2. Top(t).fn \notin Releasing => LiveOf(Top(t)) = {Top(t).ptr} \cap Addrs
      BY <1>1 DEF LiveOf
    <2>3. Lives(stack[t]) \subseteq Addrs
      BY DEF Lives, LiveOf
    <2> QED BY <2>1, <2>2, <2>3 DEF FrameOK
  <1>3. use \in [Addrs -> {"free", "call", "block", "info", "own", "kept"}]
        /\ \A a \in Lives(stack[t]) : use[a] = "call"
    BY DEF HInv, HTypes, LivesOK
  <1> PICK p : p = Top(t).ptr
    OBVIOUS
  <1>4. Top(t).fn \notin Releasing /\ p \in Addrs => use[p] = "call"
    BY <1>2, <1>3
  <1>5. CASE SymAllocate(t)
    <2>1. p = NULL /\ Top(t).fn \notin Releasing
      BY <1>2, <1>5 DEF SymAllocate, FrameOK
    <2>2. CASE Result(t, NULL) /\ UNCHANGED use
      <3>1. Exchanged(p, NULL)
        BY <1>3, <2>1, <2>2 DEF Exchanged
      <3> QED BY <1>1, <2>1, <2>2, <3>1, ResultStep
    <2>3. ASSUME NEW a \in Addrs, use[a] = "free", use' = [use EXCEPT ![a] = "call"],
                 Result(t, a)
          PROVE  HInv'
      <3>1. Exchanged(p, a)
        BY <1>3, <2>1, <2>3 DEF Exchanged
      <3> QED BY <1>1, <2>1, <2>3, <3>1, ResultStep
    <2> QED BY <1>5, <2>2, <2>3 DEF SymAllocate
  <1>6. CASE SymResize(t)
    <2>1. p # NULL /\ Top(t).fn \notin Releasing /\ p \in Addrs /\ use[p] = "call"
      BY <1>2, <1>4, <1>6 DEF SymResize, FrameType, Releasing
    <2>2. CASE Result(t, p) /\ UNCHANGED use
      <3>1. Exchanged(p, p)
        BY <1>3, <2>1, <2>2 DEF Exchanged
      <3> QED BY <1>1, <2>1, <2>2, <3>1, ResultStep
    <2>3. ASSUME NEW a \in Addrs, use[a] = "free",
                 use' = [use EXCEPT ![p] = "free", ![a] = "call"], Result(t, a)
          PROVE  HInv'
      <3>1. a # p
        BY <2>1, <2>3
      <3>2. Exchanged(p, a)
        BY <1>3, <2>1, <2>3, <3>1 DEF Exchanged
      <3> QED BY <1>1, <2>1, <2>3, <3>2, ResultStep
    <2>4. CASE use' = [use EXCEPT ![p] = "free"] /\ Result(t, NULL)
      <3>1. Exchanged(p, NULL)
        BY <1>3, <2>1, <2>4 DEF Exchanged
      <3> QED BY <1>1, <2>1, <2>4, <3>1, ResultStep
    <2> QED BY <1>6, <2>2, <2>3, <2>4 DEF SymResize
  <1>7. CASE SymRelease(t)
    BY <1>1, <1>7, ReleaseStep
  <1>8. CASE Inner(Top(t)) # "none" /\ Push(t, Inner(Top(t)), Top(t).ptr) /\ UNCHANGED use
    BY <1>1, <1>8, PushStep
  <1> QED BY <1>5, <1>6, <1>7, <1>8 DEF CallDefault

\* The program has its result.
LEMMA ReturnOuter ==
  ASSUME HInv, NEW t \in Threads, NEW f, stack[t] = <<f>>, OuterOK(t, f), Return(t)
  PROVE  HInv'
  <1>1. /\ Top(t) = f /\ Where(stack[t]) = f.step /\ Lives(stack[t]) = LiveOf(f)
        /\ Claim(stack[t]) = InFlight(f) \cap Addrs
        /\ Hand(stack[t]) = IF f.step = "add" THEN {f.obj} ELSE {}
        /\ Tail(stack[t]) = <<>> /\ Len(stack[t]) = 1
    BY Alone, Stack1
  <1>2. f.step = "end" /\ FrameOK(f) /\ is_init_done
        /\ f.res \in Addrs \cup {NULL}
    BY <1>1 DEF Return, At, OuterOK, FrameOK, FrameType
  <1> PICK s : s = <<>>
    OBVIOUS
  <1>3. stack' = [stack EXCEPT ![t] = s]
    BY <1>1 DEF Return
  <1>4. /\ Where(s) = "idle" /\ Lives(s) = {} /\ Claim(s) = {} /\ Forget(s) = {}
        /\ Hand(s) = {}
    BY DEF Where, Lives, Claim, Forget, Hand
  <1>5. PICK v : /\ v \in {"info", "own", "block"}
                 /\ use' = IF f.res \in Addrs THEN [use EXCEPT ![f.res] = v] ELSE use
    <2>1. UsedFor(t) \in {"info", "own", "block"}
      BY <1>1 DEF UsedFor
    <2>2. use' = IF f.res \in Addrs THEN [use EXCEPT ![f.res] = UsedFor(t)] ELSE use
      BY <1>1 DEF Return
    <2> QED BY <2>1, <2>2
  <1>6. /\ use' \in [Addrs -> {"free", "call", "block", "info", "own", "kept"}]
        /\ \A a \in Addrs : use'[a] = IF a = f.res THEN v ELSE use[a]
    BY <1>5 DEF HInv, HTypes
  <1>7. UNCHANGED initVars /\ UNCHANGED endVars /\ UNCHANGED listVars /\ ~ aborted'
    BY DEF Return, HInv
  <1>8. Local(t, s)
    BY <1>1, <1>2, <1>3, <1>4, <1>6, <1>7 DEF Local
  <1>9. StackOK(t, s) /\ InitUnmoved(t, s)
    BY <1>1, <1>2, <1>4 DEF StackOK, InitUnmoved
  <1>10. LocalUse(t, s)
    <2>1. f.res \in Addrs => f.fn \notin Releasing
      BY <1>2 DEF FrameOK
    <2>2. LiveOf(f) = {f.res} \cap Addrs
      BY <1>2, <2>1 DEF LiveOf
    <2>3. \A a \in Addrs : a \in InFlight(f) <=> a = f.res
      BY <1>2, <2>1 DEF InFlight, TouchSteps
    <2>4. f.res \in Addrs => use[f.res] = "call"
      BY <1>1, <2>2 DEF HInv, LivesOK
    <2>5. \A u \in Threads : Lives(stack[u]) \subseteq Addrs
      BY DEF Lives, LiveOf
    <2>6. \A u \in Threads \ {t} : \A a \in Lives(stack[u]) : use'[a] = "call"
      BY <1>1, <1>6, <2>2, <2>5 DEF HInv, LivesOK
    <2>7. ASSUME NEW a \in Addrs
          PROVE  (IF a \in Owned' THEN 1 ELSE 0) + (IF a \in Claim(s) THEN 1 ELSE 0)
                   = (IF a \in Owned THEN 1 ELSE 0) + (IF a \in Claim(stack[t]) THEN 1 ELSE 0)
      <3>1. a = f.res => a \in Owned' /\ a \notin Owned /\ a \in Claim(stack[t])
        <4>1. a = f.res => use[a] = "call" /\ use'[a] = v
          BY <1>6, <2>4
        <4>2. a = f.res => a \in Claim(stack[t])
          BY <1>1, <2>3
        <4> QED BY <1>5, <4>1, <4>2 DEF Owned
      <3>2. a # f.res => (a \in Owned' <=> a \in Owned) /\ a \notin Claim(stack[t])
        BY <1>1, <1>6, <2>3 DEF Owned
      <3>3. a \notin Claim(s)
        BY <1>4
      <3> QED BY <3>1, <3>2, <3>3
    <2> QED BY <1>4, <2>6, <2>7 DEF LocalUse
  <1> QED BY <1>7, <1>8, <1>9, <1>10, UseStep

\* The initialisation or the backtrace goes on.
LEMMA ReturnToStep ==
  ASSUME HInv, NEW t \in Threads, NEW f, NEW g, stack[t] = Within(g, f), OuterOK(t, f),
         InnerOK(g, f), f.step \in {"init", "add"}, Return(t)
  PROVE  HInv'
  <1>1. /\ Top(t) = g /\ Where(stack[t]) = f.step /\ Tail(stack[t]) = <<f>>
        /\ Lives(stack[t]) = LiveOf(g) \cup LiveOf(f)
        /\ Claim(stack[t]) = InFlight(f) \cap Addrs
        /\ Hand(stack[t]) = IF f.step = "add" THEN {f.obj} ELSE {}
    BY Inside DEF Outer
  <1>2. g.step = "end"
    BY <1>1 DEF Return, At
  <1>3. Len(stack[t]) = 2 /\ stack[t][2] = f
    BY DEF Within
  <1> PICK s : s = <<f>>
    OBVIOUS
  <1>4. stack' = [stack EXCEPT ![t] = s]
    <2>1. Head(<<f>>) = f /\ Tail(stack[t]) = s /\ f.step # "default"
      BY <1>1
    <2> QED BY <1>1, <2>1 DEF Return
  <1>5. /\ Where(s) = f.step /\ Lives(s) = LiveOf(f) /\ Claim(s) = InFlight(f) \cap Addrs
        /\ Forget(s) = {} /\ Hand(s) = IF f.step = "add" THEN {f.obj} ELSE {}
    BY Views1
  <1>6. use' = IF g.res \in Addrs THEN [use EXCEPT ![g.res] = "kept"] ELSE use
    <2>1. f.step = "init" => g.res \notin Addrs
      BY <1>2 DEF InnerOK
    <2>2. f.step = "add" => UsedFor(t) = "kept"
      BY <1>3 DEF UsedFor
    <2>3. use' = IF g.res \in Addrs THEN [use EXCEPT ![g.res] = UsedFor(t)] ELSE use
      BY <1>1 DEF Return
    <2> QED BY <2>1, <2>2, <2>3
  <1>7. /\ use' \in [Addrs -> {"free", "call", "block", "info", "own", "kept"}]
        /\ \A a \in Addrs : use'[a] = IF a = g.res THEN "kept" ELSE use[a]
    BY <1>6 DEF HInv, HTypes
  <1>8. UNCHANGED initVars /\ UNCHANGED endVars /\ UNCHANGED listVars /\ ~ aborted'
    BY DEF Return, HInv
  <1>9. Local(t, s)
    BY <1>1, <1>4, <1>5, <1>7, <1>8 DEF Local
  <1>10. StackOK(t, s) /\ InitUnmoved(t, s)
    BY <1>1, <1>5 DEF StackOK, InitUnmoved
  <1>11. LocalUse(t, s)
    <2>1. LiveOf(g) = {g.res} \cap Addrs
      BY <1>2 DEF LiveOf, InnerOK, Releasing
    <2>2. g.res \in Addrs => use[g.res] = "call"
      BY <1>1, <2>1 DEF HInv, LivesOK
    <2>3. \A u \in Threads : Lives(stack[u]) \subseteq Addrs
      BY DEF Lives, LiveOf
    <2>4. g.res \in Addrs => g.res \notin LiveOf(f)
      <3>1. f.step = "init" => g.res \notin Addrs
        BY <1>2 DEF InnerOK
      <3>2. f.step = "add" => LiveOf(g) \cap LiveOf(f) = {}
        BY DEF InnerOK
      <3> QED BY <2>1, <3>1, <3>2
    <2>5. \A a \in LiveOf(f) : use[a] = "call" /\ a \in Addrs
      BY <1>1, <2>3 DEF HInv, LivesOK
    <2>6. \A a \in LiveOf(f) : use'[a] = "call"
      BY <1>7, <2>4, <2>5
    <2>7. ASSUME NEW u \in Threads \ {t}, NEW a \in Lives(stack[u])
          PROVE  use'[a] = "call" /\ a \notin Lives(s)
      <3>1. use[a] = "call" /\ a \in Addrs /\ a \notin Lives(stack[t])
        BY <2>3 DEF HInv, LivesOK
      <3>2. a # g.res /\ a \notin LiveOf(f)
        BY <1>1, <2>1, <3>1
      <3> QED BY <1>5, <1>7, <3>1, <3>2
    <2>8. \A a \in Addrs : a \in Owned' <=> a \in Owned
      BY <1>7, <2>2 DEF Owned
    <2> QED BY <1>1, <1>5, <2>6, <2>7, <2>8 DEF LocalUse
  <1> QED BY <1>8, <1>9, <1>10, <1>11, UseStep

\* The library's function returns what the one that it called has returned.
LEMMA ReturnResult ==
  ASSUME HInv, NEW t \in Threads, NEW f, NEW g, stack[t] = Within(g, f), OuterOK(t, f),
         InnerOK(g, f), f.step = "default", Return(t)
  PROVE  HInv'
  <1>1. /\ Top(t) = g /\ Where(stack[t]) = f.step /\ Tail(stack[t]) = <<f>>
        /\ Lives(stack[t]) = LiveOf(g) /\ Claim(stack[t]) = InFlight(f) \cap Addrs
        /\ Hand(stack[t]) = {}
    <2>1. /\ Top(t) = g /\ Outer(t, f) /\ Tail(stack[t]) = <<f>>
          /\ Lives(stack[t])
               = LiveOf(g) \cup (IF f.step \in {"init", "add"} THEN LiveOf(f) ELSE {})
      BY Inside
    <2> QED BY <2>1 DEF Outer
  <1>2. g.step = "end" /\ FrameOK(g) /\ g.res # Static /\ g.res \in Addrs \cup {NULL}
    BY <1>1 DEF Return, At, InnerOK, FrameOK, FrameType
  <1>3. depth(t) - 1 = 1
    <2>1. depth(t) = (IF f.step \in TouchSteps THEN 0 ELSE 1)
                     + (IF g.step \in TouchSteps THEN 0 ELSE 1)
      BY Depth2
    <2>2. f.step \notin TouchSteps /\ g.step \notin TouchSteps
      BY <1>2 DEF TouchSteps
    <2> QED BY <2>1, <2>2
  <1> PICK r : r = g.res
    OBVIOUS
  <1>4. f.fn \in Releasing => r = NULL
    <2>1. f.fn \in Releasing => g.fn \in Releasing
      <3>1. g.fn = Inner(f) /\ g.fn # "none"
        BY <1>2 DEF InnerOK, FrameOK, FrameType, Functions
      <3> QED BY <3>1 DEF Inner, Releasing
    <2> QED BY <1>2, <2>1 DEF FrameOK
  <1>5. PICK h : /\ h = Returned(f, 1, r) /\ OuterOK(t, h)
                 /\ h.step \in {"forget", "take", "end"}
                 /\ h.step # "end" => ~ is_exit_done
                 /\ LiveOf(h) = {r} \cap Addrs
                 /\ ~ is_exit_done => InFlight(h) \cap Addrs = InFlight(f) \cap Addrs
                 /\ h.step = "forget" => h.ptr = f.ptr /\ f.fn \notin Releasing
    BY <1>2, <1>4, Resulted
  <1> PICK s : s = <<h>>
    OBVIOUS
  <1>6. stack' = [stack EXCEPT ![t] = s]
    <2>1. <<f>> # <<>> /\ Head(<<f>>) = f /\ Tail(<<f>>) = <<>> /\ <<h>> \o <<>> = s
      BY Stack1
    <2>2. stack' = [stack EXCEPT ![t] = <<Returned(f, depth(t) - 1, g.res)>> \o <<>>]
      BY <1>1, <2>1 DEF Return
    <2> QED BY <1>3, <1>5, <2>1, <2>2
  <1>7. LiveOf(g) = {r} \cap Addrs
    BY <1>2 DEF LiveOf, FrameOK
  <1>8. UNCHANGED use
    <2>1. r \in Addrs => use[r] = "call"
      BY <1>1, <1>7 DEF HInv, LivesOK
    <2>2. UsedFor(t) = "call"
      <3>1. Len(stack[t]) = 2 /\ stack[t][2] = f
        BY DEF Within
      <3> QED BY <3>1 DEF UsedFor
    <2>3. use' = IF r \in Addrs THEN [use EXCEPT ![r] = "call"] ELSE use
      BY <1>1, <2>2 DEF Return
    <2> QED BY <2>1, <2>3 DEF HInv, HTypes
  <1>9. UNCHANGED initVars /\ UNCHANGED endVars /\ UNCHANGED listVars /\ ~ aborted'
    BY DEF Return, HInv
  <1>10. /\ Where(s) = h.step /\ Lives(s) = LiveOf(h) /\ Claim(s) = InFlight(h) \cap Addrs
         /\ Forget(s) = (IF h.step = "forget" THEN {h.ptr} ELSE {}) /\ Hand(s) = {}
    BY <1>5, Views1
  <1>11. ~ is_exit_done => Forget(s) \subseteq Claim(s)
    BY <1>5, <1>10 DEF InFlight, TouchSteps, OuterOK, FrameOK
  <1>12. is_exit_done => Forget(s) = {}
    BY <1>5, <1>10
  <1>13. use' \in [Addrs -> {"free", "call", "block", "info", "own", "kept"}]
    BY <1>8 DEF HInv, HTypes
  <1>14. Local(t, s)
    BY <1>1, <1>5, <1>6, <1>9, <1>10, <1>11, <1>12, <1>13 DEF Local
  <1>15. StackOK(t, s) /\ InitUnmoved(t, s)
    BY <1>1, <1>5, <1>10 DEF StackOK, InitUnmoved
  <1>16. Lives(s) \subseteq Lives(stack[t]) /\ (~ is_exit_done => Claim(s) = Claim(stack[t]))
    BY <1>1, <1>5, <1>7, <1>10
  <1> QED BY <1>8, <1>9, <1>14, <1>15, <1>16, StackOnly

LEMMA ReturnStep ==
  ASSUME HInv, NEW t \in Threads, Return(t)
  PROVE  HInv'
  <1>1. stack[t] # <<>>
    BY DEF Return, At, Busy
  <1>2. ASSUME NEW f, NEW g, InnerOK(g, f)
        PROVE  f.step \in {"init", "default", "add"}
    BY <1>2 DEF InnerOK
  <1> QED BY <1>1, <1>2, Shapes, ReturnOuter, ReturnToStep, ReturnResult DEF HInv

-----------------------------------------------------------------------------
(***************************************************************************)
(* The lists of objects                                                    *)
(***************************************************************************)

LEMMA Removed ==
  ASSUME NEW S, NEW l \in Seq(S), IsInjective(l), NEW k \in 1..Len(l)
  PROVE  /\ RemoveAt(l, k) \in Seq(S) /\ Len(RemoveAt(l, k)) = Len(l) - 1
         /\ ToSet(RemoveAt(l, k)) = ToSet(l) \ {l[k]} /\ IsInjective(RemoveAt(l, k))
  <1> DEFINE n == Len(l)
             p == SubSeq(l, 1, k - 1)
             q == SubSeq(l, k + 1, n)
             r == RemoveAt(l, k)
  <1>0. n \in Nat /\ DOMAIN l = 1..n /\ k \in Int /\ 1 =< k /\ k =< n
    OBVIOUS
  <1>1. /\ p \in Seq(S) /\ Len(p) = k - 1 /\ \A j \in 1..(k - 1) : p[j] = l[j]
    <2>1. \A j \in 1..(k - 1) : l[j] \in S
      BY <1>0, ElementOfSeq
    <2>2. /\ SubSeq(l, 1, k - 1) \in Seq(S)
          /\ Len(SubSeq(l, 1, k - 1)) = IF 1 =< k - 1 THEN (k - 1) - 1 + 1 ELSE 0
          /\ \A j \in 1..((k - 1) - 1 + 1) : SubSeq(l, 1, k - 1)[j] = l[1 + j - 1]
      BY <1>0, <2>1, SubSeqProperties
    <2> QED BY <1>0, <2>2
  <1>2. /\ q \in Seq(S) /\ Len(q) = n - k /\ \A j \in 1..(n - k) : q[j] = l[k + j]
    <2>1. \A j \in (k + 1)..n : l[j] \in S
      BY <1>0, ElementOfSeq
    <2>2. k + 1 \in Int /\ n \in Int
      BY <1>0
    <2> HIDE DEF n
    <2>3. /\ SubSeq(l, k + 1, n) \in Seq(S)
          /\ Len(SubSeq(l, k + 1, n)) = IF k + 1 =< n THEN n - (k + 1) + 1 ELSE 0
          /\ \A j \in 1..(n - (k + 1) + 1) : SubSeq(l, k + 1, n)[j] = l[(k + 1) + j - 1]
      BY <2>1, <2>2, SubSeqProperties
    <2> QED BY <1>0, <2>3
  <1>3. r = p \o q
    BY DEF RemoveAt
  <1> HIDE DEF n, p, q
  <1>4. /\ p \o q \in Seq(S) /\ Len(p \o q) = Len(p) + Len(q)
        /\ \A j \in 1..(Len(p) + Len(q)) :
             (p \o q)[j] = IF j <= Len(p) THEN p[j] ELSE q[j - Len(p)]
    BY <1>1, <1>2, ConcatProperties
  <1> HIDE DEF r
  <1>5. /\ r \in Seq(S) /\ Len(r) = n - 1
        /\ \A j \in 1..(n - 1) : r[j] = IF j < k THEN l[j] ELSE l[j + 1]
    BY <1>0, <1>1, <1>2, <1>3, <1>4
  <1>6. DOMAIN r = 1..(n - 1)
    BY <1>5, LenProperties
  <1>7. ToSet(r) = ToSet(l) \ {l[k]}
    <2>1. ASSUME NEW o \in ToSet(r) PROVE o \in ToSet(l) \ {l[k]}
      <3>1. PICK j \in 1..(n - 1) : o = r[j]
        BY <1>6 DEF ToSet
      <3>2. PICK m \in 1..n : m # k /\ o = l[m]
        <4>1. CASE j < k
          BY <1>0, <1>5, <3>1, <4>1
        <4>2. CASE ~ (j < k)
          BY <1>0, <1>5, <3>1, <4>2
        <4> QED BY <4>1, <4>2
      <3> QED BY <1>0, <3>2 DEF ToSet, IsInjective
    <2>2. ASSUME NEW o \in ToSet(l) \ {l[k]} PROVE o \in ToSet(r)
      <3>1. PICK m \in 1..n : m # k /\ o = l[m]
        BY <1>0 DEF ToSet
      <3>2. PICK j \in 1..(n - 1) : o = r[j]
        <4>1. CASE m < k
          BY <1>0, <1>5, <3>1, <4>1
        <4>2. CASE m > k
          <5>1. m - 1 \in 1..(n - 1) /\ ~ (m - 1 < k) /\ (m - 1) + 1 = m
            BY <1>0, <4>2
          <5> QED BY <1>5, <3>1, <5>1
        <4> QED BY <1>0, <3>1, <4>1, <4>2
      <3> QED BY <1>6, <3>2 DEF ToSet
    <2> QED BY <2>1, <2>2
  <1>8. IsInjective(r)
    <2>1. ASSUME NEW a \in 1..(n - 1), NEW b \in 1..(n - 1), r[a] = r[b] PROVE a = b
      <3>1. PICK c \in 1..n : c = (IF a < k THEN a ELSE a + 1) /\ r[a] = l[c]
        BY <1>0, <1>5
      <3>2. PICK d \in 1..n : d = (IF b < k THEN b ELSE b + 1) /\ r[b] = l[d]
        BY <1>0, <1>5
      <3>3. c = d
        BY <1>0, <2>1, <3>1, <3>2 DEF IsInjective
      <3> QED BY <1>0, <3>1, <3>2, <3>3
    <2> QED BY <1>6, <2>1 DEF IsInjective
  <1> QED BY <1>5, <1>7, <1>8 DEF n, r

LEMMA Prepended ==
  ASSUME NEW S, NEW l \in Seq(S), IsInjective(l), NEW o \in S, o \notin ToSet(l)
  PROVE  /\ <<o>> \o l \in Seq(S) /\ Len(<<o>> \o l) = Len(l) + 1
         /\ ToSet(<<o>> \o l) = ToSet(l) \cup {o} /\ IsInjective(<<o>> \o l)
  <1> DEFINE r == <<o>> \o l
             n == Len(l)
  <1>0. n \in Nat /\ DOMAIN l = 1..n
    OBVIOUS
  <1>1. <<o>> \in Seq(S) /\ Len(<<o>>) = 1 /\ <<o>>[1] = o
    OBVIOUS
  <1>2. /\ r \in Seq(S) /\ Len(r) = Len(<<o>>) + Len(l)
        /\ \A j \in 1..(Len(<<o>>) + Len(l)) :
             r[j] = IF j <= Len(<<o>>) THEN <<o>>[j] ELSE l[j - Len(<<o>>)]
    BY <1>1, ConcatProperties
  <1> HIDE DEF r, n
  <1>3. /\ Len(r) = n + 1 /\ r[1] = o
        /\ \A j \in 1..n : r[j + 1] = l[j]
        /\ \A j \in 2..(n + 1) : r[j] = l[j - 1]
    BY <1>0, <1>1, <1>2 DEF n
  <1>4. DOMAIN r = 1..(n + 1)
    BY <1>2, <1>3, LenProperties
  <1>5. ToSet(r) = ToSet(l) \cup {o}
    <2>1. ASSUME NEW x \in ToSet(r) PROVE x \in ToSet(l) \cup {o}
      <3>1. PICK j \in 1..(n + 1) : x = r[j]
        BY <1>4 DEF ToSet
      <3>2. CASE j = 1
        BY <1>3, <3>1, <3>2
      <3>3. CASE j # 1
        <4>1. j \in 2..(n + 1) /\ j - 1 \in 1..n
          BY <1>0, <3>3
        <4> QED BY <1>0, <1>3, <3>1, <4>1 DEF ToSet
      <3> QED BY <3>2, <3>3
    <2>2. ASSUME NEW x \in ToSet(l) PROVE x \in ToSet(r)
      <3>1. PICK j \in 1..n : x = l[j]
        BY <1>0 DEF ToSet
      <3>2. j + 1 \in 1..(n + 1) /\ r[j + 1] = x
        BY <1>0, <1>3, <3>1
      <3> QED BY <1>4, <3>2 DEF ToSet
    <2>3. o \in ToSet(r)
      <3>1. 1 \in 1..(n + 1)
        BY <1>0
      <3> QED BY <1>3, <1>4, <3>1 DEF ToSet
    <2> QED BY <2>1, <2>2, <2>3
  <1>6. IsInjective(r)
    <2>1. ASSUME NEW a \in 1..(n + 1), NEW b \in 1..(n + 1), r[a] = r[b] PROVE a = b
      <3>1. CASE a = 1 /\ b = 1
        BY <3>1
      <3>2. CASE a # 1 /\ b # 1
        <4>1. a \in 2..(n + 1) /\ b \in 2..(n + 1) /\ a - 1 \in 1..n /\ b - 1 \in 1..n
          BY <1>0, <3>2
        <4>2. l[a - 1] = l[b - 1]
          BY <1>3, <2>1, <4>1
        <4>3. a - 1 = b - 1
          BY <1>0, <4>1, <4>2 DEF IsInjective
        <4> QED BY <4>1, <4>3
      <3>3. CASE a # 1 /\ b = 1
        <4>1. a \in 2..(n + 1) /\ a - 1 \in 1..n
          BY <1>0, <3>3
        <4> QED BY <1>0, <1>3, <2>1, <3>3, <4>1 DEF ToSet
      <3>4. CASE a = 1 /\ b # 1
        <4>1. b \in 2..(n + 1) /\ b - 1 \in 1..n
          BY <1>0, <3>4
        <4> QED BY <1>0, <1>3, <2>1, <3>4, <4>1 DEF ToSet
      <3> QED BY <3>1, <3>2, <3>3, <3>4
    <2> QED BY <1>4, <2>1 DEF IsInjective
  <1> QED BY <1>2, <1>3, <1>5, <1>6 DEF r, n

LEMMA Shortened ==
  ASSUME NEW S, NEW l \in Seq(S), IsInjective(l), l # <<>>
  PROVE  /\ Head(l) \in ToSet(l)
         /\ Tail(l) \in Seq(S) /\ Len(Tail(l)) = Len(l) - 1
         /\ ToSet(Tail(l)) = ToSet(l) \ {Head(l)} /\ IsInjective(Tail(l))
  <1> DEFINE n == Len(l)
  <1>1. n \in Nat /\ n >= 1 /\ DOMAIN l = 1..n /\ Head(l) = l[1]
    BY EmptySeq, LenProperties
  <1>2. 1 \in 1..n
    BY <1>1
  <1>3. Head(l) \in ToSet(l)
    BY <1>1, <1>2 DEF ToSet
  <1>4. Tail(l) = RemoveAt(l, 1)
    <2>1. SubSeq(l, 1, 0) = <<>>
      BY SubSeqEmpty
    <2>2. Tail(l) = SubSeq(l, 2, n)
      BY TailIsSubSeq
    <2>3. Tail(l) \in Seq(S)
      BY HeadTailProperties
    <2>4. RemoveAt(l, 1) = SubSeq(l, 1, 1 - 1) \o SubSeq(l, 1 + 1, n)
      BY DEF RemoveAt
    <2>5. RemoveAt(l, 1) = <<>> \o Tail(l)
      BY <2>1, <2>2, <2>4
    <2> QED BY <2>3, <2>5, ConcatEmptySeq
  <1>5. 1 \in 1..Len(l)
    BY <1>2
  <1>6. /\ RemoveAt(l, 1) \in Seq(S) /\ Len(RemoveAt(l, 1)) = Len(l) - 1
        /\ ToSet(RemoveAt(l, 1)) = ToSet(l) \ {l[1]} /\ IsInjective(RemoveAt(l, 1))
    BY <1>5, Removed
  <1> QED BY <1>1, <1>3, <1>4, <1>6

-----------------------------------------------------------------------------
(***************************************************************************)
(* Tracking                                                                *)
(***************************************************************************)

\* A step of t in the tracker's lists.
LEMMA ListStep ==
  ASSUME HInv, NEW t \in Threads, NEW f, NEW h, stack[t] = <<f>>, OuterOK(t, h),
         stack' = [stack EXCEPT ![t] = <<h>>],
         UNCHANGED <<use, initVars, endVars>>,
         f.step \notin {"init", "done"}, h.step \notin {"init", "done", "unlock"},
         LiveOf(h) \subseteq LiveOf(f)
  PROVE  (Stacks /\ InitOK /\ HTypes /\ LivesOK)'
  <1>1. Where(stack[t]) = f.step /\ Lives(stack[t]) = LiveOf(f)
    BY Alone
  <1> PICK s : s = <<h>>
    OBVIOUS
  <1>2. Where(s) = h.step /\ Lives(s) = LiveOf(h) /\ StackOK(t, s)
    BY Views1 DEF StackOK
  <1>3. stack' = [stack EXCEPT ![t] = s]
    OBVIOUS
  <1>4. Stacks'
    BY <1>2, <1>3, StacksStep DEF initVars
  <1>5. InitUnmoved(t, s)
    BY <1>1, <1>2 DEF InitUnmoved
  <1>6. InitOK'
    BY <1>3, <1>5, InitKept DEF initVars
  <1>7. HTypes'
    BY <1>3 DEF HInv, HTypes, initVars, endVars
  <1>8. LivesOK'
    <2>1. stack'[t] = s /\ \A u \in Threads : u # t => stack'[u] = stack[u]
      BY <1>3 DEF HInv, HTypes
    <2>2. \A u \in Threads : Lives(stack'[u]) \subseteq Lives(stack[u])
      BY <1>1, <1>2, <2>1
    <2>3. /\ \A u \in Threads : \A a \in Lives(stack[u]) : use[a] = "call"
          /\ \A u, v \in Threads : u # v => Lives(stack[u]) \cap Lives(stack[v]) = {}
          /\ use' = use
      BY DEF HInv, LivesOK
    <2>4. /\ \A u \in Threads : \A a \in Lives(stack'[u]) : use'[a] = "call"
          /\ \A u, v \in Threads : u # v => Lives(stack'[u]) \cap Lives(stack'[v]) = {}
      BY <2>2, <2>3
    <2> QED BY <2>4 DEF LivesOK, Lives, LiveOf
  <1> QED BY <1>4, <1>6, <1>7, <1>8

\* Threads in and out of a set of them.
LEMMA OneLess ==
  ASSUME NEW A, NEW B, IsFiniteSet(A), NEW t \in A, B = A \ {t}
  PROVE  Cardinality(A) \in Nat /\ Cardinality(B) = Cardinality(A) - 1 /\ IsFiniteSet(B)
  BY FS_RemoveElement, FS_CardinalityType

LEMMA OneMore ==
  ASSUME NEW A, NEW B, IsFiniteSet(A), NEW t, t \notin A, B = A \cup {t}
  PROVE  Cardinality(A) \in Nat /\ Cardinality(B) = Cardinality(A) + 1 /\ IsFiniteSet(B)
  BY FS_AddElement, FS_CardinalityType

LEMMA LeastOf ==
  ASSUME NEW S, S \subseteq Nat, S # {}
  PROVE  \E k \in S : \A j \in S : k =< j
  <1> DEFINE R == OpToRel(<, Nat)
  <1>1. IsWellFoundedOn(R, Nat)
    BY NatLessThanWellFounded
  <1>2. \A j, k \in Nat : j < k => <<j, k>> \in R
    BY Zenon DEF OpToRel
  <1> HIDE DEF R
  <1>3. PICK k \in S : \A j \in S : ~ (<<j, k>> \in R)
    BY <1>1, WFMin
  <1>4. \A j \in S : ~ (j < k)
    BY Zenon, <1>2, <1>3
  <1> QED BY <1>4

\* What a thread is about to forget is in the list.
LEMMA FoundFirst ==
  ASSUME HInv, NEW t \in Threads, NEW a \in Addrs, a \in Forget(stack[t])
  PROVE  Found(a) # {} /\ Found(a) \subseteq 1..Len(allocs)
  <1>0. Len(allocs) \in Nat /\ DOMAIN allocs = 1..Len(allocs)
    BY LenProperties DEF HInv, ObjectsOK
  <1>1. PICK o \in DOMAIN mem : mem[o] = a
    <2>1. t \in Forgetters(a)
      BY DEF Forgetters
    <2>2. IsFiniteSet(Forgetters(a)) /\ Cardinality(Forgetters(a)) \in Nat
      BY ThreadsFinite
    <2>3. Cardinality(Forgetters(a)) # 0
      BY <2>1, <2>2, FS_EmptySet
    <2>4. Cardinality(Forgetters(a)) <= Cardinality(Holding(a))
          /\ Cardinality(Holding(a)) \in Nat
      BY ListFinite DEF HInv, TrackedOK
    <2>5. Holding(a) # {}
      BY <2>2, <2>3, <2>4, FS_EmptySet
    <2> QED BY <2>5 DEF Holding
  <1> DEFINE S == {i \in DOMAIN allocs : mem[allocs[i]] = a}
  <1>2. S # {} /\ S \subseteq Nat
    BY <1>0, <1>1 DEF HInv, ObjectsOK, ToSet
  <1> HIDE DEF S
  <1>3. PICK k \in S : \A j \in S : k =< j
    BY <1>2, LeastOf
  <1>4. k \in 1..Len(allocs) /\ mem[allocs[k]] = a
    BY <1>0 DEF S
  <1>5. ASSUME NEW j \in 1..(k - 1), mem[allocs[j]] = a PROVE FALSE
    <2>1. j \in DOMAIN allocs /\ ~ (k =< j)
      BY <1>0, <1>4
    <2> QED BY <1>3, <1>5, <2>1 DEF S
  <1>6. k \in Found(a)
    BY <1>0, <1>4, <1>5 DEF Found
  <1> QED BY <1>0, <1>6 DEF Found

LEMMA FreeStep ==
  ASSUME HInv, NEW t \in Threads, alloc_free(t)
  PROVE  HInv'
  <1> PICK f : stack[t] = <<f>> /\ OuterOK(t, f) /\ f.step = "forget"
    BY OuterAt DEF alloc_free, HInv
  <1>1. /\ Top(t) = f /\ Where(stack[t]) = "forget" /\ Claim(stack[t]) = InFlight(f) \cap Addrs
        /\ Forget(stack[t]) = {f.ptr} /\ Hand(stack[t]) = {}
        /\ \A h : SetTop(t, h) => stack' = [stack EXCEPT ![t] = <<h>>]
    BY Alone
  <1>2. /\ FrameOK(f) /\ f \in FrameType /\ is_init_done /\ f.ptr \in Addrs /\ f.ptr # f.res
        /\ f.res \in Addrs \cup {NULL} /\ f.res # Static
    BY DEF OuterOK, FrameOK, FrameType
  <1>3. depth(t) = 1
    BY Depth1 DEF TouchSteps
  <1> PICK p : p = f.ptr
    OBVIOUS
  <1> PICK st : st = IF f.fn \in Releasing THEN "default"
                     ELSE IF Untracked(depth(t), New(f)) THEN "end" ELSE "take"
    OBVIOUS
  <1>4. /\ st \in {"default", "end", "take"}
        /\ st = "default" <=> f.fn \in Releasing
        /\ st = "take" => f.res \in Addrs
        /\ st = "end" /\ ~ is_exit_done => f.res \notin Addrs
    BY <1>2, <1>3 DEF Untracked, New
  <1>5. Found(p) # {} /\ Found(p) \subseteq 1..Len(allocs)
    BY <1>1, <1>2, FoundFirst
  <1>6. PICK i \in Found(p) :
          /\ Unlink(i)
          /\ mem' = [o \in DOMAIN mem \ {allocs[i]} |-> mem[o]]
          /\ internal' = internal \ {allocs[i]}
          /\ alloc_count' = alloc_count - 1
          /\ aborted' = (alloc_count' < 0)
    <2>1. (IF f.fn \in Releasing THEN f.ptr ELSE Old(f)) = p
      BY <1>2 DEF Old
    <2> QED BY <1>1, <1>5, <2>1 DEF alloc_free
  <1>7. /\ Goto(t, st) /\ UNCHANGED <<use, initVars, endVars>> /\ UNCHANGED batches /\ UNCHANGED used
        /\ UNCHANGED endVars
    BY <1>1 DEF alloc_free
  <1> PICK o : o = allocs[i]
    OBVIOUS
  <1>8. PICK h : h = AtStep(f, st)
    OBVIOUS
  <1>9. /\ h \in FrameType /\ h.fn = f.fn /\ h.ptr = f.ptr /\ h.res = f.res
        /\ h.obj = f.obj /\ h.step = st
    BY <1>2, <1>4, <1>8, StepFields DEF Steps_
  <1>10. stack' = [stack EXCEPT ![t] = <<h>>]
    BY <1>1, <1>7, <1>8 DEF Goto
  <1>11. OuterOK(t, h)
    <2>1. FrameOK(h)
      BY <1>2, <1>4, <1>9 DEF FrameOK
    <2> QED BY <1>2, <1>4, <1>9, <2>1 DEF OuterOK
  <1>12. LiveOf(h) \subseteq LiveOf(f)
    BY <1>4, <1>9 DEF LiveOf
  <1>13. (Stacks /\ InitOK /\ HTypes /\ LivesOK)'
    BY <1>4, <1>7, <1>9, <1>10, <1>11, <1>12, ListStep
  <1>14. /\ stack'[t] = <<h>> /\ \A u \in Threads : u # t => stack'[u] = stack[u]
    BY <1>10 DEF HInv, HTypes
  <1>15. /\ Where(<<h>>) = st /\ Forget(<<h>>) = {} /\ Hand(<<h>>) = {}
         /\ ~ is_exit_done => Claim(<<h>>) = {}
    <2>1. ~ is_exit_done => InFlight(h) \cap Addrs = {}
      BY <1>4, <1>9 DEF InFlight, TouchSteps
    <2> QED BY <1>4, <1>9, <2>1, Views1
  <1>16. Claim(stack[t]) = {p}
    BY <1>1, <1>2 DEF InFlight, TouchSteps
  <1>17. /\ o \in Object /\ o \in ToSet(allocs) /\ o \in DOMAIN mem /\ mem[o] = p
         /\ o \notin ToSet(alloc_pool) /\ o \in Carved
         /\ i \in 1..Len(allocs) /\ Len(allocs) \in Nat /\ Len(alloc_pool) \in Nat
    <2>1. DOMAIN allocs = 1..Len(allocs) /\ Len(allocs) \in Nat /\ Len(alloc_pool) \in Nat
      BY LenProperties DEF HInv, ObjectsOK
    <2>2. mem[o] = p /\ i \in DOMAIN allocs
      BY DEF Found
    <2> QED BY <1>5, <2>1, <2>2 DEF HInv, ObjectsOK, ToSet, Carved
  <1>18. /\ allocs' \in Seq(Object) /\ Len(allocs') = Len(allocs) - 1
         /\ ToSet(allocs') = ToSet(allocs) \ {o} /\ IsInjective(allocs')
         /\ allocs' = RemoveAt(allocs, i)
    <2>1. allocs' = RemoveAt(allocs, i)
      BY <1>6 DEF Unlink
    <2>2. allocs \in Seq(Object) /\ IsInjective(allocs)
      BY DEF HInv, ObjectsOK
    <2>3. /\ RemoveAt(allocs, i) \in Seq(Object) /\ Len(RemoveAt(allocs, i)) = Len(allocs) - 1
          /\ ToSet(RemoveAt(allocs, i)) = ToSet(allocs) \ {allocs[i]}
          /\ IsInjective(RemoveAt(allocs, i))
      BY <1>17, <2>2, Removed
    <2> QED BY <2>1, <2>3
  <1>19. /\ alloc_pool' \in Seq(Object) /\ Len(alloc_pool') = Len(alloc_pool) + 1
         /\ ToSet(alloc_pool') = ToSet(alloc_pool) \cup {o} /\ IsInjective(alloc_pool')
    <2>1. alloc_pool' = <<o>> \o alloc_pool
      BY <1>6 DEF Unlink
    <2>2. alloc_pool \in Seq(Object) /\ IsInjective(alloc_pool)
      BY DEF HInv, ObjectsOK
    <2>3. /\ <<o>> \o alloc_pool \in Seq(Object)
          /\ Len(<<o>> \o alloc_pool) = Len(alloc_pool) + 1
          /\ ToSet(<<o>> \o alloc_pool) = ToSet(alloc_pool) \cup {o}
          /\ IsInjective(<<o>> \o alloc_pool)
      BY <1>17, <2>2, Prepended
    <2> QED BY <2>1, <2>3
  <1>20. \A u \in Threads : Hand(stack'[u]) = Hand(stack[u])
    BY <1>1, <1>14, <1>15
  <1>21. Hands' = Hands
    BY <1>20 DEF Hands
  <1>22. DOMAIN mem' = DOMAIN mem \ {o} /\ \A x \in DOMAIN mem' : mem'[x] = mem[x]
    BY <1>6
  <1>23. TrackedOK'
    <2>1. ASSUME NEW a \in Addrs
          PROVE  /\ ~ is_exit_done => Cardinality(Holding(a)')
                      = (IF a \in Owned' THEN 1 ELSE 0) + Cardinality(Claimants(a)')
                 /\ Cardinality(Forgetters(a)') <= Cardinality(Holding(a)')
      <3>1. /\ Cardinality(Holding(a)) \in Nat /\ IsFiniteSet(Holding(a))
            /\ Cardinality(Claimants(a)) \in Nat /\ IsFiniteSet(Claimants(a))
            /\ Cardinality(Forgetters(a)) \in Nat /\ IsFiniteSet(Forgetters(a))
        BY ListFinite, ThreadsFinite DEF HInv
      <3>2. a \in Owned' <=> a \in Owned
        BY <1>7 DEF Owned
      <3>3. /\ ~ is_exit_done => Cardinality(Holding(a))
                 = (IF a \in Owned THEN 1 ELSE 0) + Cardinality(Claimants(a))
            /\ Cardinality(Forgetters(a)) <= Cardinality(Holding(a))
        BY DEF HInv, TrackedOK
      <3>4. CASE a = p
        <4>1. Cardinality(Holding(a)') = Cardinality(Holding(a)) - 1
          <5>1. Holding(a)' = Holding(a) \ {o} /\ o \in Holding(a)
            BY <1>17, <1>22, <3>4 DEF Holding
          <5> QED BY <3>1, <5>1, OneLess
        <4>2. Cardinality(Forgetters(a)') = Cardinality(Forgetters(a)) - 1
          <5>1. Forgetters(a)' = Forgetters(a) \ {t} /\ t \in Forgetters(a)
            BY <1>1, <1>14, <1>15, <3>4 DEF Forgetters
          <5> QED BY <3>1, <5>1, OneLess
        <4>3. ~ is_exit_done => Cardinality(Claimants(a)') = Cardinality(Claimants(a)) - 1
          <5>1. ~ is_exit_done => Claimants(a)' = Claimants(a) \ {t}
            BY <1>14, <1>15 DEF Claimants
          <5>2. t \in Claimants(a)
            BY <1>16, <3>4 DEF Claimants
          <5> QED BY <3>1, <5>1, <5>2, OneLess
        <4> QED BY <3>1, <3>2, <3>3, <4>1, <4>2, <4>3
      <3>5. CASE a # p
        <4>1. Holding(a)' = Holding(a)
          BY <1>17, <1>22, <3>5 DEF Holding
        <4>2. Forgetters(a)' = Forgetters(a)
          BY <1>1, <1>14, <1>15, <3>5 DEF Forgetters
        <4>3. ~ is_exit_done => Claimants(a)' = Claimants(a)
          BY <1>14, <1>15, <1>16, <3>5 DEF Claimants
        <4> QED BY <3>2, <3>3, <4>1, <4>2, <4>3
      <3> QED BY <3>4, <3>5
    <2>2. is_exit_done' = is_exit_done
      BY <1>7 DEF endVars
    <2> QED BY <2>1, <2>2 DEF TrackedOK
  <1>24. ObjectsOK'
    <2>1. /\ batches \in Nat /\ used \in 1..ALLOCATION_BATCH_SIZE
          /\ batches = 0 => used = ALLOCATION_BATCH_SIZE
          /\ DOMAIN mem = ToSet(allocs) /\ \A x \in DOMAIN mem : mem[x] \in Addrs
          /\ ToSet(allocs) \cap ToSet(alloc_pool) = {}
          /\ ToSet(allocs) \cup ToSet(alloc_pool) \subseteq Carved
          /\ \A u \in Threads : Hand(stack[u]) \cap (ToSet(allocs) \cup ToSet(alloc_pool)) = {}
          /\ \A u, v \in Threads : u # v => Hand(stack[u]) \cap Hand(stack[v]) = {}
          /\ \A u \in Threads : Hand(stack[u]) \subseteq Carved
      BY DEF HInv, ObjectsOK
    <2>2. Len(allocs) + Len(alloc_pool) + Cardinality(Hands)
            = ALLOCATION_BATCH_SIZE * (batches - 1) + used
          /\ alloc_count = Len(allocs)
      BY DEF HInv, ObjectsOK
    <2>3. Len(allocs') + Len(alloc_pool') + Cardinality(Hands')
            = ALLOCATION_BATCH_SIZE * (batches' - 1) + used'
          /\ alloc_count' = Len(allocs')
      <3>1. Cardinality(Hands) \in Nat
        BY ThreadsFinite
      <3>2. Len(allocs') + Len(alloc_pool') + Cardinality(Hands')
              = Len(allocs) + Len(alloc_pool) + Cardinality(Hands)
        BY <1>17, <1>18, <1>19, <1>21, <3>1
      <3> QED BY <1>6, <1>7, <1>18, <2>2, <3>2
    <2>4. Carved' = Carved
      BY <1>7 DEF Carved
    <2>5. ToSet(allocs') \cup ToSet(alloc_pool') = ToSet(allocs) \cup ToSet(alloc_pool)
          /\ ToSet(allocs') \cap ToSet(alloc_pool') = {}
      BY <1>17, <1>18, <1>19, <2>1
    <2>6. DOMAIN mem' = ToSet(allocs') /\ \A x \in DOMAIN mem' : mem'[x] \in Addrs
      BY <1>18, <1>22, <2>1
    <2>7. /\ \A u \in Threads : Hand(stack'[u]) \cap (ToSet(allocs') \cup ToSet(alloc_pool')) = {}
          /\ \A u, v \in Threads : u # v => Hand(stack'[u]) \cap Hand(stack'[v]) = {}
          /\ \A u \in Threads : Hand(stack'[u]) \subseteq Carved'
          /\ ToSet(allocs') \cup ToSet(alloc_pool') \subseteq Carved'
      BY <1>20, <2>1, <2>4, <2>5
    <2> QED BY <1>7, <1>18, <1>19, <2>1, <2>3, <2>5, <2>6, <2>7 DEF ObjectsOK
  <1>25. OwedOK'
    <2>1. owed = <<>> /\ (report # <<>> => is_exit_done)
      BY <1>1 DEF HInv, OwedOK
    <2> QED BY <1>7, <2>1 DEF OwedOK, endVars
  <1>26. ~ aborted'
    <2>1. alloc_count = Len(allocs)
      BY DEF HInv, ObjectsOK
    <2>2. ~ (alloc_count' < 0)
      BY <1>6, <1>17, <2>1
    <2> QED BY <1>6, <2>2
  <1> QED BY <1>13, <1>23, <1>24, <1>25, <1>26 DEF HInv

\* The object that the first section takes is nobody else's.
LEMMA TakenObject ==
  ASSUME HInv, TakePooled \/ Carve, UNCHANGED allocs,
         NEW o, o = IF alloc_pool # <<>> THEN Head(alloc_pool) ELSE <<batches', used'>>
  PROVE  /\ o \in Object /\ o \in Carved' /\ Carved \subseteq Carved'
         /\ alloc_pool' \in Seq(Object) /\ IsInjective(alloc_pool')
         /\ ToSet(alloc_pool') \subseteq ToSet(alloc_pool)
         /\ o \notin ToSet(alloc_pool') /\ o \notin ToSet(allocs)
         /\ \A u \in Threads : o \notin Hand(stack[u])
         /\ batches' \in Nat /\ used' \in 1..ALLOCATION_BATCH_SIZE
         /\ batches' = 0 => used' = ALLOCATION_BATCH_SIZE
         /\ Len(allocs) + Len(alloc_pool') + Cardinality(Hands) + 1
              = ALLOCATION_BATCH_SIZE * (batches' - 1) + used'
  <1> DEFINE B == ALLOCATION_BATCH_SIZE
  <1>1. /\ allocs \in Seq(Object) /\ alloc_pool \in Seq(Object)
        /\ IsInjective(alloc_pool) /\ ToSet(allocs) \cap ToSet(alloc_pool) = {}
        /\ \A u \in Threads : Hand(stack[u]) \cap (ToSet(allocs) \cup ToSet(alloc_pool)) = {}
        /\ ToSet(allocs) \cup ToSet(alloc_pool) \subseteq Carved
        /\ \A u \in Threads : Hand(stack[u]) \subseteq Carved
    BY DEF HInv, ObjectsOK
  <1>2. /\ batches \in Nat /\ used \in 1..B /\ (batches = 0 => used = B) /\ B \in Nat
        /\ Len(allocs) + Len(alloc_pool) + Cardinality(Hands) = B * (batches - 1) + used
        /\ Len(allocs) \in Nat /\ Len(alloc_pool) \in Nat /\ Cardinality(Hands) \in Nat
    BY <1>1, ThreadsFinite, LenProperties DEF HInv, ObjectsOK
  <1>3. CASE alloc_pool # <<>>
    <2>1. alloc_pool' = Tail(alloc_pool) /\ batches' = batches /\ used' = used
          /\ o = Head(alloc_pool)
      BY <1>3 DEF TakePooled, Carve
    <2>2. /\ Head(alloc_pool) \in ToSet(alloc_pool)
          /\ Tail(alloc_pool) \in Seq(Object) /\ Len(Tail(alloc_pool)) = Len(alloc_pool) - 1
          /\ ToSet(Tail(alloc_pool)) = ToSet(alloc_pool) \ {Head(alloc_pool)}
          /\ IsInjective(Tail(alloc_pool))
      BY <1>1, <1>3, Shortened
    <2>3. Carved' = Carved
      BY <2>1 DEF Carved
    <2>4. /\ o \in Carved /\ o \in Object
      BY <1>1, <2>1, <2>2 DEF Carved
    <2>5. Len(allocs) + Len(alloc_pool') + Cardinality(Hands) + 1 = B * (batches' - 1) + used'
      BY <1>2, <2>1, <2>2
    <2> QED BY <1>1, <1>2, <2>1, <2>2, <2>3, <2>4, <2>5
  <1>4. CASE alloc_pool = <<>>
    <2>1. alloc_pool' = alloc_pool /\ o = <<batches', used'>>
          /\ IF used = B THEN batches' = batches + 1 /\ used' = 1
             ELSE used' = used + 1 /\ batches' = batches
      BY <1>4 DEF TakePooled, Carve
    <2>2. /\ batches' \in Nat /\ used' \in 1..B /\ batches' # 0
          /\ B * (batches' - 1) + used' = B * (batches - 1) + used + 1
      <3>1. CASE used = B
        <4>1. B * ((batches + 1) - 1) = B * (batches - 1) + B
          BY <1>2
        <4> QED BY <1>2, <2>1, <3>1, <4>1
      <3>2. CASE used # B
        BY <1>2, <2>1, <3>2
      <3> QED BY <3>1, <3>2
    <2>3. o \in Object /\ o[1] = batches' /\ o[2] = used'
      BY <2>1, <2>2 DEF Object
    <2>4. o \in Carved' /\ o \notin Carved
      <3>1. o \in Carved'
        BY <2>2, <2>3 DEF Carved
      <3>2. o \notin Carved
        BY <1>2, <2>1, <2>3 DEF Carved
      <3> QED BY <3>1, <3>2
    <2>5. Carved \subseteq Carved'
      <3>1. ASSUME NEW x \in Carved PROVE x \in Carved'
        <4>1. /\ x \in Object /\ x[1] \in 1..batches /\ (x[1] = batches => x[2] <= used)
              /\ x[2] \in 1..B /\ x[1] \in Nat
          BY DEF Carved, Object
        <4>2. x[1] \in 1..batches' /\ (x[1] = batches' => x[2] <= used')
          BY <1>2, <2>1, <4>1
        <4> QED BY <4>1, <4>2 DEF Carved
      <3> QED BY <3>1
    <2>6. Len(allocs) + Len(alloc_pool') + Cardinality(Hands) + 1 = B * (batches' - 1) + used'
      BY <1>2, <2>1, <2>2
    <2> QED BY <1>1, <2>1, <2>2, <2>3, <2>4, <2>5, <2>6
  <1> QED BY <1>3, <1>4

LEMMA TakeStep ==
  ASSUME HInv, NEW t \in Threads, TakeObject(t)
  PROVE  HInv'
  <1> PICK f : stack[t] = <<f>> /\ OuterOK(t, f) /\ f.step = "take"
    BY OuterAt DEF TakeObject, HInv
  <1>1. /\ Top(t) = f /\ Where(stack[t]) = "take" /\ Claim(stack[t]) = InFlight(f) \cap Addrs
        /\ Forget(stack[t]) = {} /\ Hand(stack[t]) = {}
        /\ \A h : SetTop(t, h) => stack' = [stack EXCEPT ![t] = <<h>>]
    BY Alone
  <1>2. /\ FrameOK(f) /\ f \in FrameType /\ is_init_done /\ f.res \in Addrs /\ f.ptr # f.res
        /\ f.res # Static /\ f.fn \notin Releasing
    BY DEF OuterOK, FrameOK
  <1> PICK o : o = IF alloc_pool # <<>> THEN Head(alloc_pool) ELSE <<batches', used'>>
    OBVIOUS
  <1>3. /\ aborted' = ~ is_init_done /\ (TakePooled \/ Carve)
        /\ SetTop(t, AtStep([f EXCEPT !.obj = o], "add"))
        /\ UNCHANGED <<use, initVars, endVars>> /\ UNCHANGED endVars /\ UNCHANGED allocs
        /\ UNCHANGED mem /\ UNCHANGED internal /\ UNCHANGED alloc_count
    BY <1>1 DEF TakeObject
  <1>4. /\ o \in Object /\ o \in Carved' /\ Carved \subseteq Carved'
        /\ alloc_pool' \in Seq(Object) /\ IsInjective(alloc_pool')
        /\ ToSet(alloc_pool') \subseteq ToSet(alloc_pool)
        /\ o \notin ToSet(alloc_pool') /\ o \notin ToSet(allocs)
        /\ \A u \in Threads : o \notin Hand(stack[u])
        /\ batches' \in Nat /\ used' \in 1..ALLOCATION_BATCH_SIZE
        /\ batches' = 0 => used' = ALLOCATION_BATCH_SIZE
        /\ Len(allocs) + Len(alloc_pool') + Cardinality(Hands) + 1
             = ALLOCATION_BATCH_SIZE * (batches' - 1) + used'
    BY <1>3, TakenObject
  <1>5. PICK g : g = [f EXCEPT !.obj = o]
    OBVIOUS
  <1>6. g \in FrameType /\ g.fn = f.fn /\ g.ptr = f.ptr /\ g.res = f.res /\ g.obj = o
    BY <1>2, <1>4, <1>5, ObjFields
  <1>7. PICK h : h = AtStep(g, "add")
    OBVIOUS
  <1>8. /\ h \in FrameType /\ h.fn = f.fn /\ h.ptr = f.ptr /\ h.res = f.res
        /\ h.obj = o /\ h.step = "add"
    BY <1>6, <1>7, StepFields DEF Steps_
  <1>9. stack' = [stack EXCEPT ![t] = <<h>>]
    BY <1>1, <1>3, <1>5, <1>7
  <1>10. OuterOK(t, h)
    <2>1. FrameOK(h)
      BY <1>2, <1>4, <1>8 DEF FrameOK
    <2> QED BY <1>2, <1>8, <2>1 DEF OuterOK
  <1>11. LiveOf(h) \subseteq LiveOf(f)
    BY <1>2, <1>8 DEF LiveOf
  <1>12. (Stacks /\ InitOK /\ HTypes /\ LivesOK)'
    BY <1>3, <1>8, <1>9, <1>10, <1>11, ListStep
  <1>13. /\ stack'[t] = <<h>> /\ \A u \in Threads : u # t => stack'[u] = stack[u]
    BY <1>9 DEF HInv, HTypes
  <1>14. /\ Where(<<h>>) = "add" /\ Forget(<<h>>) = {} /\ Hand(<<h>>) = {o}
         /\ Claim(<<h>>) = {} /\ Claim(stack[t]) = {}
    <2>1. InFlight(h) = {} /\ InFlight(f) = {}
      BY <1>8 DEF InFlight, TouchSteps
    <2> QED BY <1>1, <1>8, <2>1, Views1
  <1>15. TrackedOK'
    <2>1. ASSUME NEW a \in Addrs
          PROVE  /\ Claimants(a)' = Claimants(a) /\ Forgetters(a)' = Forgetters(a)
                 /\ Holding(a)' = Holding(a) /\ (a \in Owned' <=> a \in Owned)
      <3>1. Claimants(a)' = Claimants(a) /\ Forgetters(a)' = Forgetters(a)
        BY <1>1, <1>13, <1>14 DEF Claimants, Forgetters
      <3>2. Holding(a)' = Holding(a) /\ (a \in Owned' <=> a \in Owned)
        BY <1>3 DEF Holding, Owned
      <3> QED BY <3>1, <3>2
    <2>2. is_exit_done' = is_exit_done
      BY <1>3 DEF endVars
    <2>3. TrackedOK
      BY DEF HInv
    <2> QED BY <2>1, <2>2, <2>3 DEF TrackedOK
  <1>16. Hands' = Hands \cup {t} /\ t \notin Hands
    BY <1>1, <1>13, <1>14 DEF Hands
  <1>17. Cardinality(Hands') = Cardinality(Hands) + 1
    BY <1>16, ThreadsFinite, OneMore
  <1>18. ObjectsOK'
    <2>1. /\ allocs \in Seq(Object) /\ IsInjective(allocs)
          /\ DOMAIN mem = ToSet(allocs) /\ \A x \in DOMAIN mem : mem[x] \in Addrs
          /\ ToSet(allocs) \cap ToSet(alloc_pool) = {}
          /\ ToSet(allocs) \cup ToSet(alloc_pool) \subseteq Carved
          /\ \A u \in Threads : Hand(stack[u]) \cap (ToSet(allocs) \cup ToSet(alloc_pool)) = {}
          /\ \A u, v \in Threads : u # v => Hand(stack[u]) \cap Hand(stack[v]) = {}
          /\ \A u \in Threads : Hand(stack[u]) \subseteq Carved
          /\ alloc_count = Len(allocs)
      BY DEF HInv, ObjectsOK
    <2>2. Len(allocs) + Len(alloc_pool') + Cardinality(Hands')
            = ALLOCATION_BATCH_SIZE * (batches' - 1) + used'
      <3>1. Len(allocs) \in Nat /\ Len(alloc_pool') \in Nat /\ Cardinality(Hands) \in Nat
        BY <1>4, <2>1, ThreadsFinite, LenProperties
      <3> QED BY <1>4, <1>17, <3>1
    <2>3. \A u \in Threads : Hand(stack'[u]) = IF u = t THEN {o} ELSE Hand(stack[u])
      BY <1>13, <1>14
    <2>4. /\ \A u \in Threads : Hand(stack'[u]) \cap (ToSet(allocs) \cup ToSet(alloc_pool')) = {}
          /\ \A u, v \in Threads : u # v => Hand(stack'[u]) \cap Hand(stack'[v]) = {}
          /\ \A u \in Threads : Hand(stack'[u]) \subseteq Carved'
          /\ ToSet(allocs) \cup ToSet(alloc_pool') \subseteq Carved'
      <3>1. \A u \in Threads : Hand(stack'[u]) \cap (ToSet(allocs) \cup ToSet(alloc_pool')) = {}
        <4>1. ASSUME NEW u \in Threads
              PROVE  Hand(stack'[u]) \cap (ToSet(allocs) \cup ToSet(alloc_pool')) = {}
          <5>1. Hand(stack[u]) \cap (ToSet(allocs) \cup ToSet(alloc_pool)) = {}
            BY <2>1
          <5>2. Hand(stack'[u]) = {o} \/ Hand(stack'[u]) = Hand(stack[u])
            BY <2>3
          <5> QED BY <1>4, <5>1, <5>2
        <4> QED BY <4>1
      <3>2. \A u, v \in Threads : u # v => Hand(stack'[u]) \cap Hand(stack'[v]) = {}
        <4>1. ASSUME NEW u \in Threads, NEW v \in Threads, u # v
              PROVE  Hand(stack'[u]) \cap Hand(stack'[v]) = {}
          <5>1. /\ o \notin Hand(stack[u]) /\ o \notin Hand(stack[v])
                /\ Hand(stack[u]) \cap Hand(stack[v]) = {}
            BY <1>4, <2>1, <4>1
          <5>2. /\ Hand(stack'[u]) = IF u = t THEN {o} ELSE Hand(stack[u])
                /\ Hand(stack'[v]) = IF v = t THEN {o} ELSE Hand(stack[v])
            BY <2>3
          <5> QED BY <4>1, <5>1, <5>2
        <4> QED BY <4>1
      <3>3. \A u \in Threads : Hand(stack'[u]) \subseteq Carved'
        BY <1>4, <2>1, <2>3
      <3> QED BY <1>4, <2>1, <3>1, <3>2, <3>3
    <2>5. ToSet(allocs) \cap ToSet(alloc_pool') = {}
      BY <1>4, <2>1
    <2> QED BY <1>3, <1>4, <2>1, <2>2, <2>4, <2>5 DEF ObjectsOK
  <1>19. OwedOK'
    <2>1. owed = <<>> /\ (report # <<>> => is_exit_done)
      BY <1>1 DEF HInv, OwedOK
    <2> QED BY <1>3, <2>1 DEF OwedOK, endVars
  <1>20. ~ aborted'
    BY <1>2, <1>3
  <1> QED BY <1>12, <1>15, <1>18, <1>19, <1>20 DEF HInv

LEMMA AddStep ==
  ASSUME HInv, NEW t \in Threads, AddObject(t)
  PROVE  HInv'
  <1> PICK f : stack[t] = <<f>> /\ OuterOK(t, f) /\ f.step = "add"
    BY OuterAt DEF AddObject, HInv
  <1>1. /\ Top(t) = f /\ Where(stack[t]) = "add" /\ Claim(stack[t]) = InFlight(f) \cap Addrs
        /\ Forget(stack[t]) = {} /\ Hand(stack[t]) = {f.obj}
        /\ \A h : SetTop(t, h) => stack' = [stack EXCEPT ![t] = <<h>>]
    BY Alone
  <1>2. /\ FrameOK(f) /\ f \in FrameType /\ is_init_done /\ f.res \in Addrs /\ f.ptr # f.res
        /\ f.res # Static /\ f.fn \notin Releasing /\ f.obj \in Object
    BY DEF OuterOK, FrameOK
  <1> PICK o : o = f.obj
    OBVIOUS
  <1> PICK r : r = f.res
    OBVIOUS
  <1>3. /\ mem' = [x \in DOMAIN mem \cup {o} |-> IF x = o THEN r ELSE mem[x]]
        /\ allocs' = <<o>> \o allocs /\ alloc_count' = alloc_count + 1
        /\ Goto(t, "end")
        /\ UNCHANGED <<use, initVars, endVars>> /\ UNCHANGED endVars /\ UNCHANGED alloc_pool
        /\ UNCHANGED batches /\ UNCHANGED used /\ UNCHANGED aborted
    <2>1. New(f) = r
      BY <1>2 DEF New
    <2> QED BY <1>1, <2>1 DEF AddObject
  <1>4. PICK h : h = AtStep(f, "end")
    OBVIOUS
  <1>5. /\ h \in FrameType /\ h.fn = f.fn /\ h.ptr = f.ptr /\ h.res = f.res
        /\ h.step = "end"
    BY <1>2, <1>4, StepFields DEF Steps_
  <1>6. stack' = [stack EXCEPT ![t] = <<h>>]
    BY <1>1, <1>3, <1>4 DEF Goto
  <1>7. OuterOK(t, h)
    <2>1. FrameOK(h)
      BY <1>2, <1>5 DEF FrameOK
    <2> QED BY <1>2, <1>5, <2>1 DEF OuterOK
  <1>8. LiveOf(h) \subseteq LiveOf(f)
    BY <1>2, <1>5 DEF LiveOf
  <1>9. (Stacks /\ InitOK /\ HTypes /\ LivesOK)'
    BY <1>3, <1>5, <1>6, <1>7, <1>8, ListStep
  <1>10. /\ stack'[t] = <<h>> /\ \A u \in Threads : u # t => stack'[u] = stack[u]
    BY <1>6 DEF HInv, HTypes
  <1>11. /\ Where(<<h>>) = "end" /\ Forget(<<h>>) = {} /\ Hand(<<h>>) = {}
         /\ Claim(<<h>>) = {r} /\ Claim(stack[t]) = {}
    <2>1. InFlight(h) = {r} /\ InFlight(f) = {}
      BY <1>2, <1>5 DEF InFlight, TouchSteps
    <2>2. {r} \cap Addrs = {r}
      BY <1>2
    <2>3. Where(<<h>>) = "end" /\ Forget(<<h>>) = {} /\ Hand(<<h>>) = {}
          /\ Claim(<<h>>) = InFlight(h) \cap Addrs
      BY <1>5, Views1
    <2> QED BY <1>1, <2>1, <2>2, <2>3
  <1>12. /\ o \in Object /\ o \notin ToSet(allocs) /\ o \notin ToSet(alloc_pool)
         /\ o \in Carved /\ o \notin DOMAIN mem
         /\ \A u \in Threads : u # t => o \notin Hand(stack[u])
    BY <1>1, <1>2 DEF HInv, ObjectsOK
  <1>13. /\ DOMAIN mem' = DOMAIN mem \cup {o} /\ mem'[o] = r
         /\ \A x \in DOMAIN mem : mem'[x] = mem[x]
    BY <1>3, <1>12
  <1>14. TrackedOK'
    <2>1. ASSUME NEW a \in Addrs
          PROVE  /\ ~ is_exit_done => Cardinality(Holding(a)')
                      = (IF a \in Owned' THEN 1 ELSE 0) + Cardinality(Claimants(a)')
                 /\ Cardinality(Forgetters(a)') <= Cardinality(Holding(a)')
      <3>1. /\ Cardinality(Holding(a)) \in Nat /\ IsFiniteSet(Holding(a))
            /\ Cardinality(Claimants(a)) \in Nat /\ IsFiniteSet(Claimants(a))
            /\ Cardinality(Forgetters(a)) \in Nat
        BY ListFinite, ThreadsFinite DEF HInv
      <3>2. a \in Owned' <=> a \in Owned
        BY <1>3 DEF Owned
      <3>3. /\ ~ is_exit_done => Cardinality(Holding(a))
                 = (IF a \in Owned THEN 1 ELSE 0) + Cardinality(Claimants(a))
            /\ Cardinality(Forgetters(a)) <= Cardinality(Holding(a))
        BY DEF HInv, TrackedOK
      <3>4. Forgetters(a)' = Forgetters(a)
        BY <1>1, <1>10, <1>11 DEF Forgetters
      <3>5. CASE a = r
        <4>1. Cardinality(Holding(a)') = Cardinality(Holding(a)) + 1
          <5>1. Holding(a)' = Holding(a) \cup {o} /\ o \notin Holding(a)
            BY <1>12, <1>13, <3>5 DEF Holding
          <5> QED BY <3>1, <5>1, OneMore
        <4>2. Cardinality(Claimants(a)') = Cardinality(Claimants(a)) + 1
          <5>1. Claimants(a)' = Claimants(a) \cup {t} /\ t \notin Claimants(a)
            BY <1>10, <1>11, <3>5 DEF Claimants
          <5> QED BY <3>1, <5>1, OneMore
        <4> QED BY <3>1, <3>2, <3>3, <3>4, <4>1, <4>2
      <3>6. CASE a # r
        <4>1. Holding(a)' = Holding(a)
          BY <1>12, <1>13, <3>6 DEF Holding
        <4>2. Claimants(a)' = Claimants(a)
          BY <1>10, <1>11, <3>6 DEF Claimants
        <4> QED BY <3>2, <3>3, <3>4, <4>1, <4>2
      <3> QED BY <3>5, <3>6
    <2>2. is_exit_done' = is_exit_done
      BY <1>3 DEF endVars
    <2> QED BY <2>1, <2>2 DEF TrackedOK
  <1>15. /\ allocs' \in Seq(Object) /\ Len(allocs') = Len(allocs) + 1
         /\ ToSet(allocs') = ToSet(allocs) \cup {o} /\ IsInjective(allocs')
         /\ Len(allocs) \in Nat /\ Len(alloc_pool) \in Nat
    <2>1. allocs \in Seq(Object) /\ IsInjective(allocs) /\ alloc_pool \in Seq(Object)
      BY DEF HInv, ObjectsOK
    <2>2. /\ <<o>> \o allocs \in Seq(Object) /\ Len(<<o>> \o allocs) = Len(allocs) + 1
          /\ ToSet(<<o>> \o allocs) = ToSet(allocs) \cup {o} /\ IsInjective(<<o>> \o allocs)
      BY <1>12, <2>1, Prepended
    <2> QED BY <1>3, <2>1, <2>2, LenProperties
  <1>16. Hands' = Hands \ {t} /\ t \in Hands
    BY <1>1, <1>10, <1>11 DEF Hands
  <1>17. Cardinality(Hands') = Cardinality(Hands) - 1 /\ Cardinality(Hands) \in Nat
    BY <1>16, ThreadsFinite, OneLess
  <1>18. ObjectsOK'
    <2>1. /\ alloc_pool \in Seq(Object) /\ IsInjective(alloc_pool)
          /\ batches \in Nat /\ used \in 1..ALLOCATION_BATCH_SIZE
          /\ batches = 0 => used = ALLOCATION_BATCH_SIZE
          /\ DOMAIN mem = ToSet(allocs) /\ \A x \in DOMAIN mem : mem[x] \in Addrs
          /\ ToSet(allocs) \cap ToSet(alloc_pool) = {}
          /\ ToSet(allocs) \cup ToSet(alloc_pool) \subseteq Carved
      BY DEF HInv, ObjectsOK
    <2>2. /\ \A u \in Threads : Hand(stack[u]) \cap (ToSet(allocs) \cup ToSet(alloc_pool)) = {}
          /\ \A u, v \in Threads : u # v => Hand(stack[u]) \cap Hand(stack[v]) = {}
          /\ \A u \in Threads : Hand(stack[u]) \subseteq Carved
      BY DEF HInv, ObjectsOK
    <2>3. /\ Len(allocs) + Len(alloc_pool) + Cardinality(Hands)
               = ALLOCATION_BATCH_SIZE * (batches - 1) + used
          /\ alloc_count = Len(allocs)
      BY DEF HInv, ObjectsOK
    <2>4. Len(allocs') + Len(alloc_pool') + Cardinality(Hands')
            = ALLOCATION_BATCH_SIZE * (batches' - 1) + used'
          /\ alloc_count' = Len(allocs')
      <3>1. Len(allocs') + Len(alloc_pool) + Cardinality(Hands')
              = Len(allocs) + Len(alloc_pool) + Cardinality(Hands)
        BY <1>15, <1>17
      <3> QED BY <1>3, <1>15, <2>3, <3>1
    <2>5. Carved' = Carved
      BY <1>3 DEF Carved
    <2>6. \A u \in Threads : Hand(stack'[u]) \subseteq Hand(stack[u]) /\ o \notin Hand(stack'[u])
      BY <1>10, <1>11, <1>12
    <2>7. /\ \A u \in Threads : Hand(stack'[u]) \cap (ToSet(allocs') \cup ToSet(alloc_pool)) = {}
          /\ \A u, v \in Threads : u # v => Hand(stack'[u]) \cap Hand(stack'[v]) = {}
          /\ \A u \in Threads : Hand(stack'[u]) \subseteq Carved
      <3>1. ASSUME NEW u \in Threads
            PROVE  /\ Hand(stack'[u]) \cap (ToSet(allocs') \cup ToSet(alloc_pool)) = {}
                   /\ Hand(stack'[u]) \subseteq Carved
        <4>1. /\ Hand(stack[u]) \cap (ToSet(allocs) \cup ToSet(alloc_pool)) = {}
              /\ Hand(stack[u]) \subseteq Carved
          BY <2>2
        <4>2. Hand(stack'[u]) \subseteq Hand(stack[u]) /\ o \notin Hand(stack'[u])
          BY <2>6
        <4> QED BY <1>15, <4>1, <4>2
      <3>2. ASSUME NEW u \in Threads, NEW v \in Threads, u # v
            PROVE  Hand(stack'[u]) \cap Hand(stack'[v]) = {}
        <4>1. Hand(stack[u]) \cap Hand(stack[v]) = {}
          BY <2>2, <3>2
        <4>2. Hand(stack'[u]) \subseteq Hand(stack[u]) /\ Hand(stack'[v]) \subseteq Hand(stack[v])
          BY <2>6
        <4> QED BY <4>1, <4>2
      <3> QED BY <3>1, <3>2
    <2>8. /\ ToSet(allocs') \cap ToSet(alloc_pool) = {}
          /\ ToSet(allocs') \cup ToSet(alloc_pool) \subseteq Carved
      BY <1>12, <1>15, <2>1
    <2>9. DOMAIN mem' = ToSet(allocs') /\ \A x \in DOMAIN mem' : mem'[x] \in Addrs
      BY <1>2, <1>13, <1>15, <2>1
    <2> QED BY <1>3, <1>15, <2>1, <2>4, <2>5, <2>7, <2>8, <2>9 DEF ObjectsOK
  <1>19. OwedOK'
    <2>1. owed = <<>> /\ (report # <<>> => is_exit_done)
      BY <1>1 DEF HInv, OwedOK
    <2> QED BY <1>3, <2>1 DEF OwedOK, endVars
  <1>20. ~ aborted'
    BY <1>3 DEF HInv
  <1> QED BY <1>9, <1>14, <1>18, <1>19, <1>20 DEF HInv

-----------------------------------------------------------------------------
(***************************************************************************)
(* The end of the program                                                  *)
(***************************************************************************)

\* When nobody is inside of a call, the list has one object for each block.
LEMMA QuietList ==
  ASSUME HInv, ~ is_exit_done, \A t \in Threads : stack[t] = <<>>
  PROVE  Len(allocs) = Cardinality(Owned)
  <1>1. \A a : Claimants(a) = {}
    BY DEF Claimants, Claim
  <1>2. \A a \in Addrs : Cardinality(Holding(a)) = IF a \in Owned THEN 1 ELSE 0
    <2>1. ASSUME NEW a \in Addrs
          PROVE  Cardinality(Holding(a)) = IF a \in Owned THEN 1 ELSE 0
      <3>1. Cardinality(Claimants(a)) = 0
        BY <1>1, FS_EmptySet
      <3>2. Cardinality(Holding(a))
              = (IF a \in Owned THEN 1 ELSE 0) + Cardinality(Claimants(a))
        BY DEF HInv, TrackedOK
      <3> QED BY <3>1, <3>2
    <2> QED BY <2>1
  <1>3. \A a : IsFiniteSet(Holding(a))
    BY ListFinite DEF HInv
  <1> DEFINE b == [o \in DOMAIN mem |-> mem[o]]
  <1>4. b \in Bijection(DOMAIN mem, Owned)
    <2>1. ASSUME NEW o \in DOMAIN mem PROVE mem[o] \in Owned
      <3>1. mem[o] \in Addrs /\ o \in Holding(mem[o])
        BY DEF HInv, ObjectsOK, Holding
      <3>2. Cardinality(Holding(mem[o])) # 0
        BY <1>3, <3>1, FS_EmptySet
      <3> QED BY <1>2, <3>1, <3>2
    <2>2. ASSUME NEW o \in DOMAIN mem, NEW x \in DOMAIN mem, mem[o] = mem[x] PROVE o = x
      <3> DEFINE H == Holding(mem[o])
      <3>1. o \in H /\ x \in H
        BY <2>2 DEF Holding
      <3>2. IsFiniteSet(H) /\ Cardinality(H) = 1
        BY <1>2, <1>3, <2>1 DEF Owned
      <3> HIDE DEF H
      <3>3. PICK e : H = {e}
        BY <3>2, FS_Singleton
      <3> QED BY <3>1, <3>3
    <2>3. ASSUME NEW a \in Owned PROVE \E o \in DOMAIN mem : mem[o] = a
      <3>1. Cardinality(Holding(a)) = 1
        BY <1>2 DEF Owned
      <3>2. Holding(a) # {}
        <4> DEFINE H == Holding(a)
        <4>1. IsFiniteSet(H) /\ Cardinality(H) = 1
          BY <1>3, <3>1
        <4> HIDE DEF H
        <4>2. \E e : H = {e}
          BY <4>1, FS_Singleton
        <4>3. H # {}
          BY <4>2
        <4> QED BY <4>3 DEF H
      <3> QED BY <3>2 DEF Holding
    <2> QED BY <2>1, <2>2, <2>3 DEF Bijection, Injection, Surjection, IsInjective
  <1>5. IsFiniteSet(DOMAIN mem) /\ Cardinality(DOMAIN mem) = Len(allocs)
    BY ListFinite DEF HInv
  <1>6. Cardinality(DOMAIN mem) = Cardinality(Owned)
    BY <1>4, <1>5, FS_Bijection DEF ExistsBijection
  <1> QED BY <1>5, <1>6

LEMMA OwnedCount ==
  ASSUME HInv
  PROVE  /\ Cardinality({a \in Addrs : use[a] \in {"block", "info"}}) \in Nat
         /\ Cardinality({a \in Addrs : use[a] = "own"}) \in Nat
         /\ Cardinality({a \in Addrs : use[a] \in {"block", "info"}})
              + Cardinality({a \in Addrs : use[a] = "own"}) = Cardinality(Owned)
  <1> DEFINE A == {a \in Addrs : use[a] \in {"block", "info"}}
             B == {a \in Addrs : use[a] = "own"}
  <1>1. A \in SUBSET Addrs /\ B \in SUBSET Addrs /\ A \cap B = {} /\ A \cup B = Owned
    BY DEF Owned
  <1> HIDE DEF A, B
  <1>2. IsFiniteSet(A) /\ IsFiniteSet(B) /\ Cardinality(A) \in Nat /\ Cardinality(B) \in Nat
    BY <1>1, FS_Subset, FS_CardinalityType
  <1>3. Cardinality(A \cup B) = Cardinality(A) + Cardinality(B) - Cardinality(A \cap B)
    BY <1>2, FS_Union
  <1>4. Cardinality(A \cap B) = 0
    BY <1>1, FS_EmptySet
  <1>5. Cardinality(A) + Cardinality(B) = Cardinality(Owned)
    BY <1>1, <1>2, <1>3, <1>4
  <1> QED BY <1>2, <1>5 DEF A, B

LEMMA StartExitStep ==
  ASSUME HInv, report = <<>>, StartExit
  PROVE  HInv'
  <1>1. /\ ~ is_exit_done /\ is_exit_done' = TRUE /\ report' = <<>>
        /\ UNCHANGED use /\ UNCHANGED stack /\ UNCHANGED initVars /\ UNCHANGED listVars
        /\ UNCHANGED aborted
    BY DEF StartExit
  <1>2. HTypes'
    BY <1>1 DEF HInv, HTypes, initVars
  <1>3. Stacks'
    <2>1. \A t, s : StackOK(t, s)' <=> StackOK(t, s)
      BY <1>1 DEF StackOK, OuterOK, InnerOK, initVars
    <2>2. \A t \in Threads : StackOK(t, stack[t])
      BY DEF HInv, Stacks
    <2>3. \A t \in Threads : StackOK(t, stack'[t])
      BY <1>1, <2>2
    <2> QED BY <2>1, <2>3 DEF Stacks
  <1>4. InitOK'
    BY <1>1 DEF HInv, InitOK, initVars
  <1>5. LivesOK'
    BY <1>1 DEF HInv, LivesOK
  <1>6. TrackedOK'
    <2>1. ASSUME NEW a \in Addrs PROVE Cardinality(Forgetters(a)') <= Cardinality(Holding(a)')
      <3>1. Forgetters(a)' = Forgetters(a) /\ Holding(a)' = Holding(a)
        BY <1>1 DEF Forgetters, Holding, listVars
      <3> QED BY <3>1 DEF HInv, TrackedOK
    <2> QED BY <1>1, <2>1 DEF TrackedOK
  <1>7. ObjectsOK'
    BY <1>1 DEF HInv, ObjectsOK, listVars, Carved, Hands
  <1>8. OwedOK'
    <2> DEFINE A == {a \in Addrs : use[a] \in {"block", "info"}}
               B == {a \in Addrs : use[a] = "own"}
               m == Cardinality(A)
               k == Cardinality(B)
    <2>1. owed' = IF \E t \in Threads : Busy(t) THEN <<>> ELSE <<m, k>>
      BY DEF StartExit
    <2>2. m \in Nat /\ k \in Nat /\ m + k = Cardinality(Owned)
      BY OwnedCount
    <2> HIDE DEF A, B, m, k
    <2>3. CASE \E t \in Threads : Busy(t)
      BY <1>1, <2>1, <2>3 DEF OwedOK
    <2>4. CASE \A t \in Threads : stack[t] = <<>>
      <3>1. owed' = <<m, k>>
        BY <2>1, <2>4 DEF Busy
      <3>2. owed' \in Seq(Nat) /\ Len(owed') = 2 /\ owed'[1] = m /\ owed'[2] = k
        BY <2>2, <3>1
      <3>3. Len(allocs) = m + k
        BY <1>1, <2>2, <2>4, QuietList
      <3>4. \A t \in Threads : Where(stack'[t]) = "idle"
        BY <1>1, <2>4 DEF Where
      <3>5. allocs' = allocs
        BY <1>1 DEF listVars
      <3> HIDE DEF m, k
      <3>6. Len(allocs') = owed'[1] + owed'[2]
        BY <3>2, <3>3, <3>5
      <3>7. \A t \in Threads : Where(stack'[t]) \notin {"forget", "take", "add"}
        BY <3>4
      <3> QED BY <1>1, <3>2, <3>6, <3>7 DEF OwedOK
    <2> QED BY <2>3, <2>4 DEF Busy
  <1> QED BY <1>1, <1>2, <1>3, <1>4, <1>5, <1>6, <1>7, <1>8 DEF HInv

LEMMA LeaksCount ==
  ASSUME HInv
  PROVE  Leaks \in Nat /\ alloc_count = Len(allocs) /\ Len(allocs) \in Nat
  <1>1. {o \in ToSet(allocs) : o \notin internal} \in SUBSET DOMAIN mem
    BY DEF HInv, ObjectsOK
  <1>2. Leaks \in Nat
    BY <1>1, ListFinite, FS_Subset, FS_CardinalityType DEF Leaks, HInv
  <1> QED BY <1>2, LenProperties DEF HInv, ObjectsOK

LEMMA CountStep ==
  ASSUME HInv, report = <<>>, heaph_atexit
  PROVE  HInv'
  <1>1. /\ is_exit_done /\ is_exit_done' = is_exit_done /\ owed' = owed
        /\ report' = <<Leaks, alloc_count - Leaks>>
        /\ UNCHANGED use /\ UNCHANGED stack /\ UNCHANGED initVars /\ UNCHANGED listVars
    BY DEF heaph_atexit
  <1>2. HTypes'
    BY <1>1 DEF HInv, HTypes, initVars
  <1>3. Stacks'
    <2>1. \A t, s : StackOK(t, s)' <=> StackOK(t, s)
      BY <1>1 DEF StackOK, OuterOK, InnerOK, initVars
    <2>2. \A t \in Threads : StackOK(t, stack[t])
      BY DEF HInv, Stacks
    <2>3. \A t \in Threads : StackOK(t, stack'[t])
      BY <1>1, <2>2
    <2> QED BY <2>1, <2>3 DEF Stacks
  <1>4. InitOK'
    BY <1>1 DEF HInv, InitOK, initVars
  <1>5. LivesOK'
    BY <1>1 DEF HInv, LivesOK
  <1>6. TrackedOK'
    <2>1. ASSUME NEW a \in Addrs PROVE Cardinality(Forgetters(a)') <= Cardinality(Holding(a)')
      <3>1. Forgetters(a)' = Forgetters(a) /\ Holding(a)' = Holding(a)
        BY <1>1 DEF Forgetters, Holding, listVars
      <3> QED BY <3>1 DEF HInv, TrackedOK
    <2> QED BY <1>1, <2>1 DEF TrackedOK
  <1>7. ObjectsOK'
    BY <1>1 DEF HInv, ObjectsOK, listVars, Carved, Hands
  <1>8. OwedOK'
    <2>1. Leaks \in Nat /\ alloc_count = Len(allocs) /\ Len(allocs) \in Nat
      BY LeaksCount
    <2>2. report'[1] + report'[2] = Len(allocs)
      BY <1>1, <2>1
    <2>3. owed # <<>> =>
            /\ \A t \in Threads : Where(stack[t]) \notin {"forget", "take", "add"}
            /\ owed \in Seq(Nat) /\ Len(owed) = 2
            /\ Len(allocs) = owed[1] + owed[2]
      BY DEF HInv, OwedOK
    <2>4. allocs' = allocs
      BY <1>1 DEF listVars
    <2> QED BY <1>1, <2>2, <2>3, <2>4 DEF OwedOK
  \* Before the i-th object there are fewer than i internal ones.
  <1>9. ~ aborted'
    <2>1. ASSUME NEW i \in DOMAIN allocs
          PROVE  ~ (alloc_count <= Cardinality({j \in 1..(i - 1) : allocs[j] \in internal}))
      <3>1. i \in 1..Len(allocs) /\ alloc_count = Len(allocs) /\ Len(allocs) \in Nat
        BY LeaksCount, LenProperties DEF HInv, ObjectsOK
      <3> DEFINE n == i - 1
      <3>2. n \in Nat /\ n < Len(allocs)
        BY <3>1
      <3> HIDE DEF n
      <3>3. IsFiniteSet(1..n) /\ Cardinality(1..n) = n
        BY <3>2, FS_Interval
      <3>4. {j \in 1..n : allocs[j] \in internal} \in SUBSET (1..n)
        OBVIOUS
      <3>5. Cardinality({j \in 1..n : allocs[j] \in internal}) <= n
            /\ Cardinality({j \in 1..n : allocs[j] \in internal}) \in Nat
        BY <3>3, <3>4, FS_Subset, FS_CardinalityType
      <3> QED BY <3>1, <3>2, <3>5 DEF n
    <2> QED BY <2>1 DEF heaph_atexit
  <1> QED BY <1>2, <1>3, <1>4, <1>5, <1>6, <1>7, <1>8, <1>9 DEF HInv

-----------------------------------------------------------------------------
(***************************************************************************)
(* Theorems                                                                *)
(***************************************************************************)

LEMMA HInit ==
  ASSUME Init
  PROVE  HInv
  <1>1. DOMAIN stack = Threads /\ \A t \in Threads : stack[t] = <<>>
    BY DEF Init
  <1>2. \A t \in Threads : /\ Where(stack[t]) = "idle" /\ Lives(stack[t]) = {}
                           /\ Claim(stack[t]) = {} /\ Forget(stack[t]) = {}
                           /\ Hand(stack[t]) = {}
    BY <1>1 DEF Where, Lives, Claim, Forget, Hand
  <1>3. HTypes
    BY <1>1 DEF Init, HTypes
  <1>4. Stacks
    BY <1>1 DEF Stacks, StackOK
  <1>5. InitOK
    BY <1>2 DEF Init, InitOK
  <1>6. LivesOK
    BY <1>2 DEF LivesOK
  <1>7. TrackedOK
    <2>1. ASSUME NEW a \in Addrs
          PROVE  /\ Claimants(a) = {} /\ Forgetters(a) = {} /\ Holding(a) = {}
                 /\ a \notin Owned
      BY <1>2 DEF Init, Claimants, Forgetters, Holding, Owned
    <2>2. Cardinality({}) = 0
      BY FS_EmptySet
    <2> QED BY <2>1, <2>2 DEF TrackedOK
  <1>8. ObjectsOK
    <2>1. Hands = {} /\ Cardinality(Hands) = 0
      BY <1>2, FS_EmptySet DEF Hands
    <2>2. /\ allocs = <<>> /\ alloc_pool = <<>> /\ batches = 0
          /\ used = ALLOCATION_BATCH_SIZE /\ DOMAIN mem = {} /\ alloc_count = 0
      BY DEF Init
    <2>3. ToSet(allocs) = {} /\ ToSet(alloc_pool) = {}
      BY <2>2 DEF ToSet
    <2>4. /\ allocs \in Seq(Object) /\ alloc_pool \in Seq(Object)
          /\ IsInjective(allocs) /\ IsInjective(alloc_pool)
      BY <2>2 DEF IsInjective
    <2>5. Len(allocs) + Len(alloc_pool) + Cardinality(Hands)
            = ALLOCATION_BATCH_SIZE * (batches - 1) + used
          /\ alloc_count = Len(allocs)
      <3>1. ALLOCATION_BATCH_SIZE * (0 - 1) + ALLOCATION_BATCH_SIZE = 0
        OBVIOUS
      <3> QED BY <2>1, <2>2, <3>1
    <2>6. batches \in Nat /\ used \in 1..ALLOCATION_BATCH_SIZE
      BY <2>2
    <2>7. DOMAIN mem = ToSet(allocs) /\ \A o \in DOMAIN mem : mem[o] \in Addrs
      BY <2>2, <2>3
    <2>8. /\ ToSet(allocs) \cap ToSet(alloc_pool) = {}
          /\ ToSet(allocs) \cup ToSet(alloc_pool) \subseteq Carved
      BY <2>3
    <2>9. /\ \A t \in Threads : Hand(stack[t]) \cap (ToSet(allocs) \cup ToSet(alloc_pool)) = {}
          /\ \A t, u \in Threads : t # u => Hand(stack[t]) \cap Hand(stack[u]) = {}
          /\ \A t \in Threads : Hand(stack[t]) \subseteq Carved
      BY <1>2
    <2>10. batches = 0 => used = ALLOCATION_BATCH_SIZE
      BY <2>2
    <2> QED BY <2>4, <2>5, <2>6, <2>7, <2>8, <2>9, <2>10 DEF ObjectsOK
  <1>9. OwedOK /\ ~ aborted
    BY DEF Init, OwedOK
  <1> QED BY <1>3, <1>4, <1>5, <1>6, <1>7, <1>8, <1>9 DEF HInv

LEMMA HNext ==
  ASSUME HInv, [Next]_vars
  PROVE  HInv'
  <1>1. ASSUME Next PROVE HInv'
    <2>1. ASSUME NEW t \in Threads, Calls(t) PROVE HInv'
      BY <2>1, CallsStep
    <2>2. ASSUME NEW t \in Threads, Steps(t) PROVE HInv'
      BY <2>2, TouchStep, LockStep, DlsymStep, InitDoneStep, ExchangeStep, UnlockStep,
         StaticStep, DefaultStep, FreeStep, TakeStep, BacktraceStep, AddStep, ReturnStep
         DEF Steps
    <2>3. CASE StartExit
      BY <1>1, <2>3, StartExitStep DEF Next
    <2>4. CASE heaph_atexit
      BY <1>1, <2>4, CountStep DEF Next
    <2> QED BY <1>1, <2>1, <2>2, <2>3, <2>4 DEF Next
  <1>2. ASSUME UNCHANGED vars PROVE HInv'
    <2>1. /\ UNCHANGED use /\ UNCHANGED stack /\ UNCHANGED initVars /\ UNCHANGED endVars
          /\ UNCHANGED listVars /\ UNCHANGED aborted
      BY <1>2 DEF vars
    <2>2. HTypes'
      BY <2>1 DEF HInv, HTypes, initVars, endVars
    <2>3. Stacks'
      <3>1. \A t, s : StackOK(t, s)' <=> StackOK(t, s)
        BY <2>1 DEF StackOK, OuterOK, InnerOK, initVars
      <3>2. \A t \in Threads : StackOK(t, stack'[t])
        BY <2>1 DEF HInv, Stacks
      <3> QED BY <3>1, <3>2 DEF Stacks
    <2>4. InitOK' /\ LivesOK'
      BY <2>1 DEF HInv, InitOK, LivesOK, initVars
    <2>5. TrackedOK'
      BY <2>1 DEF HInv, TrackedOK, Owned, Claimants, Forgetters, Holding, listVars, endVars
    <2>6. ObjectsOK'
      BY <2>1 DEF HInv, ObjectsOK, listVars, Carved, Hands
    <2>7. OwedOK'
      BY <2>1 DEF HInv, OwedOK, listVars, endVars
    <2> QED BY <2>1, <2>2, <2>3, <2>4, <2>5, <2>6, <2>7 DEF HInv
  <1> QED BY <1>1, <1>2

\* The inductive invariant: what every thread is inside of, which blocks its calls
\* own, and how many objects the list holds for each block.
THEOREM TrackerInvariance == Spec => []HInv
  BY HInit, HNext, PTL DEF Spec

\* No assertion of the tracker fails: what is to be forgotten is in the list
\* (heaph_assert of alloc_free), nobody initialises the tracker twice, static_malloc
\* is called in the initialisation only and has room, init_lock is unlocked by its
\* owner, and the report counts no more objects than there are.
THEOREM NeverAborts == Spec => []NoAbort
  <1>1. HInv => NoAbort
    BY DEF HInv, NoAbort
  <1> QED BY <1>1, TrackerInvariance, PTL

LEMMA OutermostOf ==
  ASSUME HInv, NEW t \in Threads, Busy(t)
  PROVE  /\ Where(stack[t]) = Outermost(t).step
         /\ Claim(stack[t]) = InFlight(Outermost(t)) \cap Addrs
         /\ Hand(stack[t]) = IF Outermost(t).step = "add" THEN {Outermost(t).obj} ELSE {}
  BY DEF Busy, Outermost, Where, Claim, Hand

\* Each block the program has, and each that a call is responsible for, is in the
\* list exactly once, for any number of threads: through realloc's moved blocks,
\* addresses that another thread is given before the tracker has forgotten them, and
\* functions of the library that call the tracked ones.
THEOREM BlocksTracked == Spec => []TrackedOnce
  <1>1. ASSUME HInv PROVE TrackedOnce
    <2>1. ASSUME ~ is_exit_done, NEW a \in Addrs
          PROVE  Cardinality({i \in DOMAIN allocs : mem[allocs[i]] = a})
                   = (IF use[a] \in {"block", "info", "own"} THEN 1 ELSE 0)
                     + Cardinality({t \in Threads : Busy(t) /\ a \in InFlight(Outermost(t))})
      <3> DEFINE I == {i \in DOMAIN allocs : mem[allocs[i]] = a}
                 T == {t \in Threads : Busy(t) /\ a \in InFlight(Outermost(t))}
      <3>1. T = Claimants(a)
        <4>1. ASSUME NEW t \in Threads
              PROVE  Busy(t) /\ a \in InFlight(Outermost(t)) <=> a \in Claim(stack[t])
          BY <1>1, OutermostOf DEF Claim, Busy
        <4> QED BY <4>1 DEF Claimants
      <3>2. DOMAIN allocs = 1..Len(allocs) /\ Len(allocs) \in Nat
        BY <1>1, LenProperties DEF HInv, ObjectsOK
      <3>3. IsFiniteSet(I)
        <4> DEFINE n == Len(allocs)
        <4> HIDE DEF n
        <4>1. n \in Nat => IsFiniteSet(1..n) /\ Cardinality(1..n) = n
          BY FS_Interval
        <4>2. IsFiniteSet(1..n) /\ I \in SUBSET (1..n)
          BY <3>2, <4>1 DEF n
        <4> HIDE DEF I
        <4> QED BY <4>2, FS_Subset
      <3> DEFINE b == [i \in I |-> allocs[i]]
      <3>4. b \in Bijection(I, Holding(a))
        BY <1>1 DEF HInv, ObjectsOK, ToSet, IsInjective, Holding, Bijection, Injection, Surjection
      <3>5. Cardinality(I) = Cardinality(Holding(a))
        BY <3>3, <3>4, FS_Bijection DEF ExistsBijection
      <3>6. Cardinality(Holding(a))
              = (IF a \in Owned THEN 1 ELSE 0) + Cardinality(Claimants(a))
        BY <1>1, <2>1 DEF HInv, TrackedOK
      <3>7. a \in Owned <=> use[a] \in {"block", "info", "own"}
        BY DEF Owned
      <3> HIDE DEF I, T
      <3>8. Cardinality(I)
              = (IF use[a] \in {"block", "info", "own"} THEN 1 ELSE 0) + Cardinality(T)
        BY <3>1, <3>5, <3>6, <3>7
      <3> QED BY <3>8 DEF I, T
    <2> QED BY <2>1 DEF TrackedOnce
  <1> QED BY <1>1, TrackerInvariance, PTL

\* An allocation object is in one place only, whatever the threads do between the
\* two sections of alloc_trace_new, and no batch is carved past its end.
THEOREM ObjectsKept == Spec => []ObjectsAccounted
  <1>1. ASSUME HInv PROVE ObjectsAccounted
    <2> DEFINE hands == {t \in Threads : Busy(t) /\ Outermost(t).step = "add"}
               places == allocs \o alloc_pool
    <2>1. \A t \in Threads : /\ t \in hands <=> t \in Hands
                             /\ t \in hands => Hand(stack[t]) = {Outermost(t).obj}
      <3>1. ASSUME NEW t \in Threads
            PROVE  /\ t \in hands <=> t \in Hands
                   /\ t \in hands => Hand(stack[t]) = {Outermost(t).obj}
        <4>1. CASE Busy(t)
          BY <1>1, <4>1, OutermostOf DEF Hands
        <4>2. CASE ~ Busy(t)
          BY <4>2 DEF Hands, Hand, Where, Busy
        <4> QED BY <4>1, <4>2
      <3> QED BY <3>1
    <2>2. hands = Hands
      BY <2>1 DEF Hands
    <2>3. /\ allocs \in Seq(Object) /\ alloc_pool \in Seq(Object)
          /\ IsInjective(allocs) /\ IsInjective(alloc_pool)
          /\ ToSet(allocs) \cap ToSet(alloc_pool) = {}
          /\ \A t \in Threads : Hand(stack[t]) \cap (ToSet(allocs) \cup ToSet(alloc_pool)) = {}
          /\ \A t, u \in Threads : t # u => Hand(stack[t]) \cap Hand(stack[u]) = {}
      BY <1>1 DEF HInv, ObjectsOK
    <2>4. /\ Len(allocs) + Len(alloc_pool) + Cardinality(Hands)
               = ALLOCATION_BATCH_SIZE * (batches - 1) + used
          /\ used \in 1..ALLOCATION_BATCH_SIZE /\ alloc_count = Len(allocs)
      BY <1>1 DEF HInv, ObjectsOK
    <2>5. /\ Len(allocs) \in Nat /\ Len(alloc_pool) \in Nat
          /\ DOMAIN allocs = 1..Len(allocs) /\ DOMAIN alloc_pool = 1..Len(alloc_pool)
      BY <2>3, LenProperties
    <2>6. /\ places \in Seq(Object) /\ Len(places) = Len(allocs) + Len(alloc_pool)
          /\ \A k \in 1..(Len(allocs) + Len(alloc_pool)) :
               places[k] = IF k <= Len(allocs) THEN allocs[k] ELSE alloc_pool[k - Len(allocs)]
      BY <2>3, ConcatProperties
    <2> HIDE DEF hands, places
    <2>7. DOMAIN places = 1..(Len(allocs) + Len(alloc_pool))
      BY <2>6, LenProperties
    <2>8. \A k \in DOMAIN places :
            \/ k \in DOMAIN allocs /\ places[k] = allocs[k]
            \/ k - Len(allocs) \in DOMAIN alloc_pool /\ places[k] = alloc_pool[k - Len(allocs)]
      BY <2>5, <2>6, <2>7
    <2>9. ToSet(places) \subseteq ToSet(allocs) \cup ToSet(alloc_pool)
      BY <2>8 DEF ToSet
    <2>10. IsInjective(places)
      <3>1. ASSUME NEW j \in DOMAIN places, NEW k \in DOMAIN places, places[j] = places[k]
            PROVE  j = k
        <4>1. CASE j \in DOMAIN allocs /\ places[j] = allocs[j]
          <5>1. places[k] \in ToSet(allocs)
            BY <3>1, <4>1 DEF ToSet
          <5>2. k \in DOMAIN allocs /\ places[k] = allocs[k]
            BY <2>3, <2>8, <5>1 DEF ToSet
          <5> QED BY <2>3, <3>1, <4>1, <5>2 DEF IsInjective
        <4>2. CASE /\ j - Len(allocs) \in DOMAIN alloc_pool
                   /\ places[j] = alloc_pool[j - Len(allocs)]
          <5>1. places[k] \in ToSet(alloc_pool)
            BY <3>1, <4>2 DEF ToSet
          <5>2. k - Len(allocs) \in DOMAIN alloc_pool
                /\ places[k] = alloc_pool[k - Len(allocs)]
            BY <2>3, <2>8, <5>1 DEF ToSet
          <5>3. j - Len(allocs) = k - Len(allocs)
            BY <2>3, <3>1, <4>2, <5>2 DEF IsInjective
          <5> QED BY <2>5, <2>7, <5>3
        <4> QED BY <2>8, <4>1, <4>2
      <3> QED BY <3>1 DEF IsInjective
    <2>11. \A t \in hands : /\ Outermost(t).obj \notin ToSet(places)
                            /\ \A u \in hands \ {t} : Outermost(u).obj # Outermost(t).obj
      <3>1. hands \subseteq Threads
        BY DEF hands
      <3>2. ASSUME NEW t \in hands
            PROVE  Outermost(t).obj \notin ToSet(places)
        BY <2>1, <2>3, <2>9, <3>1
      <3>3. ASSUME NEW t \in hands, NEW u \in hands \ {t}
            PROVE  Outermost(u).obj # Outermost(t).obj
        BY <2>1, <2>3, <3>1
      <3> QED BY <3>2, <3>3
    <2>12. Len(places) + Cardinality(hands) = ALLOCATION_BATCH_SIZE * (batches - 1) + used
      BY <2>2, <2>4, <2>6
    <2> QED BY <2>4, <2>10, <2>11, <2>12 DEF ObjectsAccounted, hands, places
  <1> QED BY <1>1, TrackerInvariance, PTL

\* A program that exits when none of its threads is inside of a call has every block
\* reported or suppressed, whatever the other threads do while the report is made.
THEOREM LeaksReported == Spec => []LeaksCounted
  <1>1. HInv => LeaksCounted
    BY DEF HInv, OwedOK, LeaksCounted
  <1> QED BY <1>1, TrackerInvariance, PTL
=============================================================================
