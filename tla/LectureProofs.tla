--------------------------- MODULE LectureProofs ---------------------------
(***************************************************************************)
(* Proofs about the concurrent programs of lecture_examples, for any       *)
(* number of threads, processes, rounds and messages.  Each program is     *)
(* proved about alone: the steps of the others leave its variables as they *)
(* are.                                                                    *)
(***************************************************************************)
EXTENDS MCLectures, SequencesExt, TLAPS, FiniteSetTheorems, SequenceTheorems,
        WellFoundedInduction

USE DEF vars, coroVars, threadVars, condVars, lockVars, sortVars, echoVars, orderVars,
        eventVars, shortVars

-----------------------------------------------------------------------------
(***************************************************************************)
(* 8_futex.c: the lock made of a futex                                     *)
(***************************************************************************)

Inside(t) == at[t] \in {"read", "write", "unlock"}

\* The rounds of a thread whose increment has not been written yet.
Left(t) == rounds[t] - (IF at[t] \in {"unlock", "wake"} THEN 1 ELSE 0)

\* Those of all threads, as a set of pairs to count.
Todo == {p \in Counters \X (1..ROUNDS) : p[2] <= Left(p[1])}

LockTypes ==
  /\ futex \in {0, 1}
  /\ sleeping \subseteq Counters
  /\ counter \in Nat
  /\ at \in [Counters -> {"cas", "wait", "sleep", "read", "write", "unlock", "wake"}]
  /\ rounds \in [Counters -> 0..ROUNDS]
  /\ read \in [Counters -> Nat]

\* One thread is between its lock and its unlock if the word is 1, and none if
\* it is 0; what it has read is still the counter when it writes; and the
\* counter and the rounds to come add up.
LockInv ==
  /\ LockTypes
  /\ \A t, u \in Counters : Inside(t) /\ Inside(u) => t = u
  /\ futex = 1 <=> \E t \in Counters : Inside(t)
  /\ \A t \in Counters : /\ Inside(t) \/ at[t] = "wake" => rounds[t] > 0
                         /\ at[t] = "write" => read[t] = counter
  /\ counter + Cardinality(Todo) = ROUNDS * Cardinality(Counters)

LEMMA TodoFinite == IsFiniteSet(Todo) /\ Cardinality(Todo) \in Nat
  <1>1. IsFiniteSet(1..ROUNDS)
    BY FS_Interval, ProgramsAssumption
  <1>2. IsFiniteSet(Counters \X (1..ROUNDS))
    BY <1>1, FS_Product, ProgramsAssumption
  <1>3. Todo \in SUBSET (Counters \X (1..ROUNDS))
    BY DEF Todo
  <1> QED BY <1>2, <1>3, FS_Subset, FS_CardinalityType

LEMMA InitLock == Init => LockInv
  <1> SUFFICES ASSUME Init PROVE LockInv
    OBVIOUS
  <1> USE DEF Init, Lock!Init
  <1>1. Todo = Counters \X (1..ROUNDS)
    BY ProgramsAssumption DEF Todo, Left
  <1>2. IsFiniteSet(1..ROUNDS) /\ Cardinality(1..ROUNDS) = ROUNDS
    BY FS_Interval, ProgramsAssumption
  <1>3. Cardinality(Todo) = Cardinality(Counters) * ROUNDS
    BY <1>1, <1>2, FS_Product, ProgramsAssumption
  <1>4. Cardinality(Counters) \in Nat
    BY FS_CardinalityType, ProgramsAssumption
  <1>5. counter + Cardinality(Todo) = ROUNDS * Cardinality(Counters)
    BY <1>3, <1>4, ProgramsAssumption
  <1> QED BY <1>5, ProgramsAssumption DEF LockInv, LockTypes, Inside

\* Only the write of the counter takes a round off those to come.
LEMMA LockStep ==
  ASSUME LockInv, NEW t \in Counters, Lock!Step(t)
  PROVE  LockInv'
  <1>1. CASE ~ Lock!WriteCounter(t)
    <2> USE DEF LockInv, LockTypes, Lock!Step, Lock!Move, Lock!futex_lock, Lock!futex_wait,
                Lock!Awake, Lock!ReadCounter, Lock!futex_unlock, Lock!Wake, Lock!futex_wake
    <2>1. LockTypes'
      <3>1. rounds' \in [Counters -> 0..ROUNDS]
        <4>1. rounds[t] - 1 \in 0..ROUNDS \/ ~ Lock!Wake(t)
          BY ProgramsAssumption
        <4> QED BY <1>1, <4>1
      <3>2. at' \in [Counters -> {"cas", "wait", "sleep", "read", "write", "unlock", "wake"}]
        BY <1>1
      <3>3. futex' \in {0, 1} /\ sleeping' \subseteq Counters /\ counter' \in Nat
            /\ read' \in [Counters -> Nat]
        BY <1>1
      <3> QED BY <3>1, <3>2, <3>3
    <2>2. \A u \in Counters : Left(u)' = Left(u)
      BY <1>1, ProgramsAssumption DEF Left, Inside
    <2>3. Todo' = Todo
      BY <2>2 DEF Todo
    <2>4. UNCHANGED counter
      BY <1>1
    <2> QED BY <1>1, <2>1, <2>3, <2>4 DEF Inside
  <1>2. CASE Lock!WriteCounter(t)
    <2> USE DEF Lock!WriteCounter, Lock!Move
    <2>1. LockTypes'
      BY <1>2 DEF LockInv, LockTypes
    <2>2. /\ \A u \in Counters : u # t => Left(u)' = Left(u)
          /\ Left(t) = rounds[t] /\ Left(t)' = rounds[t] - 1
          /\ rounds[t] \in 1..ROUNDS
      BY <1>2, ProgramsAssumption DEF LockInv, LockTypes, Left, Inside
    <2>3. Todo' = Todo \ {<<t, rounds[t]>>} /\ <<t, rounds[t]>> \in Todo
      BY <2>2, ProgramsAssumption DEF Todo
    <2>4. Cardinality(Todo') = Cardinality(Todo) - 1
      BY <2>3, TodoFinite, FS_RemoveElement
    <2>5. counter' = counter + 1 /\ counter \in Nat
      BY <1>2 DEF LockInv, LockTypes
    <2>6. counter' + Cardinality(Todo') = ROUNDS * Cardinality(Counters)
      BY <2>4, <2>5, TodoFinite DEF LockInv
    <2> QED BY <1>2, <2>1, <2>6 DEF LockInv, LockTypes, Inside
  <1> QED BY <1>1, <1>2

\* The steps of the other programs.
LEMMA LockOnly == [Next]_vars => Lock!Next \/ UNCHANGED lockVars
  BY DEF Next, InCoro, InSort, InEcho, InLock, NextThread, NextCond, NextOrder, NextEvent

LEMMA NextLock == LockInv /\ [Next]_vars => LockInv'
  <1> SUFFICES ASSUME LockInv, [Next]_vars PROVE LockInv'
    OBVIOUS
  <1>1. CASE Lock!Next
    BY <1>1, LockStep DEF Lock!Next
  <1>2. CASE UNCHANGED lockVars
    BY <1>2 DEF LockInv, LockTypes, Inside, Todo, Left
  <1> QED BY <1>1, <1>2, LockOnly

\* However many threads count how often: nobody else is between the read of the
\* counter and its write, and no increment is lost.
THEOREM NoIncrementLost == Spec => []CountExact
  <1>1. ASSUME LockInv PROVE CountExact
    <2> DEFINE In == {t \in Counters : at[t] \in {"read", "write", "unlock"}}
    <2>1. \A S : Lock!Cardinality(S) = Cardinality(S)
      BY DEF Lock!Cardinality, Cardinality
    <2>2. Cardinality(In) = futex
      <3>1. CASE futex = 0
        <4>1. In = {}
          BY <1>1, <3>1 DEF LockInv, Inside
        <4> QED BY <3>1, <4>1, FS_EmptySet
      <3>2. CASE futex = 1
        <4>1. PICK t \in Counters : Inside(t)
          BY <1>1, <3>2 DEF LockInv
        <4>2. In = {t}
          BY <1>1, <4>1 DEF LockInv, Inside
        <4> QED BY <3>2, <4>2, FS_Singleton
      <3> QED BY <1>1, <3>1, <3>2 DEF LockInv, LockTypes
    <2>3. ASSUME Lock!Done PROVE counter = ROUNDS * Cardinality(Counters)
      <3>1. Todo = {}
        BY <1>1, <2>3, ProgramsAssumption DEF Lock!Done, LockInv, Todo, Left, Inside
      <3>2. counter + 0 = ROUNDS * Cardinality(Counters) /\ counter \in Nat
        BY <1>1, <3>1, FS_EmptySet DEF LockInv, LockTypes
      <3> QED BY <3>2
    <2> QED BY <2>1, <2>2, <2>3 DEF CountExact, Lock!CountExact
  <1>2. LockInv => CountExact
    BY <1>1
  <1> QED BY InitLock, NextLock, <1>2, PTL DEF Spec

-----------------------------------------------------------------------------
(***************************************************************************)
(* 14_condvar.c: the condition variable made of a mutex and a flag         *)
(***************************************************************************)

Waiting == {v \in Waiters : waiter[v] # "work"}

\* The mutex tells who may touch the flag: the signalling thread holds it except
\* from a signal to the lock behind it, and the flag is set at most in between.
CondInv ==
  /\ is_event_set \in BOOLEAN
  /\ signals \in Nat /\ processed \in Nat
  /\ waiter \in [Waiters -> {"work", "lock", "locked"}]
  /\ signaller \in {"read", "spin", "lock"}
  /\ signaller = "read" <=> event_lock = {Signaller}
  /\ \A v \in Waiters : waiter[v] = "locked" => event_lock = {v}
  /\ is_event_set => signaller = "spin"
  /\ signals = processed + (IF is_event_set THEN 1 ELSE 0)
  /\ wait_count = Cardinality(Waiting)

LEMMA InitCond == Init => CondInv
  <1> SUFFICES ASSUME Init PROVE CondInv
    OBVIOUS
  <1>1. Waiting = {}
    BY DEF Init, Cond!Init, Waiting
  <1>2. wait_count = Cardinality(Waiting)
    BY <1>1, FS_EmptySet DEF Init, Cond!Init
  <1>3. is_event_set \in BOOLEAN /\ ~ is_event_set /\ signals = 0 /\ processed = 0
    BY DEF Init, Cond!Init
  <1>4. /\ waiter = [v \in Waiters |-> "work"]
        /\ signaller = "read" /\ event_lock = {Signaller}
    BY DEF Init, Cond!Init
  <1> QED BY <1>2, <1>3, <1>4 DEF CondInv

LEMMA WaitingFinite == IsFiniteSet(Waiting) /\ Cardinality(Waiting) \in Nat
  <1>1. Waiting \in SUBSET Waiters
    BY DEF Waiting
  <1> QED BY <1>1, FS_Subset, FS_CardinalityType, ProgramsAssumption

LEMMA CondStep ==
  ASSUME CondInv, Cond!Next
  PROVE  CondInv'
  <1> USE ProgramsAssumption DEF CondInv, Cond!Lock, Cond!Unlock, Cond!EventTaken
  <1>1. CASE Cond!SignalSet
    BY <1>1 DEF Cond!SignalSet, Waiting
  <1>2. CASE Cond!SignalSpin
    BY <1>2 DEF Cond!SignalSpin, Waiting
  <1>3. CASE Cond!SignalLock
    BY <1>3 DEF Cond!SignalLock, Waiting
  <1>4. ASSUME NEW v \in Waiters, Cond!WaitBegin(v) PROVE CondInv'
    <2>1. Waiting' = Waiting \cup {v} /\ v \notin Waiting
      BY <1>4 DEF Cond!WaitBegin, Waiting
    <2>2. wait_count' = Cardinality(Waiting')
      BY <1>4, <2>1, WaitingFinite, FS_AddElement DEF Cond!WaitBegin
    <2> QED BY <1>4, <2>2 DEF Cond!WaitBegin
  <1>5. ASSUME NEW v \in Waiters, Cond!WaitLock(v) PROVE CondInv'
    <2>1. Waiting' = Waiting
      BY <1>5 DEF Cond!WaitLock, Waiting
    <2>2. /\ event_lock = {} /\ event_lock' = {v}
          /\ waiter' = [waiter EXCEPT ![v] = "locked"]
          /\ UNCHANGED <<is_event_set, wait_count, signaller, signals, processed>>
      BY <1>5 DEF Cond!WaitLock
    <2>3. signaller # "read" /\ \A u \in Waiters : waiter[u] # "locked"
      BY <2>2
    <2>4. {v} # {Signaller}
      OBVIOUS
    <2> QED BY <2>1, <2>2, <2>3, <2>4
  <1>6. ASSUME NEW v \in Waiters, Cond!WaitTest(v) PROVE CondInv'
    <2>1. event_lock = {v} /\ signaller # "read" /\ event_lock' = {}
          /\ \A u \in Waiters : u # v => waiter[u] # "locked"
      BY <1>6 DEF Cond!WaitTest
    <2>2. CASE is_event_set
      <3>1. Waiting' = Waiting \ {v} /\ v \in Waiting
        BY <1>6, <2>2 DEF Cond!WaitTest, Waiting
      <3>2. wait_count' = Cardinality(Waiting')
        BY <1>6, <2>2, <3>1, WaitingFinite, FS_RemoveElement DEF Cond!WaitTest
      <3>3. /\ waiter' = [waiter EXCEPT ![v] = "work"]
            /\ is_event_set' = FALSE /\ processed' = processed + 1
            /\ UNCHANGED <<signaller, signals>>
        BY <1>6, <2>2 DEF Cond!WaitTest
      <3>4. /\ waiter' \in [Waiters -> {"work", "lock", "locked"}]
            /\ \A u \in Waiters : waiter'[u] # "locked"
        BY <2>1, <3>3
      <3>5. is_event_set' \in BOOLEAN /\ ~ is_event_set'
        BY <2>2, <3>3
      <3>6. signals' = processed' + 0 /\ processed' \in Nat /\ signals' \in Nat
        BY <2>2, <3>3
      <3>7. signaller' # "read" /\ event_lock' # {Signaller} /\ signaller' \in {"read", "spin", "lock"}
        BY <2>1, <3>3
      <3>8. signaller' = "read" <=> event_lock' = {Signaller}
        BY <3>7
      <3>9. \A u \in Waiters : waiter'[u] = "locked" => event_lock' = {u}
        BY <3>4
      <3>10. signals' = processed' + (IF is_event_set' THEN 1 ELSE 0)
        <4>1. (IF is_event_set' THEN 1 ELSE 0) = 0
          BY <3>5, Zenon
        <4> QED BY <3>6, <4>1, Zenon
      <3>11. is_event_set' => signaller' = "spin"
        BY <3>5
      <3> QED BY <3>2, <3>4, <3>5, <3>7, <3>8, <3>9, <3>10, <3>11, <3>6
    <2>3. CASE ~ is_event_set
      <3>1. Waiting' = Waiting
        BY <1>6, <2>3 DEF Cond!WaitTest, Waiting
      <3> QED BY <1>6, <2>1, <2>3, <3>1 DEF Cond!WaitTest
    <2> QED BY <2>2, <2>3
  <1> QED BY <1>1, <1>2, <1>3, <1>4, <1>5, <1>6 DEF Cond!Next

LEMMA CondOnly == [Next]_vars => Cond!Next \/ UNCHANGED condVars
  BY DEF Next, InCoro, InSort, InEcho, InLock, NextThread, NextCond, NextOrder, NextEvent

LEMMA NextCondInv == CondInv /\ [Next]_vars => CondInv'
  <1> SUFFICES ASSUME CondInv, [Next]_vars PROVE CondInv'
    OBVIOUS
  <1>1. CASE UNCHANGED condVars
    BY <1>1 DEF CondInv, Waiting
  <1> QED BY <1>1, CondOnly, CondStep

\* However many threads wait: no signal that finds one is lost or taken twice.
THEOREM SignalTaken == Spec => []SignalTakenOnce
  <1>1. \A S : Cond!Cardinality(S) = Cardinality(S)
    BY DEF Cond!Cardinality, Cardinality
  <1>2. CondInv => SignalTakenOnce
    BY <1>1 DEF CondInv, Waiting, SignalTakenOnce, Cond!SignalTakenOnce
  <1> QED BY InitCond, NextCondInv, <1>2, PTL DEF Spec

-----------------------------------------------------------------------------
(***************************************************************************)
(* 9_sem_event: sources, consumers, four semaphores and a queue            *)
(***************************************************************************)

\* The consumers that still have the message of source j to take, and those that
\* keep the others out.
Owed(j) == {c \in Consumers : consumer[c] \in 1..j}
Admitted == {c \in Consumers : consumer[c] # 0}

EventTypes ==
  /\ semaphores \in {"none", "created", "removed"}
  /\ sem \in [1..4 -> Nat]
  /\ undo \in [1..3 -> Nat]
  /\ queue \in 0..2
  /\ queued \in [1..2 -> [1..3 -> Nat]]
  /\ queueid \in [1..3 -> 0..2]
  /\ source \in [1..3 -> {"semget", "SETALL", "msgget", "getline", "semop", "semctl", "exited"}]
  /\ connected \in [Consumers -> -1..2]
  /\ consumer \in [Consumers -> 0..4]

\* The values are set once, by the source that created the semaphores, while no
\* consumer is in; and one consumer is in at a time.
GateInv ==
  /\ semaphores = "none" => \A j \in 1..3 : source[j] = "semget"
  /\ \A j, k \in 1..3 : source[j] = "SETALL" /\ source[k] = "SETALL" => j = k
  /\ semaphores = "none" \/ (\E j \in 1..3 : source[j] = "SETALL")
       => sem[4] = 0 /\ Admitted = {}
  /\ Cardinality(Admitted) + sem[4] <= 1

\* Until source 1 removes it there is one queue, the first; and what the semaphores
\* and the consumers count, the message a source has sent and not counted yet
\* included, is in it.
QueueInv ==
  /\ queue \in {0, 1}
  /\ \A j \in 1..3 : /\ queueid[j] \in {0, queue}
                     /\ source[j] \in {"getline", "semop"} => queueid[j] = 1
  /\ \A c \in Consumers : /\ connected[c] \in {0, queue}
                          /\ consumer[c] # 0 => connected[c] = 1
  /\ \A j \in 1..3 :
       sem[j] + Cardinality(Owed(j)) + (IF source[j] = "semop" THEN 1 ELSE 0) <= queued[1][j]

EventInv == EventTypes /\ GateInv /\ (Event!QueueRemoved \/ QueueInv)

LEMMA ConsumersFinite ==
  /\ IsFiniteSet(Admitted) /\ Cardinality(Admitted) \in Nat
  /\ \A j : IsFiniteSet(Owed(j)) /\ Cardinality(Owed(j)) \in Nat
  <1>1. Admitted \in SUBSET Consumers /\ \A j : Owed(j) \in SUBSET Consumers
    BY DEF Admitted, Owed
  <1> QED BY <1>1, FS_Subset, FS_CardinalityType, ProgramsAssumption

LEMMA EventMax == \A j, k \in Int : Event!Max({j, k}) = IF j >= k THEN j ELSE k
  <1> SUFFICES ASSUME NEW j \in Int, NEW k \in Int
               PROVE  Event!Max({j, k}) = IF j >= k THEN j ELSE k
    OBVIOUS
  <1>1. \E x \in {j, k} : \A y \in {j, k} : x >= y
    OBVIOUS
  <1>2. Event!Max({j, k}) \in {j, k} /\ \A y \in {j, k} : Event!Max({j, k}) >= y
    BY <1>1 DEF Event!Max
  <1> QED BY <1>2

LEMMA InitEvent == Init => EventInv
  <1> SUFFICES ASSUME Init PROVE EventInv
    OBVIOUS
  <1> USE DEF Init, Event!Init, Event!Sources, Event!Queues
  <1>1. Admitted = {} /\ \A j : Owed(j) = {}
    BY DEF Admitted, Owed
  <1>2. Cardinality(Admitted) = 0 /\ \A j : Cardinality(Owed(j)) = 0
    BY <1>1, FS_EmptySet
  <1>3. EventTypes
    BY DEF EventTypes
  <1>4. GateInv
    BY <1>1, <1>2 DEF GateInv
  <1>5. \A j \in 1..3 : sem[j] = 0 /\ queued[1][j] = 0 /\ source[j] = "semget"
    OBVIOUS
  <1>6. QueueInv
    BY <1>2, <1>5 DEF QueueInv
  <1> QED BY <1>3, <1>4, <1>6 DEF EventInv

\* What no step of a source does to the consumers.
LEMMA ConsumersSame ==
  ASSUME UNCHANGED consumer
  PROVE  /\ Admitted' = Admitted /\ Cardinality(Admitted)' = Cardinality(Admitted)
         /\ Cardinality(Admitted) \in Nat
         /\ \A j \in 1..3 : /\ Cardinality(Owed(j))' = Cardinality(Owed(j))
                            /\ Cardinality(Owed(j)) \in Nat
  <1>1. Admitted' = Admitted /\ \A j : Owed(j)' = Owed(j)
    BY DEF Admitted, Owed
  <1> QED BY <1>1, ConsumersFinite

\* The semaphores are created and set.
LEMMA CreateStep ==
  ASSUME EventInv, NEW k \in 1..3, Event!sem_get_or_create(k) \/ Event!SetAll(k)
  PROVE  EventInv'
  <1> USE DEF Event!Goto, Event!Alive, Event!Sources, Event!Events, Event!queueVars
  <1>1. EventTypes /\ GateInv /\ semaphores # "removed"
        /\ UNCHANGED <<queue, queued, queueid, connected, consumer>>
    BY DEF EventInv, Event!sem_get_or_create, Event!SetAll
  <1>2. /\ Admitted' = Admitted /\ Cardinality(Admitted)' = Cardinality(Admitted)
        /\ Cardinality(Admitted) \in Nat
        /\ \A j \in 1..3 : /\ Cardinality(Owed(j))' = Cardinality(Owed(j))
                           /\ Cardinality(Owed(j)) \in Nat
    BY <1>1, ConsumersSame
  <1>3. source[k] \in {"semget", "SETALL"} /\ \A j \in 1..3 \ {k} : source'[j] = source[j]
    BY <1>1 DEF Event!sem_get_or_create, Event!SetAll, EventTypes
  <1>4. Event!QueueRemoved => Event!QueueRemoved'
    BY <1>1, <1>3 DEF Event!QueueRemoved
  <1>5. CASE Event!sem_get_or_create(k)
    <2>1. /\ source[k] = "semget" /\ UNCHANGED <<sem, undo>>
          /\ source' = [source EXCEPT ![k] = IF semaphores = "none" THEN "SETALL" ELSE "msgget"]
          /\ semaphores' = "created"
      BY <1>1, <1>5 DEF Event!sem_get_or_create, EventTypes
    <2>2. EventTypes'
      BY <1>1, <2>1 DEF EventTypes
    <2>3. GateInv'
      <3>1. CASE semaphores = "none"
        <4>1. \A j \in 1..3 : source[j] = "semget" /\ (source'[j] = "SETALL" <=> j = k)
          BY <1>1, <2>1, <3>1 DEF GateInv, EventTypes
        <4> QED BY <1>1, <1>2, <2>1, <3>1, <4>1 DEF GateInv
      <3>2. CASE semaphores # "none"
        <4>1. \A j \in 1..3 : source'[j] = "SETALL" <=> source[j] = "SETALL"
          BY <1>1, <2>1, <3>2 DEF EventTypes
        <4> QED BY <1>1, <1>2, <2>1, <3>2, <4>1 DEF GateInv
      <3> QED BY <3>1, <3>2
    <2>4. \A j \in 1..3 : /\ source'[j] = "semop" <=> source[j] = "semop"
                          /\ source'[j] = "getline" <=> source[j] = "getline"
      BY <1>1, <2>1 DEF EventTypes
    <2>5. QueueInv => QueueInv'
      BY <1>1, <1>2, <2>1, <2>4 DEF QueueInv
    <2> QED BY <1>4, <2>2, <2>3, <2>5 DEF EventInv
  <1>6. CASE Event!SetAll(k)
    <2>1. /\ source[k] = "SETALL" /\ source' = [source EXCEPT ![k] = "msgget"]
          /\ sem' = [j \in 1..4 |-> IF j = 4 THEN 1 ELSE 0]
          /\ undo' = [j \in 1..3 |-> 0]
          /\ semaphores' = semaphores
      BY <1>6 DEF Event!SetAll
    <2>2. EventTypes'
      BY <1>1, <2>1 DEF EventTypes
    <2>3. Cardinality(Admitted) = 0 /\ semaphores = "created"
      BY <1>1, <2>1, FS_EmptySet DEF GateInv, EventTypes
    <2>4. \A j \in 1..3 : source'[j] # "SETALL"
      BY <1>1, <2>1 DEF GateInv, EventTypes
    <2>5. GateInv'
      BY <1>2, <2>1, <2>3, <2>4 DEF GateInv
    <2>6. \A j \in 1..3 : /\ sem'[j] = 0 /\ sem[j] \in Nat /\ queued[1][j] \in Nat
                          /\ source'[j] = "semop" <=> source[j] = "semop"
                          /\ source'[j] = "getline" <=> source[j] = "getline"
      BY <1>1, <2>1 DEF EventTypes
    <2>7. ASSUME QueueInv
          PROVE  \A j \in 1..3 : sem'[j] + Cardinality(Owed(j))'
                            + (IF source'[j] = "semop" THEN 1 ELSE 0) <= queued'[1][j]
      BY <1>1, <1>2, <2>6, <2>7 DEF QueueInv
    <2>8. QueueInv => QueueInv'
      BY <1>1, <2>6, <2>7 DEF QueueInv
    <2> QED BY <1>4, <2>2, <2>5, <2>8 DEF EventInv
  <1> QED BY <1>5, <1>6

\* The other steps of a source leave the lock of the consumers alone.
GoesTo(k, step) ==
  /\ step # "SETALL" /\ source' = [source EXCEPT ![k] = step]
  /\ UNCHANGED consumer /\ sem'[4] = sem[4]
  /\ semaphores = "created" /\ semaphores' = "created"

LEMMA SourceGate ==
  ASSUME EventTypes, GateInv, NEW k \in 1..3, NEW step, GoesTo(k, step)
  PROVE  GateInv'
  <1> USE DEF GoesTo
  <1>1. /\ Admitted' = Admitted /\ Cardinality(Admitted)' = Cardinality(Admitted)
    BY ConsumersSame
  <1>2. \A j \in 1..3 : source'[j] = "SETALL" => source[j] = "SETALL"
    BY DEF EventTypes
  <1> QED BY <1>1, <1>2 DEF GateInv

LEMMA SourceStep ==
  ASSUME EventInv, NEW k \in 1..3,
         \/ Event!msg_queue_get_or_create(k) \/ Event!send_msg(k) \/ Event!sem_inc(k)
         \/ Event!Exit(k)
  PROVE  EventInv'
  <1> USE DEF Event!Goto, Event!Alive, Event!Sources, Event!Events, Event!queueVars
  <1>1. EventTypes /\ GateInv /\ semaphores # "removed" /\ semaphores' = semaphores
        /\ UNCHANGED <<connected, consumer>>
    BY DEF EventInv, Event!msg_queue_get_or_create, Event!send_msg, Event!sem_inc, Event!Exit
  <1>2. /\ \A j \in 1..3 : /\ Cardinality(Owed(j))' = Cardinality(Owed(j))
                           /\ Cardinality(Owed(j)) \in Nat
    BY <1>1, ConsumersSame
  <1>3. source[k] \in {"msgget", "getline", "semop"} /\ (Event!Exit(k) => k # 1)
    BY DEF Event!msg_queue_get_or_create, Event!send_msg, Event!sem_inc, Event!Exit
  <1>4. semaphores = "created" /\ semaphores' = "created"
    BY <1>1, <1>3 DEF GateInv, EventTypes
  <1>5. \A j \in 1..3 \ {k} : source'[j] = source[j]
    BY <1>1 DEF Event!msg_queue_get_or_create, Event!send_msg, Event!sem_inc, Event!Exit, EventTypes
  <1>6. Event!QueueRemoved => Event!QueueRemoved'
    BY <1>1, <1>3, <1>5 DEF Event!QueueRemoved
  <1>7. CASE Event!msg_queue_get_or_create(k)
    <2>1. /\ source' = [source EXCEPT ![k] = "getline"]
          /\ queueid' = [queueid EXCEPT ![k] = queue']
          /\ queue' = IF queue # 0 THEN queue ELSE IF Event!QueueRemoved THEN 2 ELSE 1
          /\ UNCHANGED <<sem, undo, queued>>
      BY <1>7 DEF Event!msg_queue_get_or_create
    <2>2. queue' \in 1..2 /\ queue \in 0..2
      BY <1>1, <2>1 DEF EventTypes
    <2>3. EventTypes'
      BY <1>1, <2>1, <2>2 DEF EventTypes
    <2>4. GateInv'
      <3>1. GoesTo(k, "getline")
        BY <1>1, <1>4, <2>1 DEF GoesTo
      <3> QED BY <1>1, <3>1, SourceGate
    <2>5. ASSUME QueueInv, ~ Event!QueueRemoved PROVE QueueInv'
      <3>1. queue' = 1 /\ queue \in {0, queue'}
        BY <2>1, <2>5 DEF QueueInv
      <3>2. \A j \in 1..3 : /\ source'[j] = "semop" => source[j] = "semop"
                            /\ source'[j] = "getline" => source[j] = "getline" \/ j = k
                            /\ queueid'[j] = IF j = k THEN 1 ELSE queueid[j]
        BY <1>1, <2>1, <3>1 DEF EventTypes
      <3>3. \A j \in 1..3 : /\ queueid'[j] \in {0, queue'}
                            /\ source'[j] \in {"getline", "semop"} => queueid'[j] = 1
        BY <2>5, <3>1, <3>2 DEF QueueInv
      <3>4. \A j \in 1..3 : source'[j] = "semop" <=> source[j] = "semop"
        BY <1>1, <1>7, <2>1 DEF EventTypes, Event!msg_queue_get_or_create
      <3>5. \A c \in Consumers : /\ connected'[c] \in {0, queue'}
                                 /\ consumer'[c] # 0 => connected'[c] = 1
        BY <1>1, <2>5, <3>1 DEF QueueInv
      <3>6. \A j \in 1..3 : sem'[j] + Cardinality(Owed(j))'
                              + (IF source'[j] = "semop" THEN 1 ELSE 0) <= queued'[1][j]
        BY <1>2, <2>1, <2>5, <3>4 DEF QueueInv
      <3> QED BY <3>1, <3>3, <3>5, <3>6 DEF QueueInv
    <2> QED BY <1>6, <2>3, <2>4, <2>5 DEF EventInv
  <1>8. CASE Event!send_msg(k)
    <2>1. /\ source[k] = "getline" /\ source' = [source EXCEPT ![k] = "semop"]
          /\ UNCHANGED <<sem, undo, queue, queueid>>
          /\ \/ queueid[k] = queue /\ queued' = [queued EXCEPT ![queue][k] = @ + 1]
             \/ queueid[k] # queue /\ queued' = queued
      BY <1>8 DEF Event!send_msg
    <2>2. queued' \in [1..2 -> [1..3 -> Nat]]
      BY <1>1, <2>1 DEF EventTypes
    <2>3. EventTypes'
      BY <1>1, <2>1, <2>2 DEF EventTypes
    <2>4. GateInv'
      <3>1. GoesTo(k, "semop")
        BY <1>1, <1>4, <2>1 DEF GoesTo
      <3> QED BY <1>1, <3>1, SourceGate
    <2>5. ASSUME QueueInv PROVE QueueInv'
      <3>1. queueid[k] = 1 /\ queue = 1
        BY <1>1, <2>1, <2>5 DEF QueueInv
      <3>2. \A j \in 1..3 : queued'[1][j] = queued[1][j] + (IF j = k THEN 1 ELSE 0)
        BY <1>1, <2>1, <3>1 DEF EventTypes
      <3>3. \A j \in 1..3 : source'[j] = IF j = k THEN "semop" ELSE source[j]
        BY <1>1, <2>1 DEF EventTypes
      <3>4. \A j \in 1..3 : source'[j] \in {"getline", "semop"} => queueid'[j] = 1
        BY <2>1, <2>5, <3>1, <3>3 DEF QueueInv
      <3>5. \A j \in 1..3 : sem[j] \in Nat /\ queued[1][j] \in Nat
        BY <1>1 DEF EventTypes
      <3>6. \A j \in 1..3 : sem'[j] + Cardinality(Owed(j))'
                              + (IF source'[j] = "semop" THEN 1 ELSE 0) <= queued'[1][j]
        BY <1>2, <2>1, <2>5, <3>2, <3>3, <3>5 DEF QueueInv
      <3> QED BY <1>1, <2>1, <2>5, <3>4, <3>6 DEF QueueInv
    <2> QED BY <1>6, <2>3, <2>4, <2>5 DEF EventInv
  <1>9. CASE Event!sem_inc(k)
    <2>1. /\ source[k] = "semop" /\ source' = [source EXCEPT ![k] = "getline"]
          /\ sem' = [sem EXCEPT ![k] = sem[k] + 1]
          /\ undo' = [undo EXCEPT ![k] = undo[k] + 1]
          /\ UNCHANGED <<queue, queued, queueid>>
      BY <1>9 DEF Event!sem_inc
    <2>2. EventTypes' /\ sem'[4] = sem[4]
      BY <1>1, <2>1 DEF EventTypes
    <2>3. GateInv'
      <3>1. GoesTo(k, "getline")
        BY <1>1, <1>4, <2>1, <2>2 DEF GoesTo
      <3> QED BY <1>1, <3>1, SourceGate
    <2>4. \A j \in 1..3 : /\ sem'[j] + (IF source'[j] = "semop" THEN 1 ELSE 0)
                               = sem[j] + (IF source[j] = "semop" THEN 1 ELSE 0)
                          /\ sem[j] \in Nat /\ sem'[j] \in Nat /\ queued[1][j] \in Nat
                          /\ source'[j] \in {"getline", "semop"}
                               => source[j] \in {"getline", "semop"}
      BY <1>1, <2>1 DEF EventTypes
    <2>5. ASSUME QueueInv PROVE QueueInv'
      <3>1. \A j \in 1..3 : sem'[j] + Cardinality(Owed(j))'
                              + (IF source'[j] = "semop" THEN 1 ELSE 0) <= queued'[1][j]
        BY <1>2, <2>1, <2>4, <2>5 DEF QueueInv
      <3> QED BY <1>1, <2>1, <2>4, <2>5, <3>1 DEF QueueInv
    <2> QED BY <1>6, <2>2, <2>3, <2>5 DEF EventInv
  <1>10. CASE Event!Exit(k)
    <2>1. /\ source[k] = "getline" /\ source' = [source EXCEPT ![k] = "exited"]
          /\ undo' = [undo EXCEPT ![k] = 0]
          /\ UNCHANGED <<queue, queued, queueid>>
      BY <1>10 DEF Event!Exit
    <2>2. sem' = [sem EXCEPT ![k] = IF sem[k] - undo[k] >= 0 THEN sem[k] - undo[k] ELSE 0]
      <3>1. sem[k] - undo[k] \in Int
        BY <1>1 DEF EventTypes
      <3>2. Event!Max({sem[k] - undo[k], 0})
              = IF sem[k] - undo[k] >= 0 THEN sem[k] - undo[k] ELSE 0
        BY <3>1, EventMax
      <3> QED BY <1>10, <3>2 DEF Event!Exit
    <2>3. /\ sem' \in [1..4 -> Nat] /\ sem'[4] = sem[4]
          /\ \A j \in 1..3 : sem'[j] <= sem[j] /\ sem[j] \in Nat /\ sem'[j] \in Nat
                             /\ queued[1][j] \in Nat
      BY <1>1, <2>2 DEF EventTypes
    <2>4. EventTypes'
      BY <1>1, <2>1, <2>3 DEF EventTypes
    <2>5. GateInv'
      <3>1. GoesTo(k, "exited")
        BY <1>1, <1>4, <2>1, <2>3 DEF GoesTo
      <3> QED BY <1>1, <3>1, SourceGate
    <2>6. \A j \in 1..3 : /\ source'[j] = "semop" <=> source[j] = "semop"
                          /\ source'[j] = "getline" => source[j] = "getline"
      BY <1>1, <2>1 DEF EventTypes
    <2>7. ASSUME QueueInv PROVE QueueInv'
      <3>1. \A j \in 1..3 : sem'[j] + Cardinality(Owed(j))'
                              + (IF source'[j] = "semop" THEN 1 ELSE 0) <= queued'[1][j]
        BY <1>2, <2>1, <2>3, <2>6, <2>7 DEF QueueInv
      <3> QED BY <1>1, <2>1, <2>6, <2>7, <3>1 DEF QueueInv
    <2> QED BY <1>6, <2>4, <2>5, <2>7 DEF EventInv
  <1> QED BY <1>7, <1>8, <1>9, <1>10

\* The two removals: nothing is claimed of the queue from the first on.
LEMMA RemovalStep ==
  ASSUME EventInv, Event!RemoveQueue \/ Event!RemoveSemaphores
  PROVE  EventInv'
  <1> USE DEF Event!Goto, Event!Alive, Event!Sources, Event!queueVars
  <1>1. EventTypes /\ GateInv /\ source[1] # "semget" /\ semaphores # "removed"
        /\ UNCHANGED <<queueid, connected, consumer>>
    BY DEF EventInv, Event!RemoveQueue, Event!RemoveSemaphores
  <1>2. semaphores = "created"
    BY <1>1 DEF GateInv, EventTypes
  <1>3. Admitted' = Admitted /\ Cardinality(Admitted)' = Cardinality(Admitted)
        /\ Cardinality(Admitted) \in Nat
    BY <1>1, ConsumersSame
  <1>4. CASE Event!RemoveQueue
    <2>1. /\ source' = [source EXCEPT ![1] = "semctl"] /\ queue' = 0
          /\ UNCHANGED <<semaphores, sem, undo>>
          /\ queued' = [queued EXCEPT ![queue] = [j \in 1..3 |-> 0]]
      BY <1>4 DEF Event!RemoveQueue
    <2>2. queued' \in [1..2 -> [1..3 -> Nat]]
      BY <1>1, <2>1 DEF EventTypes
    <2>3. EventTypes'
      BY <1>1, <2>1, <2>2 DEF EventTypes
    <2>4. GateInv'
      <3>1. GoesTo(1, "semctl")
        BY <1>1, <1>2, <2>1 DEF GoesTo
      <3> QED BY <1>1, <3>1, SourceGate
    <2>5. Event!QueueRemoved'
      BY <1>1, <2>1 DEF EventTypes, Event!QueueRemoved
    <2> QED BY <2>3, <2>4, <2>5 DEF EventInv
  <1>5. CASE Event!RemoveSemaphores
    <2>1. /\ source[1] = "semctl" /\ source' = [source EXCEPT ![1] = "exited"]
          /\ semaphores' = "removed" /\ UNCHANGED <<queue, queued>>
          /\ sem' = [j \in 1..4 |-> 0] /\ undo' = [j \in 1..3 |-> 0]
      BY <1>5 DEF Event!RemoveSemaphores
    <2>2. EventTypes'
      BY <1>1, <2>1 DEF EventTypes
    <2>3. /\ \A j \in 1..3 : source'[j] = "SETALL" => source[j] = "SETALL"
          /\ sem'[4] = 0 /\ sem[4] \in Nat
      BY <1>1, <2>1 DEF EventTypes
    <2>4. GateInv'
      BY <1>1, <1>2, <1>3, <2>1, <2>3 DEF GateInv
    <2>5. Event!QueueRemoved'
      BY <1>1, <2>1 DEF EventTypes, Event!QueueRemoved
    <2> QED BY <2>2, <2>4, <2>5 DEF EventInv
  <1> QED BY <1>4, <1>5

\* Steps of the consumers.
LEMMA ConsumerStep ==
  ASSUME EventInv, NEW c \in Consumers,
         \/ Event!Start(c) \/ Event!lock_events(c) \/ Event!read_data(c)
         \/ Event!unlock_events(c)
  PROVE  EventInv'
  <1> USE DEF Event!Alive, Event!Sources, Event!Events, Event!queueVars
  <1>1. /\ EventTypes /\ GateInv
        /\ UNCHANGED <<semaphores, undo, source, queue, queueid>> /\ semaphores # "removed"
    BY DEF Event!Start, Event!lock_events, Event!read_data, Event!unlock_events, EventInv
  <1>2. /\ Cardinality(Admitted) \in Nat /\ IsFiniteSet(Admitted)
        /\ \A j \in 1..3 : Cardinality(Owed(j)) \in Nat /\ IsFiniteSet(Owed(j))
    BY ConsumersFinite
  <1>3. Event!QueueRemoved => Event!QueueRemoved'
    BY <1>1 DEF Event!QueueRemoved
  <1>4. \A k \in 1..4 : sem[k] \in Nat
    BY <1>1 DEF EventTypes
  <1>5. \A j \in 1..3 : queued[1][j] \in Nat
    BY <1>1 DEF EventTypes
  <1>6. CASE Event!Start(c)
    <2>1. /\ connected' = [connected EXCEPT ![c] = IF queue = 0 THEN -1 ELSE queue]
          /\ UNCHANGED <<sem, queued, consumer>> /\ (queue # 0 \/ Event!QueueRemoved)
          /\ connected[c] = 0
      BY <1>6 DEF Event!Start
    <2>2. EventTypes'
      BY <1>1, <2>1 DEF EventTypes
    <2>3. Admitted' = Admitted /\ \A j : Owed(j)' = Owed(j)
      BY <2>1 DEF Admitted, Owed
    <2>4. GateInv'
      BY <1>1, <2>1, <2>3 DEF GateInv
    <2>5. ASSUME QueueInv, ~ Event!QueueRemoved PROVE QueueInv'
      <3>1. queue = 1 /\ queue' = 1
        BY <1>1, <2>1, <2>5 DEF QueueInv
      <3>2. \A d \in Consumers : connected'[d] = IF d = c THEN 1 ELSE connected[d]
        BY <1>1, <2>1, <3>1 DEF EventTypes
      <3> QED BY <1>1, <2>1, <2>3, <2>5, <3>1, <3>2 DEF QueueInv
    <2> QED BY <1>3, <2>2, <2>4, <2>5 DEF EventInv
  <1>7. CASE Event!lock_events(c)
    <2>1. /\ consumer[c] = 0 /\ consumer' = [consumer EXCEPT ![c] = 1]
          /\ \A k \in 1..4 : sem[k] > 0
          /\ connected[c] # 0 /\ UNCHANGED <<queued, connected>>
      BY <1>7 DEF Event!lock_events, Event!AllEvents
    <2>2. sem' = [k \in 1..4 |-> sem[k] - 1]
      <3>1. \A k \in 1..4 : Event!Max({sem[k] - 1, 0}) = sem[k] - 1
        BY <1>4, <2>1, EventMax
      <3> QED BY <1>7, <3>1 DEF Event!lock_events
    <2>3. EventTypes'
      BY <1>1, <1>4, <2>1, <2>2 DEF EventTypes
    <2>4. Admitted' = Admitted \cup {c} /\ c \notin Admitted
      BY <1>1, <2>1 DEF Admitted, EventTypes
    <2>5. Cardinality(Admitted') = Cardinality(Admitted) + 1
      BY <1>2, <2>4, FS_AddElement
    <2>6. \A j \in 1..3 : Owed(j)' = Owed(j) \cup {c} /\ c \notin Owed(j)
      BY <1>1, <2>1 DEF Owed, EventTypes
    <2>7. \A j \in 1..3 : Cardinality(Owed(j)') = Cardinality(Owed(j)) + 1
      BY <1>2, <2>6, FS_AddElement
    <2>8. sem[4] > 0 /\ sem'[4] = sem[4] - 1 /\ \A j \in 1..3 : sem'[j] = sem[j] - 1
      BY <1>4, <2>1, <2>2
    <2>9. Cardinality(Admitted') + sem'[4] <= 1
      BY <1>1, <1>2, <1>4, <2>5, <2>8 DEF GateInv
    <2>10. ~ (semaphores = "none" \/ \E j \in 1..3 : source[j] = "SETALL")
      BY <1>1, <2>8 DEF GateInv
    <2>11. GateInv'
      BY <1>1, <2>9, <2>10 DEF GateInv
    <2>12. ASSUME QueueInv PROVE QueueInv'
      <3>1. \A j \in 1..3 : sem'[j] + Cardinality(Owed(j)')
                              + (IF source'[j] = "semop" THEN 1 ELSE 0) <= queued'[1][j]
        BY <1>1, <1>2, <1>4, <1>5, <2>1, <2>7, <2>8, <2>12 DEF QueueInv
      <3>2. connected[c] = 1 /\ \A d \in Consumers : d # c => consumer'[d] = consumer[d]
        BY <1>1, <2>1, <2>12 DEF QueueInv, EventTypes
      <3> QED BY <1>1, <2>1, <2>12, <3>1, <3>2 DEF QueueInv
    <2> QED BY <1>3, <2>3, <2>11, <2>12 DEF EventInv
  <1>8. CASE Event!read_data(c)
    <2> DEFINE m == consumer[c]
    <2>1. /\ m \in 1..3 /\ consumer' = [consumer EXCEPT ![c] = m + 1]
          /\ UNCHANGED <<sem, connected>>
          /\ \/ /\ connected[c] = queue /\ queued[queue][m] > 0
                /\ queued' = [queued EXCEPT ![queue][m] = @ - 1]
             \/ connected[c] # queue /\ queued' = queued
      BY <1>8 DEF Event!read_data
    <2>2. queued' \in [1..2 -> [1..3 -> Nat]]
      <3>1. CASE queued' = queued
        BY <1>1, <3>1 DEF EventTypes
      <3>2. CASE queued[queue][m] > 0 /\ queued' = [queued EXCEPT ![queue][m] = @ - 1]
        <4>1. \A q \in 1..2 : \A j \in 1..3 : queued[q][j] \in Nat
          BY <1>1 DEF EventTypes
        <4> HIDE DEF m
        <4>2. ASSUME queue \in 1..2 PROVE queued[queue][m] - 1 \in Nat
          BY <2>1, <3>2, <4>1, <4>2
        <4> QED BY <1>1, <2>1, <3>2, <4>2 DEF EventTypes
      <3> QED BY <2>1, <3>1, <3>2
    <2>3. EventTypes'
      BY <1>1, <2>1, <2>2 DEF EventTypes
    <2>4. Admitted' = Admitted
      BY <1>1, <2>1 DEF Admitted, EventTypes
    <2>5. GateInv'
      BY <1>1, <2>1, <2>4 DEF GateInv
    <2>6. \A j \in 1..3 : /\ j = m => Owed(j)' = Owed(j) \ {c} /\ c \in Owed(j)
                          /\ j # m => Owed(j)' = Owed(j)
      BY <1>1, <2>1 DEF Owed, EventTypes
    <2>7. \A j \in 1..3 : Cardinality(Owed(j)')
                            = Cardinality(Owed(j)) - (IF j = m THEN 1 ELSE 0)
      BY <1>2, <2>6, FS_RemoveElement
    <2>8. ASSUME QueueInv PROVE QueueInv'
      <3>1. connected[c] = 1 /\ queue = 1
        BY <1>1, <2>1, <2>8 DEF QueueInv
      <3>2. \A j \in 1..3 : queued'[1][j] = queued[1][j] - (IF j = m THEN 1 ELSE 0)
        BY <1>1, <2>1, <3>1 DEF EventTypes
      <3>3. \A d \in Consumers : connected'[d] = connected[d]
                                 /\ (consumer'[d] # 0 => consumer[d] # 0)
        BY <1>1, <2>1 DEF EventTypes
      <3> HIDE DEF m
      <3>4. \A j \in 1..3 : sem'[j] + Cardinality(Owed(j)')
                              + (IF source'[j] = "semop" THEN 1 ELSE 0) <= queued'[1][j]
        BY <1>1, <1>2, <1>4, <1>5, <2>1, <2>7, <2>8, <3>2 DEF QueueInv
      <3> QED BY <1>1, <2>8, <3>3, <3>4 DEF QueueInv
    <2> QED BY <1>3, <2>3, <2>5, <2>8 DEF EventInv
  <1>9. CASE Event!unlock_events(c)
    <2>1. /\ consumer[c] = 4 /\ consumer' = [consumer EXCEPT ![c] = 0]
          /\ sem' = [sem EXCEPT ![4] = sem[4] + 1] /\ UNCHANGED <<queued, connected>>
      BY <1>9 DEF Event!unlock_events
    <2>2. EventTypes'
      BY <1>1, <2>1 DEF EventTypes
    <2>3. Admitted' = Admitted \ {c} /\ c \in Admitted
      BY <1>1, <2>1 DEF Admitted, EventTypes
    <2>4. Cardinality(Admitted') = Cardinality(Admitted) - 1
      BY <1>2, <2>3, FS_RemoveElement
    <2>5. \A j \in 1..3 : Owed(j)' = Owed(j)
      BY <1>1, <2>1 DEF Owed, EventTypes
    <2>6. sem'[4] = sem[4] + 1 /\ \A j \in 1..3 : sem'[j] = sem[j]
      BY <1>1, <2>1 DEF EventTypes
    <2>7. Cardinality(Admitted') + sem'[4] <= 1
      BY <1>1, <1>2, <1>4, <2>4, <2>6 DEF GateInv
    <2>8. ~ (semaphores = "none" \/ \E j \in 1..3 : source[j] = "SETALL")
      BY <1>1, <2>3 DEF GateInv
    <2>9. GateInv'
      BY <1>1, <2>7, <2>8 DEF GateInv
    <2>10. ASSUME QueueInv PROVE QueueInv'
      <3>1. \A d \in Consumers : consumer'[d] # 0 => consumer[d] # 0
        BY <1>1, <2>1 DEF EventTypes
      <3> QED BY <1>1, <2>1, <2>5, <2>6, <2>10, <3>1 DEF QueueInv
    <2> QED BY <1>3, <2>2, <2>9, <2>10 DEF EventInv
  <1> QED BY <1>6, <1>7, <1>8, <1>9

LEMMA EventOnly == [Next]_vars => Event!Next \/ UNCHANGED eventVars
  BY DEF Next, InCoro, InSort, InEcho, InLock, NextThread, NextCond, NextOrder, NextEvent

LEMMA NextEventInv == EventInv /\ [Next]_vars => EventInv'
  <1> SUFFICES ASSUME EventInv, [Next]_vars PROVE EventInv'
    OBVIOUS
  <1>1. CASE UNCHANGED eventVars
    <2>1. Admitted' = Admitted /\ \A j : Owed(j)' = Owed(j)
      BY <1>1 DEF eventVars, Admitted, Owed
    <2>2. EventTypes' /\ GateInv'
      BY <1>1, <2>1 DEF eventVars, EventInv, EventTypes, GateInv
    <2>3. (Event!QueueRemoved => Event!QueueRemoved') /\ (QueueInv => QueueInv')
      BY <1>1, <2>1 DEF eventVars, Event!QueueRemoved, QueueInv
    <2> QED BY <2>2, <2>3 DEF EventInv
  <1>2. CASE Event!Next
    BY <1>2, CreateStep, SourceStep, RemovalStep, ConsumerStep DEF Event!Next, Event!Sources
  <1> QED BY <1>1, <1>2, EventOnly

\* However many consumers, and whichever source creates what and ends when: one
\* consumer is in at a time, and until source 1 removes the queue the messages a
\* consumer was promised are there.
THEOREM MessagesThere == Spec => []EventsReadable
  <1>1. ASSUME EventInv PROVE EventsReadable
    <2>1. \A S : Event!Cardinality(S) = Cardinality(S)
      BY DEF Event!Cardinality, Cardinality
    <2>2. Event!Cardinality({c \in Consumers : consumer[c] # 0}) + sem[4] <= 1
      BY <1>1, <2>1 DEF EventInv, GateInv, Admitted
    <2>3. ASSUME ~ Event!QueueRemoved PROVE EventTypes /\ QueueInv
      BY <1>1, <2>3 DEF EventInv
    <2>4. ASSUME ~ Event!QueueRemoved, NEW c \in Consumers, consumer[c] # 0
          PROVE  connected[c] = queue
      BY <2>3, <2>4 DEF QueueInv
    <2>5. ASSUME ~ Event!QueueRemoved, queue # 0, NEW j \in 1..3
          PROVE  sem[j] + Event!Cardinality({c \in Consumers : consumer[c] \in 1..j})
                   <= queued[queue][j]
      <3>1. queue = 1 /\ sem[j] \in Nat /\ queued[1][j] \in Nat
        BY <2>3, <2>5 DEF QueueInv, EventTypes
      <3>2. sem[j] + Cardinality(Owed(j)) <= queued[queue][j]
        BY <2>3, <2>5, <3>1, ConsumersFinite DEF QueueInv
      <3> QED BY <2>1, <3>2 DEF Owed
    <2> QED BY <2>2, <2>4, <2>5 DEF EventsReadable, Event!EventsReadable, Event!Sources,
                                    Event!Events
  <1>2. EventInv => EventsReadable
    BY <1>1
  <1> QED BY InitEvent, NextEventInv, <1>2, PTL DEF Spec

-----------------------------------------------------------------------------
(***************************************************************************)
(* 12_cthread_detach.c: threads, their locks and their stacks              *)
(***************************************************************************)

\* main() detaches or joins t.
Busy(t) == creator \in {<<"detach", t>>, <<"join", t>>, <<"locked", t>>}

ThreadTypes ==
  /\ runner \in [CThreads -> {"none", "func", "locked", "return", "ended"}]
  /\ seen \in [CThreads -> [main : BOOLEAN, runner : BOOLEAN]]
  /\ stack_list \in Seq(CThreads)
  /\ destroyed \in [CThreads -> Nat]

\* Where the thread and main() are, by the lock and what they have noted: the later
\* of the two to pass the lock sees the other's note, and destroys the thread.
ThreadPlace(t) ==
  /\ t \in tid <=> runner[t] \in {"func", "locked", "return"}
  /\ t \in is_finished <=> runner[t] \in {"return", "ended"}
  /\ t \in lock <=> runner[t] = "locked" \/ creator = <<"locked", t>>
  /\ ~ (runner[t] = "locked" /\ creator = <<"locked", t>>)
  /\ Busy(t) \/ t \in is_detached => runner[t] # "none"
  /\ Busy(t) => t \notin is_detached
  /\ runner[t] = "locked" => (seen[t].runner <=> t \in is_detached)
  /\ creator = <<"locked", t>> => (seen[t].main <=> t \in is_finished)
  /\ ~ Busy(t) /\ runner[t] # "none" /\ t \notin is_detached => t \in is_finished
  /\ destroyed[t] = IF t \in is_finished /\ ~ Busy(t) THEN 1 ELSE 0

\* The stack of each thread destroyed is in the list or free.
StackPlace ==
  /\ \A t \in CThreads : destroyed[t] = 1 <=> t \in ToSet(stack_list) \cup freed
  /\ freed \cap tid = {}
  /\ IsInjective(stack_list) /\ freed \cap ToSet(stack_list) = {}

ThreadInv ==
  /\ ThreadTypes
  /\ creator = Thread!Idle \/ \E t \in CThreads : Busy(t)
  /\ \A t \in CThreads : ThreadPlace(t)
  /\ StackPlace

LEMMA CreatorOne ==
  /\ creator = Thread!Idle => \A t \in CThreads : ~ Busy(t)
  /\ \A t, u \in CThreads : Busy(t) /\ Busy(u) => t = u
  /\ \A t : creator = <<"detach", t>> => creator # <<"locked", t>>
  /\ \A t : creator = <<"join", t>> => creator # <<"locked", t>>
  BY DEF Busy, Thread!Idle

LEMMA InitThread == Init => ThreadInv
  <1> SUFFICES ASSUME Init PROVE ThreadInv
    OBVIOUS
  <1> USE DEF Init, Thread!Init
  <1>1. ThreadTypes
    BY DEF ThreadTypes
  <1>2. creator = Thread!Idle /\ creator # <<"locked", 0>> /\ \A t \in CThreads : ~ Busy(t)
    BY CreatorOne DEF Thread!Idle
  <1>3. \A t \in CThreads : creator # <<"locked", t>>
    BY <1>2 DEF Busy
  <1>4. \A t \in CThreads : ThreadPlace(t)
    BY <1>2, <1>3 DEF ThreadPlace
  <1>5. StackPlace
    BY DEF StackPlace, ToSet, IsInjective
  <1> QED BY <1>1, <1>2, <1>4, <1>5 DEF ThreadInv

\* Every set of numbers has a least one.
LEMMA LeastOf ==
  ASSUME NEW S, S \subseteq Nat, S # {}
  PROVE  \E k \in S : \A j \in S : k =< j
  <1> DEFINE R == OpToRel(<, Nat)
  <1>1. IsWellFoundedOn(R, Nat)
    BY NatLessThanWellFounded
  <1>2. \A j, k \in Nat : j < k => <<j, k>> \in R
    BY Zenon DEF OpToRel
  <1> HIDE DEF R
  <1>3. PICK k \in S : \A j \in S : ~ (<<j, k>> \in R)
    BY <1>1, WFMin
  <1>4. \A j \in S : ~ (j < k)
    BY Zenon, <1>2, <1>3
  <1> QED BY <1>4

\* Stacks are taken off the list from its head on, as far as their threads have ended.
LEMMA KeptList ==
  ASSUME ThreadTypes
  PROVE  \E n \in 0..Len(stack_list) :
           /\ \A k \in 1..n : stack_list[k] \notin tid
           /\ (IF Thread!Unended(stack_list) = 0 THEN <<>>
               ELSE SubSeq(stack_list, Thread!Unended(stack_list), Len(stack_list)))
                = SubSeq(stack_list, n + 1, Len(stack_list))
  <1> DEFINE I == {k \in 1..Len(stack_list) : stack_list[k] \in tid}
             first == Thread!Unended(stack_list)
  <1>0. Len(stack_list) \in Nat
    BY DEF ThreadTypes
  <1>1. first = IF I # {} THEN Thread!Min(I) ELSE 0
    BY DEF Thread!Unended, Thread!SelectInSeq
  <1>2. CASE I = {}
    <2>1. SubSeq(stack_list, Len(stack_list) + 1, Len(stack_list)) = <<>>
      BY <1>0, SubSeqEmpty
    <2>2. first = 0 /\ \A k \in 1..Len(stack_list) : stack_list[k] \notin tid
      BY <1>1, <1>2
    <2> QED BY <1>0, <2>1, <2>2
  <1>3. CASE I # {}
    <2>1. \E k \in I : \A j \in I : k =< j
      <3>1. I \subseteq Nat /\ I # {}
        BY <1>0, <1>3
      <3> QED BY <3>1, LeastOf
    <2>2. Thread!Min(I) \in I /\ \A j \in I : Thread!Min(I) =< j
      BY <2>1 DEF Thread!Min
    <2> HIDE DEF first
    <2>3. first \in I /\ \A j \in I : first =< j
      BY <1>1, <1>3, <2>2
    <2>4. first \in 1..Len(stack_list) /\ \A k \in 1..(first - 1) : stack_list[k] \notin tid
      BY <1>0, <2>3
    <2>5. first # 0 /\ first - 1 \in 0..Len(stack_list) /\ (first - 1) + 1 = first
      BY <1>0, <2>4
    <2> QED BY <2>4, <2>5 DEF first
  <1> QED BY <1>2, <1>3

\* To destroy a thread that never was adds its stack, and frees others only after
\* their threads.
LEMMA DestroyStep ==
  ASSUME ThreadTypes, StackPlace, NEW t \in CThreads, destroyed[t] = 0,
         Thread!cthread_destroy(t), tid' \subseteq tid
  PROVE  /\ StackPlace'
         /\ stack_list' \in Seq(CThreads)
         /\ destroyed' = [destroyed EXCEPT ![t] = 1]
  <1> DEFINE kept == IF Thread!Unended(stack_list) = 0 THEN <<>>
                     ELSE SubSeq(stack_list, Thread!Unended(stack_list), Len(stack_list))
  <1>1. PICK n \in 0..Len(stack_list) :
          /\ \A k \in 1..n : stack_list[k] \notin tid
          /\ kept = SubSeq(stack_list, n + 1, Len(stack_list))
    BY KeptList
  <1>2. /\ freed' = freed \cup (ToSet(stack_list) \ ToSet(kept))
        /\ stack_list' = <<t>> \o kept
        /\ destroyed' = [destroyed EXCEPT ![t] = destroyed[t] + 1]
    BY DEF Thread!cthread_destroy, Thread!ToSet, ToSet
  <1> HIDE DEF kept
  <1> DEFINE L == Len(stack_list)
  <1>3. L \in Nat /\ n \in Nat /\ n <= L /\ DOMAIN stack_list = 1..L
        /\ \A k \in 1..L : stack_list[k] \in CThreads
    BY <1>1, LenProperties, ElementOfSeq DEF ThreadTypes
  <1>4. /\ kept \in Seq(CThreads) /\ Len(kept) = L - n
        /\ \A k \in 1..(L - n) : kept[k] = stack_list[n + k]
    <2>1. \A k \in (n + 1)..L : stack_list[k] \in CThreads
      BY <1>3
    <2>2. kept = SubSeq(stack_list, n + 1, L)
      BY <1>1
    <2> HIDE DEF L
    <2>3. /\ kept \in Seq(CThreads)
          /\ Len(kept) = IF n + 1 <= L THEN L - (n + 1) + 1 ELSE 0
          /\ \A k \in 1..(L - (n + 1) + 1) : kept[k] = stack_list[(n + 1) + k - 1]
      BY <1>3, <2>1, <2>2, SubSeqProperties
    <2>4. (IF n + 1 <= L THEN L - (n + 1) + 1 ELSE 0) = L - n
      BY <1>3
    <2>5. ASSUME NEW k \in 1..(L - n) PROVE kept[k] = stack_list[n + k]
      <3>1. k \in 1..(L - (n + 1) + 1) /\ (n + 1) + k - 1 = n + k
        BY <1>3
      <3> QED BY <2>3, <3>1
    <2> QED BY <2>3, <2>4, <2>5
  <1>5. <<t>> \in Seq(CThreads) /\ Len(<<t>>) = 1 /\ <<t>>[1] = t
    OBVIOUS
  <1>6. /\ stack_list' \in Seq(CThreads) /\ Len(stack_list') = 1 + (L - n)
        /\ \A k \in 1..(1 + (L - n)) :
             stack_list'[k] = IF k <= 1 THEN <<t>>[k] ELSE kept[k - 1]
    BY <1>2, <1>4, <1>5, ConcatProperties
  <1>7. \A k \in 1..(1 + (L - n)) :
          stack_list'[k] = IF k = 1 THEN t ELSE stack_list[n + k - 1]
    <2> HIDE DEF L
    <2> TAKE k \in 1..(1 + (L - n))
    <2>1. CASE k = 1
      BY <1>3, <1>5, <1>6, <2>1
    <2>2. CASE k # 1
      <3>1. k - 1 \in 1..(L - n) /\ ~ k <= 1 /\ n + (k - 1) = n + k - 1
        BY <1>3, <2>2
      <3>2. stack_list'[k] = kept[k - 1] /\ kept[k - 1] = stack_list[n + (k - 1)]
        BY <1>4, <1>6, <3>1
      <3> QED BY <2>2, <3>1, <3>2
    <2> QED BY <2>1, <2>2
  <1>8. DOMAIN stack_list' = 1..(1 + (L - n)) /\ DOMAIN kept = 1..(L - n)
    BY <1>4, <1>6, LenProperties
  <1>9. t \notin ToSet(stack_list) /\ t \notin freed
    BY DEF StackPlace
  <1>10. /\ ToSet(stack_list) = {stack_list[k] : k \in 1..L}
         /\ ToSet(kept) = {stack_list[n + k] : k \in 1..(L - n)}
         /\ ToSet(stack_list') = {t} \cup ToSet(kept)
    <2>1. ToSet(stack_list) = {stack_list[k] : k \in 1..L}
      BY <1>3 DEF ToSet
    <2>2. ToSet(kept) = {stack_list[n + k] : k \in 1..(L - n)}
      BY <1>4, <1>8 DEF ToSet
    <2>3. ToSet(stack_list') = {stack_list'[k] : k \in 1..(1 + (L - n))}
      BY <1>8 DEF ToSet
    <2>4. ASSUME NEW x \in ToSet(stack_list') PROVE x = t \/ x \in ToSet(kept)
      <3>1. PICK k \in 1..(1 + (L - n)) : x = stack_list'[k]
        BY <2>3
      <3>2. CASE k = 1
        BY <1>7, <3>1, <3>2
      <3>3. CASE k # 1
        <4>1. k - 1 \in 1..(L - n) /\ x = stack_list[n + (k - 1)]
          BY <1>3, <1>7, <3>1, <3>3
        <4> QED BY <2>2, <4>1
      <3> QED BY <3>2, <3>3
    <2>5. t \in ToSet(stack_list')
      <3>1. 1 \in 1..(1 + (L - n)) /\ stack_list'[1] = t
        BY <1>3, <1>7
      <3> QED BY <2>3, <3>1
    <2>6. ASSUME NEW x \in ToSet(kept) PROVE x \in ToSet(stack_list')
      <3>1. PICK k \in 1..(L - n) : x = stack_list[n + k]
        BY <2>2
      <3>2. k + 1 \in 1..(1 + (L - n)) /\ stack_list'[k + 1] = x
        BY <1>3, <1>7, <3>1
      <3> QED BY <2>3, <3>2
    <2> QED BY <2>1, <2>2, <2>4, <2>5, <2>6
  <1>11. ToSet(kept) \subseteq ToSet(stack_list)
    <2>1. \A k \in 1..(L - n) : n + k \in 1..L
      BY <1>3
    <2> QED BY <1>10, <2>1
  <1>12. \A x \in ToSet(stack_list) \ ToSet(kept) : x \notin tid
    <2> SUFFICES ASSUME NEW x \in ToSet(stack_list) \ ToSet(kept) PROVE x \notin tid
      OBVIOUS
    <2>1. PICK k \in 1..L : x = stack_list[k]
      BY <1>10
    <2>2. k <= n
      <3> SUFFICES ASSUME ~ k <= n PROVE FALSE
        OBVIOUS
      <3>1. k - n \in 1..(L - n) /\ n + (k - n) = k
        BY <1>3, <2>1
      <3> QED BY <1>10, <2>1, <3>1
    <2> QED BY <1>1, <1>3, <2>1, <2>2
  <1>13. IsInjective(stack_list')
    <2> SUFFICES ASSUME NEW j \in 1..(1 + (L - n)), NEW k \in 1..(1 + (L - n)),
                        stack_list'[j] = stack_list'[k]
                 PROVE  j = k
      BY <1>8 DEF IsInjective
    <2>1. \A h \in 1..(1 + (L - n)) : h # 1 => /\ n + h - 1 \in 1..L
                                               /\ stack_list'[h] = stack_list[n + h - 1]
                                               /\ stack_list'[h] # t
      <3> HIDE DEF L
      <3> TAKE h \in 1..(1 + (L - n))
      <3> HAVE h # 1
      <3>1. n + h - 1 \in 1..L
        BY <1>3
      <3>2. stack_list'[h] = stack_list[n + h - 1]
        BY <1>7
      <3>3. stack_list[n + h - 1] \in ToSet(stack_list)
        BY <1>10, <3>1
      <3> QED BY <1>9, <3>1, <3>2, <3>3
    <2>2. \A a, b \in 1..L : stack_list[a] = stack_list[b] => a = b
      BY <1>3 DEF StackPlace, IsInjective
    <2>3. stack_list'[1] = t
      BY <1>3, <1>7
    <2>4. CASE j = 1 \/ k = 1
      BY <2>1, <2>3, <2>4
    <2>5. CASE j # 1 /\ k # 1
      <3>1. n + j - 1 = n + k - 1
        BY <2>1, <2>2, <2>5
      <3> QED BY <1>3, <3>1
    <2> QED BY <2>4, <2>5
  <1>14. freed' \cap tid' = {}
    BY <1>2, <1>12 DEF StackPlace
  <1>15. freed' \cap ToSet(stack_list') = {}
    <2>1. ToSet(stack_list') = {t} \cup ToSet(kept) /\ freed \cap ToSet(stack_list) = {}
      BY <1>10 DEF StackPlace
    <2> QED BY <1>2, <1>9, <1>11, <2>1
  <1>16. destroyed' = [destroyed EXCEPT ![t] = 1]
    BY <1>2
  <1>17. ToSet(stack_list') \cup freed' = ToSet(stack_list) \cup freed \cup {t}
    BY <1>2, <1>10, <1>11
  <1>18. \A u \in CThreads : destroyed'[u] = 1 <=> u \in ToSet(stack_list') \cup freed'
    BY <1>16, <1>17 DEF StackPlace, ThreadTypes
  <1> QED BY <1>6, <1>13, <1>14, <1>15, <1>16, <1>18 DEF StackPlace

LEMMA ThreadStep ==
  ASSUME ThreadInv, Thread!Next
  PROVE  ThreadInv'
  <1> PICK t \in CThreads :
        \/ Thread!cthread_create(t) \/ Thread!RunnerLock(t) \/ Thread!RunnerFinish(t)
        \/ Thread!RunnerExit(t)
        \/ Thread!DetachLock(t) \/ Thread!cthread_detach(t) \/ Thread!cthread_join(t)
    BY DEF Thread!Next
  <1> USE CreatorOne DEF ThreadInv
  <1>1. ThreadPlace(t) /\ \A u \in CThreads : u # t => ThreadPlace(u)
    OBVIOUS
  <1>2. CASE Thread!cthread_create(t)
    <2> USE <1>2 DEF Thread!cthread_create
    <2>1. ThreadTypes'
      BY DEF ThreadTypes
    <2>2. \A u \in CThreads : (Busy(u)' <=> u = t) /\ creator' # <<"locked", u>>
      BY DEF Busy
    <2>3. ThreadPlace(t)'
      <3>1. creator # <<"locked", t>> /\ ~ Busy(t)
        BY DEF Busy
      <3>2. /\ runner[t] = "none" /\ runner'[t] = "func"
            /\ t \notin is_finished /\ t \notin is_detached /\ t \notin lock
            /\ destroyed[t] = 0
        BY <1>1, <3>1 DEF ThreadPlace, ThreadTypes
      <3> QED BY <2>2, <3>2 DEF ThreadPlace
    <2>4. \A u \in CThreads : u # t => ThreadPlace(u)'
      BY <1>1, <2>2 DEF ThreadPlace, ThreadTypes, Busy
    <2>5. StackPlace'
      BY <1>1 DEF StackPlace, ThreadPlace
    <2> QED BY <2>1, <2>2, <2>3, <2>4, <2>5
  <1>3. CASE Thread!RunnerLock(t)
    <2> USE <1>3 DEF Thread!RunnerLock, Thread!spin_lock
    <2>1. ThreadTypes'
      BY DEF ThreadTypes
    <2>2. \A u \in CThreads : Busy(u)' = Busy(u)
      BY DEF Busy
    <2>3. ThreadPlace(t)'
      <3>1. /\ runner[t] = "func" /\ runner'[t] = "locked"
            /\ t \notin lock /\ t \in lock'
            /\ seen'[t].runner <=> t \in is_detached
        BY DEF ThreadTypes
      <3>2. creator # <<"locked", t>>
        BY <1>1, <3>1 DEF ThreadPlace
      <3> QED BY <1>1, <2>2, <3>1, <3>2 DEF ThreadPlace
    <2>4. \A u \in CThreads : u # t => ThreadPlace(u)'
      BY <1>1, <2>2 DEF ThreadPlace, ThreadTypes
    <2>5. StackPlace'
      BY DEF StackPlace
    <2> QED BY <2>1, <2>2, <2>3, <2>4, <2>5 DEF Busy
  <1>4. CASE Thread!RunnerFinish(t)
    <2> USE <1>4 DEF Thread!RunnerFinish, Thread!spin_unlock
    <2>1. /\ runner[t] = "locked" /\ runner' = [runner EXCEPT ![t] = "return"]
          /\ seen[t].runner <=> t \in is_detached
          /\ destroyed[t] = 0
          /\ UNCHANGED <<creator, seen, is_detached, tid>>
      BY <1>1 DEF ThreadPlace
    <2>2. \A u \in CThreads : Busy(u)' = Busy(u)
      BY DEF Busy
    <2>3. CASE t \in is_detached
      <3>1. Thread!cthread_destroy(t)
        BY <2>1, <2>3 DEF Thread!DestroyIf
      <3>2. StackPlace' /\ stack_list' \in Seq(CThreads)
            /\ destroyed' = [destroyed EXCEPT ![t] = 1]
        BY <2>1, <3>1, DestroyStep
      <3>3. ThreadTypes'
        BY <3>2 DEF ThreadTypes
      <3>4. ThreadPlace(t)'
        BY <1>1, <2>1, <2>2, <2>3, <3>2 DEF ThreadPlace, ThreadTypes
      <3>5. \A u \in CThreads : u # t => ThreadPlace(u)'
        BY <1>1, <2>1, <2>2, <3>2 DEF ThreadPlace, ThreadTypes
      <3> QED BY <2>1, <2>2, <3>2, <3>3, <3>4, <3>5
    <2>4. CASE t \notin is_detached
      <3>1. UNCHANGED <<freed, stack_list, destroyed>>
        BY <2>1, <2>4 DEF Thread!DestroyIf
      <3>2. Busy(t)
        BY <1>1, <2>1, <2>4 DEF ThreadPlace
      <3>3. ThreadTypes' /\ StackPlace'
        BY <2>1, <3>1 DEF ThreadTypes, StackPlace
      <3>4. ThreadPlace(t)'
        BY <1>1, <2>1, <2>2, <2>4, <3>1, <3>2 DEF ThreadPlace, ThreadTypes
      <3>5. \A u \in CThreads : u # t => ThreadPlace(u)'
        BY <1>1, <2>1, <2>2, <3>1 DEF ThreadPlace, ThreadTypes
      <3> QED BY <2>1, <2>2, <3>3, <3>4, <3>5
    <2> QED BY <2>3, <2>4
  <1>5. CASE Thread!RunnerExit(t)
    <2> USE <1>5 DEF Thread!RunnerExit
    <2>1. ThreadTypes' /\ StackPlace'
      BY DEF ThreadTypes, StackPlace
    <2>2. \A u \in CThreads : Busy(u)' = Busy(u)
      BY DEF Busy
    <2>3. ThreadPlace(t)'
      BY <1>1, <2>2 DEF ThreadPlace, ThreadTypes
    <2>4. \A u \in CThreads : u # t => ThreadPlace(u)'
      BY <1>1, <2>2 DEF ThreadPlace, ThreadTypes
    <2> QED BY <2>1, <2>2, <2>3, <2>4
  <1>6. CASE Thread!DetachLock(t)
    <2> USE <1>6 DEF Thread!DetachLock, Thread!spin_lock
    <2>1. ThreadTypes' /\ StackPlace'
      BY DEF ThreadTypes, StackPlace
    <2>2. /\ Busy(t) /\ Busy(t)' /\ creator' = <<"locked", t>>
          /\ \A u \in CThreads : u # t => ~ Busy(u)' /\ ~ Busy(u) /\ creator # <<"locked", u>>
                                          /\ creator' # <<"locked", u>>
      BY DEF Busy
    <2>3. ThreadPlace(t)'
      BY <1>1, <2>2 DEF ThreadPlace, ThreadTypes
    <2>4. \A u \in CThreads : u # t => ThreadPlace(u)'
      BY <1>1, <2>2 DEF ThreadPlace, ThreadTypes
    <2> QED BY <2>1, <2>2, <2>3, <2>4
  <1>7. CASE Thread!cthread_detach(t)
    <2> USE <1>7 DEF Thread!cthread_detach, Thread!spin_unlock
    <2>1. /\ creator = <<"locked", t>> /\ creator' = Thread!Idle
          /\ seen[t].main <=> t \in is_finished
          /\ Busy(t) /\ destroyed[t] = 0 /\ runner[t] # "locked"
          /\ UNCHANGED <<runner, seen, is_finished, tid>>
      <3>1. creator = <<"locked", t>> /\ Busy(t)
        BY DEF Busy
      <3> QED BY <1>1, <3>1 DEF ThreadPlace
    <2>2. \A u \in CThreads : /\ ~ Busy(u)' /\ creator' # <<"locked", u>>
                              /\ u # t => ~ Busy(u) /\ creator # <<"locked", u>>
      BY <2>1 DEF Busy, Thread!Idle
    <2>3. CASE t \in is_finished
      <3>1. Thread!cthread_destroy(t)
        BY <2>1, <2>3 DEF Thread!DestroyIf
      <3>2. StackPlace' /\ stack_list' \in Seq(CThreads)
            /\ destroyed' = [destroyed EXCEPT ![t] = 1]
        BY <2>1, <3>1, DestroyStep
      <3>3. ThreadTypes'
        BY <2>1, <3>2 DEF ThreadTypes
      <3>4. ThreadPlace(t)'
        BY <1>1, <2>1, <2>2, <2>3, <3>2 DEF ThreadPlace, ThreadTypes
      <3>5. \A u \in CThreads : u # t => ThreadPlace(u)'
        BY <1>1, <2>1, <2>2, <3>2 DEF ThreadPlace, ThreadTypes
      <3> QED BY <2>1, <3>2, <3>3, <3>4, <3>5
    <2>4. CASE t \notin is_finished
      <3>1. UNCHANGED <<freed, stack_list, destroyed>>
        BY <2>1, <2>4 DEF Thread!DestroyIf
      <3>2. ThreadTypes' /\ StackPlace'
        BY <2>1, <3>1 DEF ThreadTypes, StackPlace
      <3>3. ThreadPlace(t)'
        BY <1>1, <2>1, <2>2, <2>4, <3>1 DEF ThreadPlace, ThreadTypes
      <3>4. \A u \in CThreads : u # t => ThreadPlace(u)'
        BY <1>1, <2>1, <2>2, <3>1 DEF ThreadPlace, ThreadTypes
      <3> QED BY <2>1, <3>2, <3>3, <3>4
    <2> QED BY <2>3, <2>4
  <1>8. CASE Thread!cthread_join(t)
    <2> USE <1>8 DEF Thread!cthread_join
    <2>1. /\ creator = <<"join", t>> /\ creator' = Thread!Idle
          /\ t \in is_finished /\ Busy(t) /\ destroyed[t] = 0
          /\ creator # <<"locked", t>>
          /\ UNCHANGED <<runner, lock, seen, is_finished, is_detached, tid>>
      <3>1. creator = <<"join", t>> /\ Busy(t)
        BY DEF Busy
      <3> QED BY <1>1, <3>1 DEF ThreadPlace
    <2>2. \A u \in CThreads : /\ ~ Busy(u)' /\ creator' # <<"locked", u>>
                              /\ u # t => ~ Busy(u) /\ creator # <<"locked", u>>
      BY <2>1 DEF Busy, Thread!Idle
    <2>3. StackPlace' /\ stack_list' \in Seq(CThreads)
          /\ destroyed' = [destroyed EXCEPT ![t] = 1]
      BY <2>1, DestroyStep
    <2>4. ThreadTypes'
      BY <2>1, <2>3 DEF ThreadTypes
    <2>5. ThreadPlace(t)'
      BY <1>1, <2>1, <2>2, <2>3 DEF ThreadPlace, ThreadTypes
    <2>6. \A u \in CThreads : u # t => ThreadPlace(u)'
      BY <1>1, <2>1, <2>2, <2>3 DEF ThreadPlace, ThreadTypes
    <2> QED BY <2>1, <2>3, <2>4, <2>5, <2>6
  <1> QED BY <1>2, <1>3, <1>4, <1>5, <1>6, <1>7, <1>8

LEMMA ThreadOnly == [Next]_vars => Thread!Next \/ UNCHANGED threadVars
  BY DEF Next, InCoro, InSort, InEcho, InLock, NextThread, NextCond, NextOrder, NextEvent

LEMMA NextThreadInv == ThreadInv /\ [Next]_vars => ThreadInv'
  <1> SUFFICES ASSUME ThreadInv, [Next]_vars PROVE ThreadInv'
    OBVIOUS
  <1>1. CASE UNCHANGED threadVars
    BY <1>1 DEF ThreadInv, ThreadTypes, ThreadPlace, StackPlace, Busy
  <1> QED BY <1>1, ThreadOnly, ThreadStep

\* However many threads end before or after they are detached or joined: each is
\* destroyed once, and its stack is freed once and after it.
THEOREM StacksFreedOnce == Spec => []StacksSafe
  <1>1. ASSUME ThreadInv PROVE StacksSafe
    <2>1. freed \cap tid = {} /\ Thread!IsInjective(stack_list)
          /\ freed \cap Thread!ToSet(stack_list) = {}
      BY <1>1 DEF ThreadInv, StackPlace, IsInjective, ToSet, Thread!IsInjective, Thread!ToSet
    <2>2. ASSUME NEW t \in CThreads
          PROVE  /\ destroyed[t] <= 1
                 /\ runner[t] = "ended" /\ (creator = Thread!Idle \/ creator[2] # t)
                      => destroyed[t] = 1
      <3>1. Busy(t) => creator # Thread!Idle /\ creator[2] = t
        BY <2>2, CreatorOne DEF Busy
      <3> QED BY <1>1, <3>1 DEF ThreadInv, ThreadPlace
    <2> QED BY <2>1, <2>2 DEF StacksSafe, Thread!StacksSafe
  <1>2. ThreadInv => StacksSafe
    BY <1>1
  <1> QED BY InitThread, NextThreadInv, <1>2, PTL DEF Spec

-----------------------------------------------------------------------------
(***************************************************************************)
(* 12_libcoro.c: the coroutine library by signals                          *)
(***************************************************************************)

\* The library as Coro has it; its proofs are those of 1/libcoro.c.
CP == INSTANCE CoroProofs WITH
        is_finished <- finished,
        allocated <- allocated \ Lib!UnderWay,
        ctx <- ctx \ Lib!UnderWay,
        coro_this_ptr <- Lib!Running,
        is_sched_waiting <- Lib!Running \in Coros \/ pc \in {"landed", "again"}

\* Before the new coroutine's context is saved, and behind it.
Asking == {"sigaction", "sigaltstack", "raise", "sigsuspend", "body"}
Undoing == {"jumped", "restore", "unblock"}

\* Inside of coro_new SIGUSR2 is blocked throughout, and the variables of coro_new hold
\* what is to be restored.
NewCalls ==
  Lib!InNew =>
    /\ local.c \in Coros /\ local.c \in allocated
    /\ local.oldsa = "program" /\ local.oldst \in {"disabled", "program"}
    /\ local.old_this \in Coros \cup {coro_sched}
    /\ blocked
    /\ on = IF pc = "body" THEN local.c ELSE local.old_this
    /\ pc \in {"sigsuspend", "body"} => start_point.on = local.old_this /\ start_point.blocked
    /\ local.c \in ctx <=> pc \in Undoing

\* What each call has changed and not restored yet.
SignalState ==
  /\ handler = IF pc \in {"sigaltstack", "raise", "sigsuspend", "body", "jumped", "restore"}
               THEN "coro_body" ELSE "program"
  /\ IF pc \in {"raise", "sigsuspend", "body", "jumped"}
     THEN altstack = local.c ELSE altstack \in {"disabled", "program"}

\* coro_this() between the calls.
ThisState ==
  /\ pc \in {"user", "again", "sigaction", "sigaltstack", "raise", "restore", "unblock"} =>
       coro_this_ptr = on
  /\ pc \in {"sigsuspend", "body"} => coro_this_ptr = local.c
  /\ pc = "again" => on = coro_sched
  /\ Lib!Running \in Coros => is_sched_waiting

LibState ==
  /\ pc \in Asking \cup Undoing \cup {"user", "landed", "again"}
  /\ on \in Coros \cup {coro_sched}
  /\ NewCalls /\ SignalState /\ ThisState

LibInv == LibState /\ CP!CoroInv

LEMMA CoroHolds == CP!CoroAssumption
  BY ProgramsAssumption DEF CP!CoroAssumption, IsFiniteSet, CP!IsFiniteSet

\* A step that Coro does not see.
LEMMA Unseen ==
  ASSUME UNCHANGED <<coro_list, next, prev, finished, returned>>,
         (allocated \ Lib!UnderWay)' = allocated \ Lib!UnderWay,
         (ctx \ Lib!UnderWay)' = ctx \ Lib!UnderWay, Lib!Running' = Lib!Running,
         (Lib!Running \in Coros \/ pc \in {"landed", "again"})'
           <=> (Lib!Running \in Coros \/ pc \in {"landed", "again"})
  PROVE  UNCHANGED CP!vars
  BY DEF CP!vars, CP!listVars

LEMMA InitLib == Init => LibInv /\ CP!Init
  <1> SUFFICES ASSUME Init PROVE LibInv /\ CP!Init
    OBVIOUS
  <1> USE DEF Init, Lib!Init
  <1>1. ~ Lib!InNew /\ Lib!Running = coro_sched /\ Lib!UnderWay = {}
    BY DEF Lib!InNew, Lib!Running, Lib!UnderWay
  <1>2. LibState
    BY <1>1, ProgramsAssumption DEF LibState, NewCalls, SignalState, ThisState
  <1>3. CP!Init
    BY <1>1, ProgramsAssumption DEF CP!Init
  <1> QED BY <1>2, <1>3, CoroHolds, CP!InitCoro DEF LibInv

\* The calls that prepare the signal, and those that restore what was before.
LEMMA CallStep ==
  ASSUME LibInv, Lib!InstallHandler \/ Lib!InstallStack \/ Lib!Raise \/ Lib!Suspend
                 \/ Lib!RestoreStack \/ Lib!RestoreHandler
  PROVE  LibState' /\ UNCHANGED CP!vars
  <1> USE DEF LibInv, LibState, NewCalls, SignalState, ThisState, Asking, Undoing, Lib!InNew
  <1>1. /\ UNCHANGED <<coro_list, next, prev, finished, returned, allocated, ctx>>
        /\ local' = local /\ is_sched_waiting' = is_sched_waiting
    BY DEF Lib!InstallHandler, Lib!InstallStack, Lib!Raise, Lib!Suspend, Lib!RestoreStack,
           Lib!RestoreHandler, Lib!listVars, Lib!heapVars, Lib!newVars, Lib!Enter
  <1>2. Lib!InNew /\ Lib!InNew'
    BY DEF Lib!InstallHandler, Lib!InstallStack, Lib!Raise, Lib!Suspend, Lib!RestoreStack,
           Lib!RestoreHandler, Lib!Enter
  <1>3. local.c # NULL
    BY <1>2, ProgramsAssumption
  <1>4. LibState' /\ Lib!Running' = Lib!Running
    <2>1. CASE Lib!InstallHandler
      <3>1. /\ pc = "sigaction" /\ handler' = "coro_body" /\ pc' = "sigaltstack"
            /\ UNCHANGED <<coro_this_ptr, on, blocked, altstack, start_point>>
        BY <2>1 DEF Lib!InstallHandler, Lib!newVars
      <3> QED BY <1>1, <1>2, <3>1 DEF Lib!Running
    <2>2. CASE Lib!InstallStack
      <3>1. /\ pc = "sigaltstack" /\ altstack' = local.c /\ pc' = "raise"
            /\ UNCHANGED <<coro_this_ptr, on, blocked, handler, start_point>>
        BY <2>2 DEF Lib!InstallStack, Lib!newVars
      <3> QED BY <1>1, <1>2, <3>1 DEF Lib!Running
    <2>4. CASE Lib!Raise
      <3>1. /\ pc = "raise" /\ coro_this_ptr' = local.c /\ pc' = "sigsuspend"
            /\ start_point' = [on |-> on, blocked |-> blocked]
            /\ UNCHANGED <<on, blocked, handler, altstack>>
        BY <2>4 DEF Lib!Raise
      <3>2. start_point'.on = on /\ start_point'.blocked = blocked
        BY <3>1
      <3>3. on = local.old_this /\ blocked /\ handler = "coro_body" /\ altstack = local.c
        BY <1>2, <3>1
      <3>4. NewCalls'
        BY <1>1, <1>2, <3>1, <3>2, <3>3
      <3>5. Lib!Running = on /\ Lib!Running' = on
        BY <3>1 DEF Lib!Running
      <3> QED BY <1>1, <1>2, <3>1, <3>3, <3>4, <3>5
    <2>5. CASE Lib!Suspend
      <3>1. pc = "sigsuspend" /\ coro_this_ptr = local.c /\ handler = "coro_body"
        BY <2>5 DEF Lib!Suspend
      <3>2. /\ on' = altstack /\ blocked' = TRUE /\ pc' = "body"
            /\ UNCHANGED <<coro_this_ptr, handler, altstack, start_point>>
        BY <1>3, <2>5, <3>1 DEF Lib!Suspend, Lib!Enter, Lib!newVars
      <3>3. altstack = local.c /\ on = local.old_this /\ start_point.on = on
        BY <1>2, <3>1
      <3>4. NewCalls'
        BY <1>1, <1>2, <3>1, <3>2, <3>3
      <3>5. Lib!Running = on /\ Lib!Running' = on
        BY <3>1, <3>2, <3>3 DEF Lib!Running
      <3> QED BY <1>1, <1>2, <3>1, <3>2, <3>3, <3>4, <3>5
    <2>3. CASE Lib!RestoreStack \/ Lib!RestoreHandler
      BY <1>1, <1>2, <2>3 DEF Lib!RestoreStack, Lib!RestoreHandler, Lib!Running, Lib!newVars
    <2> QED BY <2>1, <2>2, <2>3, <2>4, <2>5
  <1>5. Lib!UnderWay' = Lib!UnderWay
    BY <1>1, <1>2 DEF Lib!UnderWay
  <1> QED BY <1>1, <1>2, <1>4, <1>5, Unseen

\* The new coroutine's context is saved, still unknown to Coro.
LEMMA BodyStep ==
  ASSUME LibInv, Lib!coro_body
  PROVE  LibState' /\ UNCHANGED CP!vars
  <1> USE DEF LibInv, LibState, NewCalls, SignalState, ThisState, Asking, Undoing, Lib!InNew
  <1>1. /\ pc = "body" /\ pc' = "jumped" /\ on' = start_point.on /\ blocked' = start_point.blocked
        /\ coro_this_ptr = local.c /\ ctx' = ctx \cup {local.c}
        /\ UNCHANGED <<coro_list, next, prev, allocated, returned, finished, is_sched_waiting,
                       pending, handler, altstack, start_point, local>>
    BY DEF Lib!coro_body, Lib!listVars, Lib!heapVars, Lib!newVars
  <1>2. LibState' /\ Lib!Running' = Lib!Running
    BY <1>1 DEF Lib!Running
  <1>3. Lib!UnderWay' = {local.c} /\ Lib!UnderWay = {local.c}
    BY <1>1 DEF Lib!UnderWay
  <1> QED BY <1>1, <1>2, <1>3, Unseen

\* A signal from outside, and the program's handler.
LEMMA SignalStep ==
  ASSUME LibInv, Lib!Kill \/ Lib!Deliver
  PROVE  LibState' /\ UNCHANGED CP!vars
  <1> USE DEF LibInv, LibState, NewCalls, SignalState, ThisState, Asking, Undoing, Lib!InNew
  <1>1. /\ UNCHANGED <<coro_list, next, prev, finished, returned, allocated, ctx>>
        /\ UNCHANGED <<local, start_point, handler, altstack, coro_this_ptr, is_sched_waiting>>
        /\ UNCHANGED <<on, pc, blocked>>
    BY DEF Lib!Kill, Lib!Deliver, Lib!Enter, Lib!listVars, Lib!heapVars, Lib!newVars
  <1>2. LibState' /\ Lib!Running' = Lib!Running /\ Lib!UnderWay' = Lib!UnderWay
    BY <1>1 DEF Lib!Running, Lib!UnderWay
  <1> QED BY <1>1, <1>2, Unseen

\* Behind a jump.
LEMMA LandedStep ==
  ASSUME LibInv, Lib!Landed
  PROVE  LibState' /\ UNCHANGED CP!vars
  <1> USE DEF LibInv, LibState, NewCalls, SignalState, ThisState, Asking, Undoing, Lib!InNew
  <1>1. /\ pc = "landed" /\ coro_this_ptr' = on
        /\ pc' = IF on = coro_sched THEN "again" ELSE "user"
        /\ is_sched_waiting' = (is_sched_waiting /\ on # coro_sched)
        /\ UNCHANGED <<coro_list, next, prev, finished, returned, allocated, ctx, on, blocked,
                       pending, handler, altstack, start_point, local>>
    BY DEF Lib!Landed, Lib!listVars, Lib!heapVars, Lib!newVars, Lib!signalVars
  <1>2. LibState' /\ Lib!Running' = on /\ Lib!Running = on
    BY <1>1, ProgramsAssumption DEF Lib!Running
  <1>3. Lib!UnderWay' = {} /\ Lib!UnderWay = {}
    BY <1>1 DEF Lib!UnderWay
  <1> QED BY <1>1, <1>2, <1>3, Unseen

\* malloc returns a coroutine that Coro will know when it is made.
LEMMA NewBegins ==
  ASSUME LibInv, NEW c \in Coros, Lib!coro_new(c)
  PROVE  LibState' /\ UNCHANGED CP!vars
  <1> USE DEF LibInv, LibState, NewCalls, SignalState, ThisState, Asking, Undoing, Lib!InNew
  <1>1. /\ pc = "user" /\ pc' = "sigaction" /\ c \notin allocated /\ allocated' = allocated \cup {c}
        /\ local' = [c |-> c, olds |-> blocked, oldsa |-> handler, oldst |-> altstack,
                     old_this |-> coro_this_ptr]
        /\ blocked' = TRUE
        /\ UNCHANGED <<coro_list, next, prev, returned, finished, coro_this_ptr,
                       is_sched_waiting, ctx, on, pending, handler, altstack, start_point>>
    BY DEF Lib!coro_new, Lib!listVars
  <1>2. Lib!UnderWay' = {c} /\ Lib!UnderWay = {} /\ Lib!Running' = on /\ Lib!Running = on
    BY <1>1 DEF Lib!UnderWay, Lib!Running
  <1>3. c \notin ctx
    <2>1. ctx \cap Coros \subseteq allocated
      BY <1>2 DEF CP!CoroInv, CP!OneRuns, CP!Live
    <2> QED BY <1>1, <2>1
  <1>4. LibState'
    BY <1>1, <1>2, <1>3
  <1> QED BY <1>1, <1>2, <1>3, <1>4, Unseen

\* The steps that Coro has as well.
LEMMA NewEnds ==
  ASSUME LibInv, Lib!FinishNew
  PROVE  LibState' /\ CP!Next
  <1> USE DEF LibInv, LibState, NewCalls, SignalState, ThisState, Asking, Undoing, Lib!InNew
  <1>1. /\ pc = "unblock" /\ pc' = "user" /\ blocked' = local.olds
        /\ Lib!coro_list_add(local.c) /\ local.c \in Coros /\ local.c \in allocated
        /\ local.c \in ctx
        /\ UNCHANGED <<allocated, returned, finished, coro_this_ptr, is_sched_waiting, ctx, on,
                       pending, handler, altstack>>
    BY DEF Lib!FinishNew, Lib!heapVars
  <1>2. Lib!UnderWay' = {} /\ Lib!UnderWay = {local.c} /\ Lib!Running' = on /\ Lib!Running = on
    BY <1>1 DEF Lib!UnderWay, Lib!Running
  <1>3. LibState'
    BY <1>1, <1>2
  <1>4. local.c \notin finished
    BY <1>2 DEF CP!CoroInv, CP!CoroTypes
  <1>5. CP!coro_list_add(local.c)
    BY <1>1 DEF CP!coro_list_add, Lib!coro_list_add
  <1>6. CP!coro_new(local.c)
    BY <1>1, <1>2, <1>4, <1>5 DEF CP!coro_new, CP!InUserCode
  <1> QED BY <1>1, <1>3, <1>6 DEF CP!Next

LEMMA GiveStep ==
  ASSUME LibInv, NEW c \in Coros, Lib!Give(c)
  PROVE  LibState' /\ CP!Next
  <1> USE DEF LibInv, LibState, NewCalls, SignalState, ThisState, Asking, Undoing, Lib!InNew
  <1>1. /\ on = c /\ pc = "user" /\ pc' = "landed" /\ coro_this_ptr = c /\ is_sched_waiting
        /\ UNCHANGED <<coro_list, next, prev, allocated, returned, coro_this_ptr,
                       is_sched_waiting, blocked, pending, handler, altstack, start_point, local>>
    <2>1. on = c /\ pc = "user"
      BY DEF Lib!Give, Lib!coro_yield, Lib!coro_finish
    <2>2. coro_this_ptr = c /\ is_sched_waiting
      BY <2>1 DEF Lib!Running
    <2>3. /\ pc' = "landed"
          /\ UNCHANGED <<coro_list, next, prev, allocated, returned, coro_this_ptr,
                         is_sched_waiting, blocked, pending, handler, altstack, start_point,
                         local>>
      <3>1. CASE Lib!coro_yield
        BY <3>1 DEF Lib!coro_yield, Lib!Jump, Lib!listVars, Lib!heapVars, Lib!signalVars,
           Lib!newVars
      <3>2. CASE Lib!coro_finish
        BY <3>2 DEF Lib!coro_finish, Lib!Leave, Lib!listVars, Lib!heapVars, Lib!signalVars,
           Lib!newVars
      <3> QED BY <3>1, <3>2 DEF Lib!Give
    <2> QED BY <2>1, <2>2, <2>3
  <1>2. Lib!UnderWay' = {} /\ Lib!UnderWay = {} /\ Lib!Running' = on' /\ Lib!Running = c
    BY <1>1 DEF Lib!UnderWay, Lib!Running
  <1>3. c \in CP!Live
    BY <1>2 DEF CP!CoroInv, CP!OneRuns
  <1>4. CASE Lib!coro_yield
    <2>1. on' = Lib!NextAfter(c) /\ ctx' = (ctx \cup {c}) \ {Lib!NextAfter(c)} /\ finished' = finished
      BY <1>1, <1>4 DEF Lib!coro_yield, Lib!Jump
    <2>2. Lib!NextAfter(c) = CP!NextAfter(c)
      BY DEF Lib!NextAfter, CP!NextAfter
    <2>3. on' \in Coros \cup {coro_sched}
      BY <2>1 DEF Lib!NextAfter, CP!CoroInv, CP!CoroTypes
    <2>4. LibState'
      BY <1>1, <1>2, <2>1, <2>3
    <2>5. CP!coro_yield(c)
      BY <1>1, <1>2, <2>1, <2>2 DEF CP!coro_yield, CP!coro_yield_to, CP!listVars
    <2> QED BY <2>4, <2>5 DEF CP!Next
  <1>5. CASE Lib!coro_finish
    <2>1. on' = coro_sched /\ ctx' = ctx \ {coro_sched} /\ finished' = finished \cup {c}
      BY <1>1, <1>5 DEF Lib!coro_finish, Lib!Leave
    <2>2. LibState'
      BY <1>1, <1>2, <2>1
    <2>3. CP!coro_finish(c)
      BY <1>1, <1>2, <2>1 DEF CP!coro_finish, CP!FinishToScheduler, CP!listVars
    <2> QED BY <2>2, <2>3 DEF CP!Next
  <1> QED BY <1>4, <1>5 DEF Lib!Give

LEMMA SameSearch == Lib!FirstFinished = CP!FirstFinished
  <1>1. Lib!At = CP!At
    BY DEF Lib!At, CP!At
  <1>2. Lib!Cardinality(Coros) = CP!Cardinality(Coros)
    BY DEF Lib!Cardinality, CP!Cardinality
  <1> QED BY <1>1, <1>2 DEF Lib!FirstFinished, CP!FirstFinished

LEMMA SchedStep ==
  ASSUME LibInv, Lib!coro_sched_wait
  PROVE  LibState' /\ CP!Next
  <1> USE DEF LibInv, LibState, NewCalls, SignalState, ThisState, Asking, Undoing, Lib!InNew
  <1>1. /\ on = coro_sched /\ pc \in {"user", "again"} /\ pc' \in {"user", "landed"}
        /\ UNCHANGED <<allocated, finished, coro_this_ptr, blocked, pending, handler, altstack,
                       start_point, local>>
    BY DEF Lib!coro_sched_wait, Lib!ReturnNothing, Lib!ReturnFinished, Lib!YieldToFirst,
           Lib!InWait, Lib!Jump, Lib!heapVars, Lib!signalVars, Lib!newVars
  <1>2. Lib!UnderWay' = {} /\ Lib!UnderWay = {} /\ Lib!Running' = on' /\ Lib!Running = on
    BY <1>1 DEF Lib!UnderWay, Lib!Running
  <1>3. coro_sched \notin Coros
    BY ProgramsAssumption
  <1>4. CASE Lib!ReturnNothing
    <2>1. /\ coro_list = NULL /\ pc' = "user"
          /\ UNCHANGED <<coro_list, next, prev, returned, is_sched_waiting, ctx, on>>
      BY <1>4 DEF Lib!ReturnNothing, Lib!listVars, Lib!heapVars
    <2>2. LibState'
      BY <1>1, <1>2, <1>3, <2>1
    <2>3. CP!coro_sched_wait
      BY <1>1, <1>2, <1>3, <2>1 DEF CP!coro_sched_wait, CP!listVars
    <2> QED BY <2>2, <2>3 DEF CP!Next
  <1>5. CASE Lib!ReturnFinished
    <2>1. PICK d \in Lib!FirstFinished : Lib!coro_list_delete(d) /\ returned' = returned \cup {d}
      BY <1>5 DEF Lib!ReturnFinished
    <2>2. pc' = "user" /\ UNCHANGED <<is_sched_waiting, ctx, on>>
      BY <1>5 DEF Lib!ReturnFinished
    <2>3. LibState'
      BY <1>1, <1>2, <1>3, <2>2
    <2>4. d \in CP!FirstFinished /\ CP!coro_list_delete(d)
      BY <2>1, SameSearch DEF Lib!coro_list_delete, CP!coro_list_delete
    <2>5. CP!coro_sched_wait
      BY <1>1, <1>2, <1>3, <2>1, <2>2, <2>4 DEF CP!coro_sched_wait
    <2> QED BY <2>3, <2>5 DEF CP!Next
  <1>6. CASE Lib!YieldToFirst
    <2>1. /\ coro_list # NULL /\ Lib!FirstFinished = {} /\ is_sched_waiting' = TRUE
          /\ on' = coro_list /\ ctx' = (ctx \cup {on}) \ {coro_list} /\ pc' = "landed"
          /\ UNCHANGED <<coro_list, next, prev, returned>>
      BY <1>6 DEF Lib!YieldToFirst, Lib!Jump, Lib!listVars, Lib!heapVars
    <2>2. CP!coro_sched_wait
      BY <1>1, <1>2, <2>1, SameSearch DEF CP!coro_sched_wait, CP!coro_yield_to, CP!listVars
    <2>3. CP!Next
      BY <2>2 DEF CP!Next
    <2>4. on' \in Coros \cup {coro_sched}
      <3>1. CP!CoroInv'
        BY <2>3, CoroHolds, CP!NextCoro
      <3> QED BY <1>2, <3>1 DEF CP!CoroInv, CP!CoroTypes
    <2>5. LibState'
      BY <1>1, <1>2, <2>1, <2>4
    <2> QED BY <2>3, <2>5
  <1> QED BY <1>4, <1>5, <1>6 DEF Lib!coro_sched_wait

LEMMA FreeStep ==
  ASSUME LibInv, NEW c \in Coros, Lib!coro_delete(c)
  PROVE  LibState' /\ CP!Next
  <1> USE DEF LibInv, LibState, NewCalls, SignalState, ThisState, Asking, Undoing, Lib!InNew
  <1>1. /\ pc = "user" /\ pc' = "user" /\ on = coro_sched /\ on' = on /\ c \in returned
        /\ allocated' = allocated \ {c} /\ returned' = returned \ {c}
        /\ finished' = finished \ {c}
        /\ next' = [next EXCEPT ![c] = NULL] /\ prev' = [prev EXCEPT ![c] = NULL]
        /\ UNCHANGED <<coro_list, coro_this_ptr, is_sched_waiting, ctx, blocked, pending,
                       handler, altstack, start_point, local>>
    BY DEF Lib!coro_delete, Lib!signalVars, Lib!newVars
  <1>2. Lib!UnderWay' = {} /\ Lib!UnderWay = {} /\ Lib!Running' = on /\ Lib!Running = on
    BY <1>1 DEF Lib!UnderWay, Lib!Running
  <1>3. LibState'
    BY <1>1, <1>2
  <1>4. CP!coro_delete(c)
    BY <1>1, <1>2, ProgramsAssumption DEF CP!coro_delete
  <1> QED BY <1>3, <1>4 DEF CP!Next

LEMMA LibOnly == [Next]_vars => Lib!Next \/ UNCHANGED coroVars
  BY DEF Next, InCoro, InSort, InEcho, InLock, NextThread, NextCond, NextOrder, NextEvent

LEMMA NextLib == LibInv /\ [Next]_vars => LibInv' /\ [CP!Next]_(CP!vars)
  <1> SUFFICES ASSUME LibInv, [Next]_vars PROVE LibInv' /\ [CP!Next]_(CP!vars)
    OBVIOUS
  <1>1. LibState' /\ [CP!Next]_(CP!vars)
    <2>1. CASE UNCHANGED coroVars
      <3>1. Lib!InNew' = Lib!InNew
        BY <2>1 DEF Lib!InNew
      <3>2. Lib!UnderWay' = Lib!UnderWay /\ Lib!Running' = Lib!Running
        BY <2>1, <3>1 DEF Lib!UnderWay, Lib!Running
      <3>3. LibState'
        BY <2>1, <3>1, <3>2 DEF LibInv, LibState, NewCalls, SignalState, ThisState
      <3> QED BY <2>1, <3>2, <3>3, Unseen
    <2>2. CASE Lib!Next
      BY <2>2, CallStep, BodyStep, SignalStep, LandedStep, NewBegins, NewEnds, GiveStep,
         SchedStep, FreeStep DEF Lib!Next, Lib!Inside
    <2> QED BY <2>1, <2>2, LibOnly
  <1>2. CP!CoroInv'
    BY <1>1, CoroHolds, CP!NextCoro DEF LibInv
  <1> QED BY <1>1, <1>2 DEF LibInv

\* Coro in LibCoro and Coro with its proofs are the same module.
LEMMA SameCoro ==
  /\ CP!Live = Lib!C!Live /\ CP!At = Lib!C!At
  /\ \A S : CP!Cardinality(S) = Lib!C!Cardinality(S)
  /\ CP!Init <=> Lib!C!Init
  /\ [CP!Next]_(CP!vars) => [Lib!C!Next]_(Lib!C!vars)
  <1>1. CP!Live = Lib!C!Live /\ CP!At = Lib!C!At
    BY DEF CP!Live, Lib!C!Live, CP!At, Lib!C!At
  <1>2. \A S : CP!Cardinality(S) = Lib!C!Cardinality(S)
    BY DEF CP!Cardinality, Lib!C!Cardinality
  <1>3. CP!Init <=> Lib!C!Init
    BY DEF CP!Init, Lib!C!Init
  <1>4. CP!FirstFinished = Lib!C!FirstFinished
    BY <1>1, <1>2 DEF CP!FirstFinished, Lib!C!FirstFinished
  <1>5. CP!vars = Lib!C!vars /\ CP!vars' = Lib!C!vars'
    BY DEF CP!vars, Lib!C!vars, CP!listVars, Lib!C!listVars
  <1>6. ASSUME NEW c \in Coros
        PROVE  /\ CP!coro_new(c) => Lib!C!coro_new(c)
               /\ CP!coro_yield(c) => Lib!C!coro_yield(c)
               /\ CP!coro_finish(c) => Lib!C!coro_finish(c)
               /\ CP!coro_delete(c) => Lib!C!coro_delete(c)
    <2>1. CP!coro_new(c) => Lib!C!coro_new(c)
      BY DEF CP!coro_new, Lib!C!coro_new, CP!coro_list_add, Lib!C!coro_list_add,
             CP!InUserCode, Lib!C!InUserCode
    <2>2. CP!coro_yield(c) => Lib!C!coro_yield(c)
      BY DEF CP!coro_yield, Lib!C!coro_yield, CP!coro_yield_to, Lib!C!coro_yield_to,
             CP!NextAfter, Lib!C!NextAfter, CP!listVars, Lib!C!listVars
    <2>3. CP!coro_finish(c) => Lib!C!coro_finish(c)
      BY DEF CP!coro_finish, Lib!C!coro_finish, CP!FinishToScheduler, Lib!C!FinishToScheduler,
             CP!listVars, Lib!C!listVars
    <2>4. CP!coro_delete(c) => Lib!C!coro_delete(c)
      BY DEF CP!coro_delete, Lib!C!coro_delete
    <2> QED BY <2>1, <2>2, <2>3, <2>4
  <1>7. CP!coro_sched_wait => Lib!C!coro_sched_wait
    BY <1>4 DEF CP!coro_sched_wait, Lib!C!coro_sched_wait, CP!coro_list_delete,
       Lib!C!coro_list_delete, CP!coro_yield_to, Lib!C!coro_yield_to, CP!listVars, Lib!C!listVars
  <1>8. CP!Next => Lib!C!Next
    BY <1>6, <1>7 DEF CP!Next, Lib!C!Next
  <1> QED BY <1>1, <1>2, <1>3, <1>5, <1>8

\* Between the calls the signals are as the program has set them; the handler runs
\* only for the constructor; and the coroutines are as Coro promises.
LEMMA LibHolds ==
  ASSUME LibInv
  PROVE  Lib!SignalsRestored /\ Lib!BodyAsked /\ Lib!ThisRuns /\ Lib!CoroInvariants
  <1> USE DEF LibInv, LibState, NewCalls, SignalState, ThisState, Asking, Undoing, Lib!InNew
  <1>1. Lib!SignalsRestored
    BY DEF Lib!SignalsRestored
  <1>2. Lib!BodyAsked
    BY DEF Lib!BodyAsked
  <1>3. Lib!ThisRuns
    BY DEF Lib!ThisRuns, Lib!Running
  <1>4. CP!ListExact /\ CP!OneRuns /\ CP!FinishedCaught
    BY CoroHolds, CP!ListedExact DEF CP!CoroInv
  <1>5. Lib!C!ListExact
    BY <1>4, SameCoro DEF CP!ListExact, Lib!C!ListExact
  <1>6. Lib!C!OneRuns /\ Lib!C!FinishedCaught
    BY <1>4, SameCoro DEF CP!OneRuns, Lib!C!OneRuns, CP!FinishedCaught, Lib!C!FinishedCaught
  <1> QED BY <1>1, <1>2, <1>3, <1>5, <1>6 DEF Lib!CoroInvariants

\* Every switch is one that Coro allows.
LEMMA LibSwitches ==
  ASSUME LibInv, [Next]_vars
  PROVE  [Lib!Running' # Lib!Running =>
            /\ Lib!Running' \in ctx \ Lib!UnderWay
            /\ Lib!Running' \in ((allocated \ Lib!UnderWay) \ finished) \cup {coro_sched}]_(Lib!C!vars)
  BY NextLib, CoroHolds, CP!NextCoro DEF LibInv, CP!Switches

\* 12_libcoro.c, whatever number of coroutines are created, yield, finish and are
\* deleted in whatever order, and whenever a signal comes: between the calls SIGUSR2
\* leads to the program's handler, coro_body is entered by the constructor's own signal
\* only, coro_this() names the coroutine whose code runs, and the list holds exactly
\* those that coro_sched_wait has not returned yet.
THEOREM CoroutinesKept == Spec => []CoroInvariants
  <1>1. LibInv => CoroInvariants
    BY LibHolds DEF CoroInvariants
  <1> QED BY InitLib, NextLib, <1>1, PTL DEF Spec

\* 12_libcoro.c implements the library of 1/libcoro.c: its calls of the system between
\* two jumps amount to one step or to none, and each switch goes to a saved context of a
\* coroutine that exists and has not finished.
THEOREM LibCoroImplementsCoro == Spec => ImplementsCoro
  <1>1. Init => Lib!C!Init
    BY InitLib, SameCoro
  <1>2. LibInv /\ [Next]_vars => [Lib!C!Next]_(Lib!C!vars)
    BY NextLib, SameCoro
  <1> QED BY InitLib, NextLib, <1>1, <1>2, LibSwitches, PTL
         DEF Spec, ImplementsCoro, Lib!ImplementsCoro, Lib!C!Spec, Lib!C!SwitchSafe

-----------------------------------------------------------------------------
(***************************************************************************)
(* 8_5_cpu_reordering.c: the stores of three processors                    *)
(***************************************************************************)

\* The stores of main() and of a thread in one iteration, counted from the last.
MainStore(q) ==
  CASE q = 1 -> <<Order!StartOf(2), 1>> [] q = 2 -> <<Order!StartOf(1), 1>>
    [] q = 3 -> <<Order!Var(2), 0>>     [] q = 4 -> <<Order!Var(1), 0>>
    [] q = 5 -> <<Order!EndOf(2), 0>>   [] OTHER -> <<Order!EndOf(1), 0>>
Place(t, q) ==
  CASE q = 1 -> Order!EndOf(t) [] q = 2 -> Order!Result(t)
    [] q = 3 -> Order!Var(t)   [] OTHER -> Order!StartOf(t)

\* How many of them memory has not seen: those in the buffer and those to come.
MainDue == IF line[0] = "wait" THEN Len(buffer[0]) ELSE Len(buffer[0]) + 4
Ahead(t) ==
  CASE line[t] = "store" -> 3 [] line[t] = "load" -> 2
    [] OTHER -> IF Len(buffer[t]) = 0 /\ shared[Order!StartOf(t)] = 1 THEN 4 ELSE 0
Due(t) == Len(buffer[t]) + Ahead(t)

\* Memory has seen that main() clears the end of thread t, and that it starts it.
EndCleared(t) == MainDue < 7 - t
Begun(t) == MainDue < 3 - t

\* What thread t has read or will have.
Outcome(t) == IF Len(buffer[t]) >= 2 THEN buffer[t][Len(buffer[t]) - 1][2]
              ELSE shared[Order!Result(t)]

OrderTypes ==
  /\ shared \in [Order!Addresses -> {0, 1}]
  /\ buffer \in [0..2 -> Seq(Order!Addresses \X {0, 1})]
  /\ line \in [0..2 -> {"reset", "wait", "check", "start", "store", "load"}]
  /\ line[0] \in {"reset", "wait", "check"}
  /\ \A t \in 1..2 : line[t] \in {"start", "store", "load"}

\* The buffers hold the last stores that are due, in order.
Buffered ==
  /\ MainDue <= 6
  /\ \A k \in 1..Len(buffer[0]) : buffer[0][k] = MainStore(MainDue - k + 1)
  /\ \A t \in 1..2 :
       /\ Due(t) <= 4
       /\ \A k \in 1..Len(buffer[t]) :
            /\ buffer[t][k][1] = Place(t, Due(t) - k + 1)
            /\ Due(t) - k + 1 # 2 => buffer[t][k][2] = IF Due(t) - k + 1 = 4 THEN 0 ELSE 1

\* What memory holds then.
InMemory ==
  \A t \in 1..2 :
    /\ EndCleared(t) /\ shared[Order!EndOf(t)] = 1 => Begun(t) /\ Due(t) = 0
    /\ ~ Begun(t) => /\ line[t] = "start" /\ Len(buffer[t]) = 0
                     /\ shared[Order!StartOf(t)] = 0
    /\ Begun(t) => /\ shared[Order!StartOf(t)] = 1 <=> Due(t) = 4
                   /\ Due(t) <= 2 => shared[Order!Var(t)] = 1

\* A thread behind its fence has stored its variable, so the second one to read
\* sees the store of the first.
Fenced ==
  /\ \A t \in 1..2 : Ahead(t) = 0 => Due(t) <= 2
  /\ Begun(1) /\ Begun(2) /\ Ahead(1) = 0 /\ Ahead(2) = 0 => Outcome(1) = 1 \/ Outcome(2) = 1
  /\ line[0] = "check" => shared[Order!Result(1)] = 1 \/ shared[Order!Result(2)] = 1

OrderInv == OrderTypes /\ Buffered /\ InMemory /\ (USE_CPU_FENCE => Fenced)

\* No two of the variables of the program share an address.
LEMMA Apart ==
  ASSUME NEW t \in 1..2, NEW u \in 1..2
  PROVE  /\ Order!Var(t) \in Order!Addresses /\ Order!Result(t) \in Order!Addresses
         /\ Order!StartOf(t) \in Order!Addresses /\ Order!EndOf(t) \in Order!Addresses
         /\ Order!Var(t) # Order!Result(u) /\ Order!Var(t) # Order!StartOf(u)
         /\ Order!Var(t) # Order!EndOf(u) /\ Order!Result(t) # Order!StartOf(u)
         /\ Order!Result(t) # Order!EndOf(u) /\ Order!StartOf(t) # Order!EndOf(u)
         /\ t # u => /\ Order!Var(t) # Order!Var(u) /\ Order!Result(t) # Order!Result(u)
                     /\ Order!StartOf(t) # Order!StartOf(u) /\ Order!EndOf(t) # Order!EndOf(u)
  BY DEF Order!Var, Order!Result, Order!StartOf, Order!EndOf, Order!Addresses, Order!Threads

LEMMA InitOrder == Init => OrderInv
  <1> SUFFICES ASSUME Init PROVE OrderInv
    OBVIOUS
  <1>1. /\ shared = [a \in Order!Addresses |-> 0] /\ buffer = [p \in 0..2 |-> <<>>]
        /\ line = [p \in 0..2 |-> IF p = 0 THEN "reset" ELSE "start"]
    <2>1. {Order!Main} \cup Order!Threads = 0..2
      BY DEF Order!Main, Order!Threads
    <2> QED BY <2>1 DEF Init, Order!Init, Order!Main
  <1>2. \A p \in 0..2 : Len(buffer[p]) = 0
    BY <1>1
  <1>3. line[0] = "reset" /\ \A t \in 1..2 : line[t] = "start"
    BY <1>1
  <1>4. \A t \in 1..2 : shared[Order!StartOf(t)] = 0 /\ shared[Order!EndOf(t)] = 0
    BY <1>1, Apart
  <1>5. MainDue = 4 /\ \A t \in 1..2 : Ahead(t) = 0 /\ Due(t) = 0
    <2>1. Len(buffer[0]) = 0
      BY <1>2
    <2>2. MainDue = 4
      BY <1>3, <2>1 DEF MainDue
    <2>3. ASSUME NEW t \in 1..2
          PROVE  Ahead(t) = 0 /\ Due(t) = 0
      <3>1. Len(buffer[t]) = 0
        BY <1>2
      <3>2. Ahead(t) = 0
        BY <1>3, <1>4 DEF Ahead
      <3> QED BY <3>1, <3>2 DEF Due
    <2> QED BY <2>2, <2>3
  <1>6. \A t \in 1..2 : ~ Begun(t)
    BY <1>5 DEF Begun
  <1>7. OrderTypes
    <2>1. <<>> \in Seq(Order!Addresses \X {0, 1})
      BY EmptySeq
    <2> QED BY <1>1, <2>1 DEF OrderTypes
  <1>8. Buffered
    BY <1>2, <1>5 DEF Buffered
  <1>9. InMemory
    BY <1>2, <1>3, <1>4, <1>5, <1>6 DEF InMemory
  <1>10. Fenced
    BY <1>3, <1>5, <1>6 DEF Fenced
  <1> QED BY <1>7, <1>8, <1>9, <1>10 DEF OrderInv

\* The numbers that the invariant is about.
LEMMA OrderFacts ==
  ASSUME OrderInv
  PROVE  /\ \A p \in 0..2 : /\ Len(buffer[p]) \in Nat
                            /\ buffer[p] \in Seq(Order!Addresses \X {0, 1})
                            /\ \A k \in 1..Len(buffer[p]) : buffer[p][k] \in Order!Addresses \X {0, 1}
         /\ MainDue \in Nat /\ MainDue >= Len(buffer[0]) /\ MainDue <= 6
         /\ \A t \in 1..2 : Ahead(t) \in {0, 2, 3, 4} /\ Due(t) \in Nat /\ Due(t) <= 4
         /\ line \in [0..2 -> {"reset", "wait", "check", "start", "store", "load"}]
         /\ \A t \in 1..2 : line[t] \in {"start", "store", "load"}
         /\ \A a \in Order!Addresses : shared[a] \in {0, 1}
  <1>1. \A p \in 0..2 : /\ buffer[p] \in Seq(Order!Addresses \X {0, 1}) /\ Len(buffer[p]) \in Nat
                        /\ \A k \in 1..Len(buffer[p]) : buffer[p][k] \in Order!Addresses \X {0, 1}
    BY LenProperties, ElementOfSeq DEF OrderInv, OrderTypes
  <1>2. 0 \in 0..2 /\ \A t \in 1..2 : t \in 0..2
    OBVIOUS
  <1>3. MainDue \in Nat /\ MainDue >= Len(buffer[0]) /\ MainDue <= 6
    <2>1. Len(buffer[0]) \in Nat
      BY <1>1, <1>2
    <2>2. MainDue <= 6
      BY DEF OrderInv, Buffered
    <2>3. MainDue = Len(buffer[0]) \/ MainDue = Len(buffer[0]) + 4
      BY <2>1 DEF MainDue
    <2> QED BY <2>1, <2>2, <2>3
  <1>4. \A t \in 1..2 : Ahead(t) \in {0, 2, 3, 4}
    BY DEF Ahead
  <1>5. \A t \in 1..2 : Due(t) \in Nat /\ Due(t) <= 4
    BY SMTT(30), <1>1, <1>2, <1>4 DEF Due, OrderInv, Buffered
  <1> QED BY <1>1, <1>3, <1>4, <1>5 DEF OrderInv, OrderTypes

\* What a flush does to the buffers and to memory.
LEMMA FlushDoes ==
  ASSUME OrderInv, NEW p \in 0..2, Order!Flush(p)
  PROVE  /\ Len(buffer[p]) >= 1 /\ Len(buffer'[p]) = Len(buffer[p]) - 1
         /\ \A k \in 1..Len(buffer'[p]) : k + 1 \in 1..Len(buffer[p]) /\ buffer'[p][k] = buffer[p][k + 1]
         /\ \A o \in 0..2 : o # p => buffer'[o] = buffer[o]
         /\ line' = line /\ USE_CPU_FENCE' = USE_CPU_FENCE
         /\ buffer[p][1][1] \in Order!Addresses
         /\ shared'[buffer[p][1][1]] = buffer[p][1][2]
         /\ \A a \in Order!Addresses : a # buffer[p][1][1] => shared'[a] = shared[a]
         /\ OrderTypes'
  <1>1. PICK b \in Seq(Order!Addresses \X {0, 1}) : b = buffer[p]
    BY OrderFacts
  <1>2. b # <<>> /\ Len(b) \in Nat /\ Len(b) >= 1
    BY <1>1, EmptySeq, LenProperties DEF Order!Flush
  <1>3. /\ Tail(b) \in Seq(Order!Addresses \X {0, 1}) /\ Len(Tail(b)) = Len(b) - 1 /\ Head(b) = b[1]
        /\ \A k \in 1..Len(Tail(b)) : Tail(b)[k] = b[k + 1]
    BY <1>1, <1>2, HeadTailProperties
  <1>4. PICK c \in Seq(Order!Addresses \X {0, 1}) : c = Tail(b)
    BY <1>3
  <1>5. buffer' = [buffer EXCEPT ![p] = c] /\ shared' = [shared EXCEPT ![b[1][1]] = b[1][2]]
        /\ line' = line /\ USE_CPU_FENCE' = USE_CPU_FENCE
    BY <1>1, <1>3, <1>4 DEF Order!Flush
  <1>6. b[1] \in Order!Addresses \X {0, 1}
    BY <1>2, ElementOfSeq
  <1>7. b[1][1] \in Order!Addresses /\ b[1][2] \in {0, 1}
    BY <1>6
  <1>8. shared \in [Order!Addresses -> {0, 1}] /\ buffer \in [0..2 -> Seq(Order!Addresses \X {0, 1})]
    BY DEF OrderInv, OrderTypes
  <1>9. buffer'[p] = c /\ \A o \in 0..2 : o # p => buffer'[o] = buffer[o]
    BY <1>5, <1>8
  <1>10. Len(c) = Len(b) - 1 /\ \A k \in 1..Len(c) : k + 1 \in 1..Len(b) /\ c[k] = b[k + 1]
    BY <1>2, <1>3, <1>4
  <1>11. OrderTypes'
    BY <1>5, <1>7, <1>8 DEF OrderInv, OrderTypes
  <1> QED BY <1>1, <1>2, <1>5, <1>7, <1>8, <1>9, <1>10, <1>11

\* A store of main() reaches memory.
LEMMA FlushMain ==
  ASSUME OrderInv, Order!Flush(0)
  PROVE  OrderInv'
  <1>1. /\ Len(buffer[0]) >= 1 /\ Len(buffer'[0]) = Len(buffer[0]) - 1
        /\ \A k \in 1..Len(buffer'[0]) : k + 1 \in 1..Len(buffer[0]) /\ buffer'[0][k] = buffer[0][k + 1]
        /\ \A t \in 1..2 : buffer'[t] = buffer[t]
        /\ line' = line /\ USE_CPU_FENCE' = USE_CPU_FENCE
        /\ buffer[0][1][1] \in Order!Addresses
        /\ shared'[buffer[0][1][1]] = buffer[0][1][2]
        /\ \A a \in Order!Addresses : a # buffer[0][1][1] => shared'[a] = shared[a]
        /\ OrderTypes'
    BY FlushDoes
  <1>2. /\ Len(buffer[0]) \in Nat /\ MainDue \in 1..6
        /\ \A t \in 1..2 : Ahead(t) \in {0, 2, 3, 4} /\ Due(t) \in Nat /\ Len(buffer[t]) \in Nat
    BY SMTT(30), <1>1, OrderFacts
  <1>3. MainDue' = MainDue - 1
    BY <1>1, <1>2 DEF MainDue
  <1>4. buffer[0][1] = MainStore(MainDue)
    BY <1>1, <1>2 DEF OrderInv, Buffered
  <1>5. MainDue = 1 \/ MainDue = 2 \/ MainDue = 3 \/ MainDue = 4 \/ MainDue = 5 \/ MainDue = 6
    BY <1>2
  <1> DEFINE a == buffer[0][1][1]
             v == buffer[0][1][2]
  <1>6. /\ MainDue = 1 => a = Order!StartOf(2) /\ v = 1
        /\ MainDue = 2 => a = Order!StartOf(1) /\ v = 1
        /\ MainDue = 3 => a = Order!Var(2) /\ v = 0
        /\ MainDue = 4 => a = Order!Var(1) /\ v = 0
        /\ MainDue = 5 => a = Order!EndOf(2) /\ v = 0
        /\ MainDue = 6 => a = Order!EndOf(1) /\ v = 0
    BY <1>4, <1>5 DEF MainStore
  <1> HIDE DEF a, v
  <1>7. \A c \in Order!Addresses : shared'[c] = IF c = a THEN v ELSE shared[c]
    BY <1>1 DEF a, v
  <1>8. \A t \in 1..2 : Begun(t) => shared'[Order!StartOf(t)] = shared[Order!StartOf(t)]
                                 /\ shared'[Order!Var(t)] = shared[Order!Var(t)]
    <2> TAKE t \in 1..2
    <2> HAVE Begun(t)
    <2>1. MainDue < 3 - t
      BY DEF Begun
    <2>2. t = 1 /\ MainDue = 1
      BY <1>2, <2>1
    <2> QED BY <1>6, <1>7, <2>2, Apart
  <1>9. \A t \in 1..2 : MainDue = 3 - t => a = Order!StartOf(t) /\ v = 1
    BY <1>6
  <1>10. \A t \in 1..2 : MainDue # 3 - t => a # Order!StartOf(t)
    BY <1>5, <1>6, Apart
  <1>11. \A t \in 1..2 : MainDue = 7 - t => a = Order!EndOf(t) /\ v = 0
    BY <1>6
  <1>12. \A t \in 1..2 : MainDue # 7 - t => a # Order!EndOf(t)
    BY <1>5, <1>6, Apart
  <1>13. \A t \in 1..2 : a # Order!Result(t)
    BY <1>5, <1>6, Apart
  <1>14. \A t \in 1..2 : Outcome(t)' = Outcome(t)
    BY <1>1, <1>7, <1>13, Apart DEF Outcome
  <1>15. ASSUME NEW t \in 1..2
         PROVE  /\ Begun(t)' <=> Begun(t) \/ MainDue = 3 - t
                /\ EndCleared(t)' <=> EndCleared(t) \/ MainDue = 7 - t
    BY <1>2, <1>3 DEF Begun, EndCleared
  <1>16. ASSUME NEW t \in 1..2, MainDue # 3 - t
         PROVE  Ahead(t)' = Ahead(t) /\ Due(t)' = Due(t)
    <2>1. shared'[Order!StartOf(t)] = shared[Order!StartOf(t)]
      BY <1>7, <1>10, <1>16, Apart
    <2> QED BY <1>1, <2>1 DEF Ahead, Due
  <1>17. ASSUME NEW t \in 1..2, MainDue = 3 - t
         PROVE  /\ Ahead(t)' = 4 /\ Due(t)' = 4 /\ Len(buffer[t]) = 0 /\ ~ Begun(t)
                /\ shared'[Order!StartOf(t)] = 1
    <2>1. ~ Begun(t)
      BY <1>2, <1>17 DEF Begun
    <2>2. line[t] = "start" /\ Len(buffer[t]) = 0
      BY <2>1 DEF OrderInv, InMemory
    <2>3. shared'[Order!StartOf(t)] = 1
      BY <1>7, <1>9, <1>17, Apart
    <2>4. line'[t] = "start" /\ Len(buffer'[t]) = 0
      BY <1>1, <2>2
    <2>5. Ahead(t)' = 4
      BY <2>3, <2>4 DEF Ahead
    <2> QED BY <2>1, <2>2, <2>3, <2>4, <2>5 DEF Due
  <1>18. Buffered'
    <2>1. MainDue' <= 6
      BY <1>2, <1>3
    <2>2. \A k \in 1..Len(buffer'[0]) : buffer'[0][k] = MainStore(MainDue' - k + 1)
      <3> TAKE k \in 1..Len(buffer'[0])
      <3>1. buffer'[0][k] = buffer[0][k + 1] /\ k + 1 \in 1..Len(buffer[0])
        BY <1>1
      <3>2. buffer[0][k + 1] = MainStore(MainDue - (k + 1) + 1)
        BY <3>1 DEF OrderInv, Buffered
      <3>3. MainDue - (k + 1) + 1 = MainDue' - k + 1
        BY <1>2, <1>3
      <3> QED BY <3>1, <3>2, <3>3
    <2>3. ASSUME NEW t \in 1..2
          PROVE  /\ Due(t)' <= 4
                 /\ \A k \in 1..Len(buffer'[t]) :
                      /\ buffer'[t][k][1] = Place(t, Due(t)' - k + 1)
                      /\ Due(t)' - k + 1 # 2 =>
                           buffer'[t][k][2] = IF Due(t)' - k + 1 = 4 THEN 0 ELSE 1
      <3>1. CASE MainDue = 3 - t
        BY <1>1, <1>17, <3>1
      <3>2. CASE MainDue # 3 - t
        <4>1. Due(t)' = Due(t) /\ buffer'[t] = buffer[t]
          BY <1>1, <1>16, <3>2
        <4> QED BY <4>1 DEF OrderInv, Buffered
      <3> QED BY <3>1, <3>2
    <2>4. (\A k \in 1..Len(buffer[0]) : buffer[0][k] = MainStore(MainDue - k + 1))'
      BY <2>2 DEF MainStore
    <2>5. (\A t \in 1..2 : /\ Due(t) <= 4
                           /\ \A k \in 1..Len(buffer[t]) :
                                /\ buffer[t][k][1] = Place(t, Due(t) - k + 1)
                                /\ Due(t) - k + 1 # 2 =>
                                     buffer[t][k][2] = IF Due(t) - k + 1 = 4 THEN 0 ELSE 1)'
      BY <2>3 DEF Place
    <2> QED BY <2>1, <2>4, <2>5 DEF Buffered
  <1>19. InMemory'
    <2>1. ASSUME NEW t \in 1..2
          PROVE  /\ EndCleared(t)' /\ shared'[Order!EndOf(t)] = 1 => Begun(t)' /\ Due(t)' = 0
                 /\ ~ Begun(t)' => /\ line'[t] = "start" /\ Len(buffer'[t]) = 0
                                   /\ shared'[Order!StartOf(t)] = 0
                 /\ Begun(t)' => /\ shared'[Order!StartOf(t)] = 1 <=> Due(t)' = 4
                                 /\ Due(t)' <= 2 => shared'[Order!Var(t)] = 1
      <3>1. CASE MainDue = 3 - t
        <4>1. EndCleared(t) /\ shared'[Order!EndOf(t)] = shared[Order!EndOf(t)]
          BY <1>2, <1>7, <1>12, <3>1, Apart DEF EndCleared
        <4>2. shared[Order!EndOf(t)] = 0
          BY <1>17, <3>1, <4>1, OrderFacts, Apart DEF OrderInv, InMemory
        <4> QED BY <1>15, <1>17, <3>1, <4>1, <4>2
      <3>2. CASE MainDue # 3 - t
        <4>1. Begun(t)' <=> Begun(t)
          BY <1>15, <3>2
        <4>2. shared'[Order!StartOf(t)] = shared[Order!StartOf(t)]
          BY <1>7, <1>10, <3>2, Apart
        <4>3. EndCleared(t)' /\ shared'[Order!EndOf(t)] = 1 =>
                EndCleared(t) /\ shared[Order!EndOf(t)] = 1
          BY <1>7, <1>11, <1>12, <1>15, Apart
        <4> QED BY <1>1, <1>8, <1>16, <3>2, <4>1, <4>2, <4>3 DEF OrderInv, InMemory
      <3> QED BY <3>1, <3>2
    <2> QED BY <2>1 DEF InMemory
  <1>20. USE_CPU_FENCE => Fenced'
    <2> HAVE USE_CPU_FENCE
    <2>1. Fenced
      BY DEF OrderInv
    <2>2. \A t \in 1..2 : Ahead(t)' = 0 => Ahead(t) = 0 /\ Due(t)' = Due(t) /\ (Begun(t)' => Begun(t))
      BY <1>15, <1>16, <1>17
    <2>3. \A t \in 1..2 : shared'[Order!Result(t)] = shared[Order!Result(t)]
      BY <1>7, <1>13, Apart
    <2>4. \A t \in 1..2 : Ahead(t)' = 0 => Due(t)' <= 2
      BY <2>1, <2>2 DEF Fenced
    <2>5. Begun(1)' /\ Begun(2)' /\ Ahead(1)' = 0 /\ Ahead(2)' = 0 => Outcome(1)' = 1 \/ Outcome(2)' = 1
      BY <1>14, <2>1, <2>2 DEF Fenced
    <2>6. line'[0] = "check" => shared'[Order!Result(1)] = 1 \/ shared'[Order!Result(2)] = 1
      BY <1>1, <2>1, <2>3 DEF Fenced
    <2> QED BY <2>4, <2>5, <2>6 DEF Fenced
  <1> QED BY <1>1, <1>18, <1>19, <1>20 DEF OrderInv

\* What concerns one thread.
ThreadPart(t) ==
  /\ Due(t) <= 4
  /\ \A k \in 1..Len(buffer[t]) :
       /\ buffer[t][k][1] = Place(t, Due(t) - k + 1)
       /\ Due(t) - k + 1 # 2 => buffer[t][k][2] = IF Due(t) - k + 1 = 4 THEN 0 ELSE 1
  /\ EndCleared(t) /\ shared[Order!EndOf(t)] = 1 => Begun(t) /\ Due(t) = 0
  /\ ~ Begun(t) => line[t] = "start" /\ Len(buffer[t]) = 0 /\ shared[Order!StartOf(t)] = 0
  /\ Begun(t) => /\ shared[Order!StartOf(t)] = 1 <=> Due(t) = 4
                 /\ Due(t) <= 2 => shared[Order!Var(t)] = 1

\* The invariant, with the parts of the threads put together.
LEMMA OrderParts ==
  OrderInv <=> /\ OrderTypes /\ (USE_CPU_FENCE => Fenced) /\ MainDue <= 6
               /\ \A k \in 1..Len(buffer[0]) : buffer[0][k] = MainStore(MainDue - k + 1)
               /\ \A t \in 1..2 : ThreadPart(t)
  BY DEF OrderInv, Buffered, InMemory, ThreadPart

\* A store of a thread reaches memory.
LEMMA FlushThread ==
  ASSUME OrderInv, NEW t \in 1..2, Order!Flush(t)
  PROVE  OrderInv'
  <1> DEFINE m == Len(buffer[t])
             a == buffer[t][1][1]
             v == buffer[t][1][2]
  <1>1. /\ m >= 1 /\ Len(buffer'[t]) = m - 1
        /\ \A k \in 1..Len(buffer'[t]) : k + 1 \in 1..m /\ buffer'[t][k] = buffer[t][k + 1]
        /\ \A o \in 0..2 : o # t => buffer'[o] = buffer[o]
        /\ line' = line /\ USE_CPU_FENCE' = USE_CPU_FENCE
        /\ a \in Order!Addresses
        /\ shared'[a] = v
        /\ \A c \in Order!Addresses : c # a => shared'[c] = shared[c]
        /\ OrderTypes'
    <2>1. t \in 0..2
      OBVIOUS
    <2> QED BY <2>1, FlushDoes
  <1>2. /\ m \in Nat /\ Len(buffer[0]) \in Nat /\ MainDue \in Nat /\ Due(t) \in Nat /\ Due(t) <= 4
        /\ Ahead(t) \in {0, 2, 3, 4}
        /\ \A c \in Order!Addresses : shared[c] \in {0, 1}
    <2>1. t \in 0..2 /\ 0 \in 0..2
      OBVIOUS
    <2> QED BY <2>1, OrderFacts
  <1>3. ThreadPart(t) /\ Due(t) = m + Ahead(t) /\ Due(t) >= 1
    BY <1>1, <1>2, OrderParts DEF Due
  <1>4. 1 \in 1..m
    BY <1>1, <1>2
  <1>5. a = Place(t, Due(t)) /\ (Due(t) # 2 => v = IF Due(t) = 4 THEN 0 ELSE 1)
    <2>1. /\ buffer[t][1][1] = Place(t, Due(t) - 1 + 1)
          /\ Due(t) - 1 + 1 # 2 => buffer[t][1][2] = IF Due(t) - 1 + 1 = 4 THEN 0 ELSE 1
      BY <1>3, <1>4 DEF ThreadPart
    <2>2. Due(t) - 1 + 1 = Due(t)
      BY <1>2
    <2> QED BY <2>1, <2>2
  <1>6. Due(t) = 1 \/ Due(t) = 2 \/ Due(t) = 3 \/ Due(t) = 4
    BY <1>2, <1>3
  <1>7. /\ Due(t) = 1 => a = Order!EndOf(t) /\ v = 1
        /\ Due(t) = 2 => a = Order!Result(t)
        /\ Due(t) = 3 => a = Order!Var(t) /\ v = 1
        /\ Due(t) = 4 => a = Order!StartOf(t) /\ v = 0
    BY <1>5 DEF Place
  <1>8. Begun(t)
    BY <1>1, <1>2, <1>3 DEF ThreadPart
  <1> HIDE DEF m, a, v
  <1>9. \A c \in Order!Addresses : shared'[c] = IF c = a THEN v ELSE shared[c]
    BY <1>1
  <1>10. shared'[Order!StartOf(t)] # 1
    <2>1. Due(t) = 4 => shared'[Order!StartOf(t)] = 0
      BY <1>7, <1>9, Apart
    <2>2. Due(t) # 4 => shared'[Order!StartOf(t)] = shared[Order!StartOf(t)]
      BY <1>6, <1>7, <1>9, Apart
    <2> QED BY <1>3, <1>8, <2>1, <2>2 DEF ThreadPart
  <1>11. Ahead(t)' = Ahead(t)
    <2>1. line[t] = "store" \/ line[t] = "load" \/ Ahead(t) = 0
      BY <1>1, <1>2 DEF Ahead, m
    <2>2. line'[t] = line[t]
      BY <1>1
    <2> QED BY <1>10, <2>1, <2>2 DEF Ahead
  <1>12. Due(t)' = Due(t) - 1
    BY <1>1, <1>2, <1>3, <1>11 DEF Due
  <1>13. MainDue' = MainDue /\ \A u \in 1..2 : (Begun(u)' <=> Begun(u)) /\ (EndCleared(u)' <=> EndCleared(u))
    <2>1. buffer'[0] = buffer[0]
      BY <1>1
    <2>2. MainDue' = MainDue
      BY <1>1, <2>1 DEF MainDue
    <2> QED BY <2>2 DEF Begun, EndCleared
  <1>14. ASSUME NEW u \in 1..2, u # t
         PROVE  /\ Ahead(u)' = Ahead(u) /\ Due(u)' = Due(u) /\ Outcome(u)' = Outcome(u)
                /\ ThreadPart(u)'
    <2>1. /\ shared'[Order!StartOf(u)] = shared[Order!StartOf(u)]
          /\ shared'[Order!EndOf(u)] = shared[Order!EndOf(u)]
          /\ shared'[Order!Result(u)] = shared[Order!Result(u)]
          /\ shared'[Order!Var(u)] = shared[Order!Var(u)]
      BY <1>6, <1>7, <1>9, <1>14, Apart
    <2>2. buffer'[u] = buffer[u] /\ line'[u] = line[u]
      BY <1>1, <1>14
    <2>3. Ahead(u)' = Ahead(u)
      BY <2>1, <2>2 DEF Ahead
    <2>4. Due(u)' = Due(u) /\ Outcome(u)' = Outcome(u)
      BY <2>1, <2>2, <2>3 DEF Due, Outcome
    <2>5. ThreadPart(u)
      BY OrderParts
    <2>6. Begun(u)' = Begun(u) /\ EndCleared(u)' = EndCleared(u)
      BY <1>13 DEF Begun, EndCleared
    <2> QED BY <2>1, <2>2, <2>3, <2>4, <2>5, <2>6 DEF ThreadPart, Place
  <1>15. ThreadPart(t)'
    <2>1. Due(t)' <= 4 /\ ~ (Due(t)' = 4)
      BY <1>2, <1>12
    <2>2. \A k \in 1..Len(buffer'[t]) :
            /\ buffer'[t][k][1] = Place(t, Due(t)' - k + 1)
            /\ Due(t)' - k + 1 # 2 => buffer'[t][k][2] = IF Due(t)' - k + 1 = 4 THEN 0 ELSE 1
      <3> TAKE k \in 1..Len(buffer'[t])
      <3>1. k + 1 \in 1..Len(buffer[t]) /\ buffer'[t][k] = buffer[t][k + 1]
        BY <1>1 DEF m
      <3>2. /\ buffer[t][k + 1][1] = Place(t, Due(t) - (k + 1) + 1)
            /\ Due(t) - (k + 1) + 1 # 2 =>
                 buffer[t][k + 1][2] = IF Due(t) - (k + 1) + 1 = 4 THEN 0 ELSE 1
        BY <1>3, <3>1 DEF ThreadPart
      <3>3. Due(t) - (k + 1) + 1 = Due(t)' - k + 1
        BY <1>2, <1>12, <3>1
      <3> QED BY <3>1, <3>2, <3>3
    <2>3. EndCleared(t)' /\ shared'[Order!EndOf(t)] = 1 => Begun(t)' /\ Due(t)' = 0
      <3>1. CASE Due(t) = 1
        BY <1>8, <1>12, <1>13, <3>1
      <3>2. CASE Due(t) # 1
        <4>1. shared'[Order!EndOf(t)] = shared[Order!EndOf(t)]
          BY <1>6, <1>7, <1>9, <3>2, Apart
        <4> QED BY <1>3, <1>13, <4>1 DEF ThreadPart
      <3> QED BY <3>1, <3>2
    <2>4. Begun(t)'
      BY <1>8, <1>13
    <2>5. Due(t)' <= 2 => shared'[Order!Var(t)] = 1
      <3>1. CASE Due(t) = 3
        BY <1>7, <1>9, <3>1, Apart
      <3>2. CASE Due(t) # 3
        <4>1. shared'[Order!Var(t)] = shared[Order!Var(t)]
          BY <1>6, <1>7, <1>9, <3>2, Apart
        <4> QED BY <1>2, <1>3, <1>8, <1>12, <3>2, <4>1 DEF ThreadPart
      <3> QED BY <3>1, <3>2
    <2>6. (\A k \in 1..Len(buffer[t]) :
            /\ buffer[t][k][1] = Place(t, Due(t) - k + 1)
            /\ Due(t) - k + 1 # 2 => buffer[t][k][2] = IF Due(t) - k + 1 = 4 THEN 0 ELSE 1)'
      BY <2>2 DEF Place
    <2> QED BY <1>10, <2>1, <2>3, <2>4, <2>5, <2>6 DEF ThreadPart
  <1>16. USE_CPU_FENCE => Fenced'
    <2> HAVE USE_CPU_FENCE
    <2>1. Fenced
      BY DEF OrderInv
    <2>2. Ahead(t) = 0 => Outcome(t)' = Outcome(t)
      <3> HAVE Ahead(t) = 0
      <3>1. m = Due(t)
        BY <1>2, <1>3
      <3>2. m = 1 \/ m = 2
        BY <1>6, <2>1, <3>1 DEF Fenced
      <3>3. CASE m = 1
        <4>1. shared'[Order!Result(t)] = shared[Order!Result(t)]
          BY <1>7, <1>9, <3>1, <3>3, Apart
        <4>2. Len(buffer'[t]) = 0 /\ Len(buffer[t]) = 1
          BY <1>1, <3>3 DEF m
        <4> QED BY <4>1, <4>2 DEF Outcome
      <3>4. CASE m = 2
        <4>1. shared'[Order!Result(t)] = v
          BY <1>7, <1>9, <3>1, <3>4, Apart
        <4>2. Len(buffer'[t]) = 1 /\ Len(buffer[t]) = 2
          BY <1>1, <3>4 DEF m
        <4>3. Outcome(t)' = v
          BY <4>1, <4>2 DEF Outcome
        <4>4. Outcome(t) = buffer[t][1][2]
          BY <4>2 DEF Outcome
        <4> QED BY <4>3, <4>4 DEF v
      <3> QED BY <3>2, <3>3, <3>4
    <2>3. \A u \in 1..2 : /\ Ahead(u)' = Ahead(u) /\ (Ahead(u) = 0 => Outcome(u)' = Outcome(u))
                          /\ Due(u)' \in Nat /\ Due(u)' <= Due(u) /\ Due(u) \in Nat
      <3>1. \A u \in 1..2 : Due(u) \in Nat
        BY OrderFacts
      <3> QED BY <1>3, <1>11, <1>12, <1>14, <2>2, <3>1
    <2>4. \A u \in 1..2 : Ahead(u)' = 0 => Due(u)' <= 2
      BY <2>1, <2>3 DEF Fenced
    <2>5. Begun(1)' /\ Begun(2)' /\ Ahead(1)' = 0 /\ Ahead(2)' = 0 => Outcome(1)' = 1 \/ Outcome(2)' = 1
      BY <1>13, <2>1, <2>3 DEF Fenced
    <2>6. line'[0] # "check"
      <3>1. MainDue < 3 - t
        BY <1>8 DEF Begun
      <3>2. line[0] = "wait"
        BY <1>2, <3>1 DEF MainDue
      <3> QED BY <1>1, <3>2
    <2> QED BY <2>4, <2>5, <2>6 DEF Fenced
  <1>17. MainDue' <= 6 /\ \A k \in 1..Len(buffer'[0]) : buffer'[0][k] = MainStore(MainDue' - k + 1)
    <2>1. buffer'[0] = buffer[0]
      BY <1>1
    <2> QED BY <1>13, <2>1, OrderParts
  <1>18. (\A k \in 1..Len(buffer[0]) : buffer[0][k] = MainStore(MainDue - k + 1))'
    BY <1>17 DEF MainStore
  <1>19. (USE_CPU_FENCE => Fenced)'
    BY <1>1, <1>16
  <1>20. \A u \in 1..2 : ThreadPart(u)'
    BY <1>14, <1>15
  <1>21. (\A u \in 1..2 : ThreadPart(u))'
    BY <1>20 DEF ThreadPart
  <1>22. OrderTypes' /\ (MainDue <= 6)'
    BY <1>1, <1>17
  <1> QED BY <1>18, <1>19, <1>21, <1>22 DEF OrderInv, Buffered, InMemory, ThreadPart

\* A set of numbers up to n that is not empty has a greatest.
LEMMA GreatestElement ==
  ASSUME NEW n \in Nat, NEW S, S \subseteq 1..n, S # {}
  PROVE  \E k \in S : \A l \in S : l <= k
  <1> DEFINE R == OpToRel(<, Nat)
             T == {n - k : k \in S}
  <1>1. IsWellFoundedOn(R, Nat)
    BY NatLessThanWellFounded
  <1>2. \A i1, j1 \in Nat : j1 < i1 => <<j1, i1>> \in R
    BY Zenon DEF OpToRel
  <1>3. T \subseteq Nat /\ T # {}
    <2>1. \A k \in S : n - k \in Nat
      OBVIOUS
    <2>2. T \subseteq Nat
      BY <2>1
    <2>3. PICK k \in S : TRUE
      OBVIOUS
    <2>4. n - k \in T
      OBVIOUS
    <2> QED BY <2>2, <2>4
  <1> HIDE DEF R
  <1>4. PICK m \in T : \A j1 \in T : ~ (<<j1, m>> \in R)
    <2> HIDE DEF T
    <2> QED BY <1>1, <1>3, WFMin
  <1>5. PICK k \in S : m = n - k
    BY <1>4
  <1>6. \A l \in S : ~ (n - l < m)
    <2> TAKE l \in S
    <2>1. n - l \in T /\ n - l \in Nat /\ m \in Nat
      BY <1>3, <1>4
    <2> QED BY <1>2, <1>4, <2>1
  <1>7. \A l \in S : l <= k
    BY <1>5, <1>6
  <1> QED BY <1>7

\* A load returns what memory holds, or a store to that address in the buffer.
LEMMA LoadDoes ==
  ASSUME OrderInv, NEW p \in 0..2, NEW a \in Order!Addresses
  PROVE  /\ Order!Load(p, a) \in {0, 1}
         /\ (\A k \in 1..Len(buffer[p]) : buffer[p][k][1] # a) => Order!Load(p, a) = shared[a]
         /\ \A k \in 1..Len(buffer[p]) : buffer[p][k][1] = a =>
              \E l \in 1..Len(buffer[p]) : buffer[p][l][1] = a /\ Order!Load(p, a) = buffer[p][l][2]
  <1>1. PICK b \in Seq(Order!Addresses \X {0, 1}) : b = buffer[p]
    BY OrderFacts
  <1>2. Len(b) \in Nat /\ DOMAIN b = 1..Len(b) /\ \A k \in 1..Len(b) : b[k] \in Order!Addresses \X {0, 1}
    BY LenProperties, ElementOfSeq
  <1>3. shared[a] \in {0, 1}
    BY OrderFacts
  <1> DEFINE own == {k \in DOMAIN b : b[k][1] = a}
             last == CHOOSE k \in own : \A l \in own : l <= k
  <1>4. Order!Load(p, a) = IF own = {} THEN shared[a] ELSE b[last][2]
    BY <1>1 DEF Order!Load
  <1>5. own # {} => last \in own
    <2> HAVE own # {}
    <2>1. own \subseteq 1..Len(b)
      BY <1>2
    <2> HIDE DEF own
    <2>2. \E k \in own : \A l \in own : l <= k
      BY <1>2, <2>1, GreatestElement
    <2> QED BY <2>2
  <1> HIDE DEF last
  <1>6. CASE own = {}
    BY <1>1, <1>2, <1>3, <1>4, <1>6
  <1>7. CASE own # {}
    <2>1. last \in 1..Len(b) /\ b[last][1] = a
      BY <1>2, <1>5, <1>7
    <2>2. Order!Load(p, a) = b[last][2]
      BY <1>4, <1>7
    <2>3. b[last][2] \in {0, 1}
      BY <1>2, <2>1
    <2> QED BY <1>1, <2>1, <2>2, <2>3
  <1> QED BY <1>6, <1>7

\* Processor p stores s and goes to line l.
Stores(p, s, l) ==
  /\ Order!Store(p, s) /\ Order!Goto(p, l) /\ UNCHANGED <<USE_CPU_FENCE, shared>>
  /\ p = 0 => l \in {"reset", "wait", "check"}
  /\ p # 0 => l \in {"start", "store", "load"}

\* Then s is behind what its buffer held, and nothing else has changed.
Stored(p, s, l) ==
  /\ Len(s) \in Nat /\ Len(buffer'[p]) = Len(buffer[p]) + Len(s)
  /\ \A k \in 1..Len(buffer'[p]) :
       IF k <= Len(buffer[p]) THEN buffer'[p][k] = buffer[p][k]
       ELSE k - Len(buffer[p]) \in 1..Len(s) /\ buffer'[p][k] = s[k - Len(buffer[p])]
  /\ line'[p] = l
  /\ \A o \in 0..2 : o # p => buffer'[o] = buffer[o] /\ line'[o] = line[o]
  /\ OrderTypes' /\ shared' = shared /\ USE_CPU_FENCE' = USE_CPU_FENCE

LEMMA StoreDoes ==
  ASSUME OrderInv, NEW p \in 0..2, NEW s \in Seq(Order!Addresses \X {0, 1}), NEW l,
         Stores(p, s, l)
  PROVE  Stored(p, s, l)
  <1>0. /\ Order!Store(p, s) /\ Order!Goto(p, l)
        /\ shared' = shared /\ USE_CPU_FENCE' = USE_CPU_FENCE
        /\ p = 0 => l \in {"reset", "wait", "check"}
        /\ p # 0 => l \in {"start", "store", "load"}
    BY DEF Stores
  <1>1. PICK b \in Seq(Order!Addresses \X {0, 1}) : b = buffer[p]
    BY OrderFacts
  <1>2. Len(s) \in Nat /\ Len(b) \in Nat
    BY LenProperties
  <1>3. /\ b \o s \in Seq(Order!Addresses \X {0, 1}) /\ Len(b \o s) = Len(b) + Len(s)
        /\ \A k \in 1..(Len(b) + Len(s)) :
             (b \o s)[k] = IF k <= Len(b) THEN b[k] ELSE s[k - Len(b)]
    BY ConcatProperties
  <1>4. PICK c \in Seq(Order!Addresses \X {0, 1}) : c = b \o s
    BY <1>3
  <1>5. /\ shared \in [Order!Addresses -> {0, 1}]
        /\ buffer \in [0..2 -> Seq(Order!Addresses \X {0, 1})]
        /\ line \in [0..2 -> {"reset", "wait", "check", "start", "store", "load"}]
        /\ line[0] \in {"reset", "wait", "check"}
        /\ \A t \in 1..2 : line[t] \in {"start", "store", "load"}
    BY DEF OrderInv, OrderTypes
  <1>6. buffer' = [buffer EXCEPT ![p] = c]
    BY <1>0, <1>1, <1>4 DEF Order!Store
  <1>7. line' = [line EXCEPT ![p] = l] /\ shared' = shared
    BY <1>0 DEF Order!Goto
  <1>8. buffer'[p] = c /\ \A o \in 0..2 : o # p => buffer'[o] = buffer[o]
    BY <1>5, <1>6
  <1>9. line'[p] = l /\ \A o \in 0..2 : o # p => line'[o] = line[o]
    BY <1>5, <1>7
  <1>10. \A k \in 1..Len(c) : IF k <= Len(b) THEN c[k] = b[k]
                              ELSE k - Len(b) \in 1..Len(s) /\ c[k] = s[k - Len(b)]
    BY <1>2, <1>3, <1>4
  <1>11. l \in {"reset", "wait", "check", "start", "store", "load"}
    BY <1>0
  <1>12. line'[0] \in {"reset", "wait", "check"}
    BY <1>0, <1>5, <1>9
  <1>13. \A t \in 1..2 : line'[t] \in {"start", "store", "load"}
    BY <1>0, <1>5, <1>9
  <1>14. OrderTypes'
    BY <1>5, <1>6, <1>7, <1>11, <1>12, <1>13 DEF OrderTypes
  <1>15. Len(c) = Len(b) + Len(s)
    BY <1>3, <1>4
  <1> QED BY <1>0, <1>1, <1>2, <1>8, <1>9, <1>10, <1>14, <1>15 DEF Stored

\* The stores of one step, as a sequence.
LEMMA OneStore ==
  ASSUME NEW S, NEW x \in S
  PROVE  <<x>> \in Seq(S) /\ Len(<<x>>) = 1 /\ <<x>>[1] = x
  OBVIOUS

LEMMA TwoStores ==
  ASSUME NEW S, NEW x \in S, NEW y \in S
  PROVE  <<x, y>> \in Seq(S) /\ Len(<<x, y>>) = 2 /\ <<x, y>>[1] = x /\ <<x, y>>[2] = y
  OBVIOUS

\* The thread whose variable a thread reads.
LEMMA OtherThread ==
  ASSUME NEW t \in 1..2
  PROVE  /\ 3 - t \in 1..2 /\ 3 - t # t /\ 3 - (3 - t) = t
         /\ (t = 1 /\ 3 - t = 2) \/ (t = 2 /\ 3 - t = 1)
  <1>1. CASE t = 1
    BY <1>1
  <1>2. CASE t = 2
    BY <1>2
  <1> QED BY <1>1, <1>2

\* A step of a thread in its iteration: it stores what comes next.
Moves(t, s, l) ==
  /\ Stores(t, s, l) /\ Begun(t)
  /\ Ahead(t)' + Len(s) = Ahead(t) /\ Ahead(t)' \in {0, 2, 3, 4}
  /\ \A k \in 1..Len(s) :
       /\ s[k][1] = Place(t, Ahead(t) - k + 1)
       /\ Ahead(t) - k + 1 # 2 => s[k][2] = IF Ahead(t) - k + 1 = 4 THEN 0 ELSE 1
  /\ USE_CPU_FENCE /\ Ahead(t)' = 0 =>
       Due(t) <= 2 /\ (Begun(3 - t) /\ Ahead(3 - t) = 0 => Outcome(t)' = 1)

LEMMA ThreadMoves ==
  ASSUME OrderInv, NEW t \in 1..2, NEW s \in Seq(Order!Addresses \X {0, 1}), NEW l,
         Moves(t, s, l)
  PROVE  OrderInv'
  <1>0. /\ Stores(t, s, l) /\ Begun(t)
        /\ Ahead(t)' + Len(s) = Ahead(t) /\ Ahead(t)' \in {0, 2, 3, 4}
        /\ \A k \in 1..Len(s) :
             /\ s[k][1] = Place(t, Ahead(t) - k + 1)
             /\ Ahead(t) - k + 1 # 2 => s[k][2] = IF Ahead(t) - k + 1 = 4 THEN 0 ELSE 1
        /\ USE_CPU_FENCE /\ Ahead(t)' = 0 =>
             Due(t) <= 2 /\ (Begun(3 - t) /\ Ahead(3 - t) = 0 => Outcome(t)' = 1)
    BY DEF Moves
  <1>1. /\ Len(s) \in Nat /\ Len(buffer'[t]) = Len(buffer[t]) + Len(s)
        /\ \A k \in 1..Len(buffer'[t]) :
             IF k <= Len(buffer[t]) THEN buffer'[t][k] = buffer[t][k]
             ELSE k - Len(buffer[t]) \in 1..Len(s) /\ buffer'[t][k] = s[k - Len(buffer[t])]
        /\ line'[t] = l
        /\ \A o \in 0..2 : o # t => buffer'[o] = buffer[o] /\ line'[o] = line[o]
        /\ OrderTypes' /\ shared' = shared /\ USE_CPU_FENCE' = USE_CPU_FENCE
    <2>1. Stored(t, s, l)
      <3>1. t \in 0..2
        OBVIOUS
      <3> QED BY <1>0, <3>1, StoreDoes
    <2> QED BY <2>1 DEF Stored
  <1>2. /\ \A p \in 0..2 : Len(buffer[p]) \in Nat
        /\ MainDue \in Nat
        /\ \A u \in 1..2 : Ahead(u) \in {0, 2, 3, 4} /\ Due(u) \in Nat /\ Due(u) <= 4
    BY OrderFacts
  <1>3. Due(t) = Len(buffer[t]) + Ahead(t) /\ ThreadPart(t)
    BY OrderParts DEF Due
  <1>4. Due(t)' = Due(t)
    <2>1. Due(t)' = Len(buffer'[t]) + Ahead(t)'
      BY DEF Due
    <2> QED BY SMTT(30), <1>0, <1>1, <1>2, <1>3, <2>1
  <1>5. MainDue' = MainDue /\ \A u \in 1..2 : (Begun(u)' <=> Begun(u)) /\ (EndCleared(u)' <=> EndCleared(u))
    <2>1. buffer'[0] = buffer[0] /\ line'[0] = line[0]
      BY <1>1
    <2>2. MainDue' = MainDue
      BY <2>1 DEF MainDue
    <2> QED BY <2>2 DEF Begun, EndCleared
  <1>6. ASSUME NEW u \in 1..2, u # t
        PROVE  /\ Ahead(u)' = Ahead(u) /\ Due(u)' = Due(u) /\ Outcome(u)' = Outcome(u)
               /\ ThreadPart(u)'
    <2>1. buffer'[u] = buffer[u] /\ line'[u] = line[u] /\ shared' = shared
      BY <1>1, <1>6
    <2>2. Ahead(u)' = Ahead(u)
      BY <2>1 DEF Ahead
    <2>3. Due(u)' = Due(u) /\ Outcome(u)' = Outcome(u)
      BY <2>1, <2>2 DEF Due, Outcome
    <2>4. ThreadPart(u)
      BY OrderParts
    <2>5. Begun(u)' = Begun(u) /\ EndCleared(u)' = EndCleared(u)
      BY <1>5 DEF Begun, EndCleared
    <2> QED BY <2>1, <2>3, <2>2, <2>4, <2>5 DEF ThreadPart, Place
  <1>7. ThreadPart(t)'
    <2>1. \A k \in 1..Len(buffer'[t]) :
            /\ buffer'[t][k][1] = Place(t, Due(t)' - k + 1)
            /\ Due(t)' - k + 1 # 2 => buffer'[t][k][2] = IF Due(t)' - k + 1 = 4 THEN 0 ELSE 1
      <3> TAKE k \in 1..Len(buffer'[t])
      <3>1. CASE k <= Len(buffer[t])
        <4>1. k \in 1..Len(buffer[t]) /\ buffer'[t][k] = buffer[t][k]
          BY <1>1, <1>2, <3>1
        <4> QED BY <1>3, <1>4, <4>1 DEF ThreadPart
      <3>2. CASE ~ (k <= Len(buffer[t]))
        <4> DEFINE j == k - Len(buffer[t])
        <4>1. j \in 1..Len(s) /\ buffer'[t][k] = s[j]
          BY <1>1, <3>2
        <4>2. /\ s[j][1] = Place(t, Ahead(t) - j + 1)
              /\ Ahead(t) - j + 1 # 2 => s[j][2] = IF Ahead(t) - j + 1 = 4 THEN 0 ELSE 1
          BY <1>0, <4>1
        <4>3. Ahead(t) - j + 1 = Due(t)' - k + 1
          <5>1. t \in 0..2
            OBVIOUS
          <5>2. PICK n \in Nat : n = Len(buffer[t])
            BY <1>2, <5>1
          <5>3. PICK h \in Nat : h = Ahead(t)
            BY <1>2
          <5>4. Len(buffer'[t]) \in Nat
            BY <1>1, <5>2
          <5>5. k \in Nat
            BY <5>4
          <5>6. Due(t)' = n + h
            BY <1>3, <1>4, <5>2, <5>3
          <5>7. j = k - n
            BY <5>2
          <5> HIDE DEF j
          <5> QED BY <5>2, <5>3, <5>5, <5>6, <5>7
        <4> QED BY <4>1, <4>2, <4>3
      <3> QED BY <3>1, <3>2
    <2>2. (\A k \in 1..Len(buffer[t]) :
            /\ buffer[t][k][1] = Place(t, Due(t) - k + 1)
            /\ Due(t) - k + 1 # 2 => buffer[t][k][2] = IF Due(t) - k + 1 = 4 THEN 0 ELSE 1)'
      BY <2>1 DEF Place
    <2>3. Begun(t) /\ Begun(t)' /\ (EndCleared(t)' <=> EndCleared(t)) /\ shared' = shared
      BY <1>0, <1>1, <1>5
    <2> QED BY <1>3, <1>4, <2>2, <2>3 DEF ThreadPart
  <1>8. USE_CPU_FENCE => Fenced'
    <2> HAVE USE_CPU_FENCE
    <2>1. Fenced
      BY DEF OrderInv
    <2>2. \A u \in 1..2 : Ahead(u)' = 0 => Due(u)' <= 2
      <3> TAKE u \in 1..2
      <3>1. CASE u = t
        BY <1>0, <1>4, <3>1
      <3>2. CASE u # t
        BY <1>6, <2>1, <3>2 DEF Fenced
      <3> QED BY <3>1, <3>2
    <2>3. Begun(1)' /\ Begun(2)' /\ Ahead(1)' = 0 /\ Ahead(2)' = 0 => Outcome(1)' = 1 \/ Outcome(2)' = 1
      <3>1. 3 - t \in 1..2 /\ 3 - t # t /\ ((t = 1 /\ 3 - t = 2) \/ (t = 2 /\ 3 - t = 1))
        BY OtherThread
      <3>2. Begun(3 - t)' /\ Ahead(3 - t)' = 0 => Begun(3 - t) /\ Ahead(3 - t) = 0
        BY <1>5, <1>6, <3>1
      <3>3. Begun(3 - t)' /\ Ahead(3 - t)' = 0 /\ Ahead(t)' = 0 => Outcome(t)' = 1
        BY <1>0, <3>2
      <3>4. CASE t = 1
        BY <3>3, <3>4
      <3>5. CASE t = 2
        BY <3>3, <3>5
      <3> QED BY <3>4, <3>5
    <2>4. line'[0] # "check"
      <3>1. MainDue < 3 - t
        BY <1>0 DEF Begun
      <3>2. line[0] = "wait"
        BY <1>2, <3>1 DEF MainDue
      <3> QED BY <1>1, <3>2
    <2> QED BY <2>2, <2>3, <2>4 DEF Fenced
  <1>9. MainDue' <= 6 /\ \A k \in 1..Len(buffer'[0]) : buffer'[0][k] = MainStore(MainDue' - k + 1)
    <2>1. buffer'[0] = buffer[0]
      BY <1>1
    <2> QED BY <1>5, <2>1, OrderParts
  <1>10. (\A k \in 1..Len(buffer[0]) : buffer[0][k] = MainStore(MainDue - k + 1))'
    BY <1>9 DEF MainStore
  <1>11. (USE_CPU_FENCE => Fenced)'
    BY <1>1, <1>8
  <1>12. (\A u \in 1..2 : ThreadPart(u))'
    <2>1. \A u \in 1..2 : ThreadPart(u)'
      BY <1>6, <1>7
    <2> QED BY <2>1 DEF ThreadPart
  <1>13. OrderTypes' /\ (MainDue <= 6)'
    BY <1>1, <1>9
  <1> QED BY <1>10, <1>11, <1>12, <1>13 DEF OrderInv, Buffered, InMemory, ThreadPart

\* A thread sees that it is started, and clears the flag.
LEMMA ThreadStarts ==
  ASSUME OrderInv, NEW t \in 1..2, Order!ThreadStart(t)
  PROVE  OrderInv'
  <1>1. /\ line[t] = "start" /\ Order!Load(t, Order!StartOf(t)) = 1
        /\ Order!Store(t, <<<<Order!StartOf(t), 0>>>>) /\ Order!Goto(t, "store")
        /\ UNCHANGED <<USE_CPU_FENCE, shared>>
    BY DEF Order!ThreadStart
  <1>2. t \in 0..2 /\ Order!StartOf(t) \in Order!Addresses
    BY Apart
  <1>3. ThreadPart(t) /\ Len(buffer[t]) \in Nat /\ Due(t) = Len(buffer[t]) + Ahead(t)
    BY <1>2, OrderFacts, OrderParts DEF Due
  <1>4. \A k \in 1..Len(buffer[t]) : buffer[t][k][1] # Order!StartOf(t)
    <2> SUFFICES ASSUME NEW k \in 1..Len(buffer[t]), buffer[t][k][1] = Order!StartOf(t)
                 PROVE  FALSE
      OBVIOUS
    <2>1. PICK l \in 1..Len(buffer[t]) :
            buffer[t][l][1] = Order!StartOf(t) /\ Order!Load(t, Order!StartOf(t)) = buffer[t][l][2]
      BY <1>2, LoadDoes
    <2> DEFINE q == Due(t) - l + 1
    <2>2. /\ buffer[t][l][1] = Place(t, q)
          /\ q # 2 => buffer[t][l][2] = IF q = 4 THEN 0 ELSE 1
      BY <1>3, <2>1 DEF ThreadPart
    <2> HIDE DEF q
    <2>3. q # 1 /\ q # 2 /\ q # 3
      BY <2>1, <2>2, Apart DEF Place
    <2>4. q = 4
      <3>1. Due(t) \in Nat /\ Due(t) <= 4 /\ Ahead(t) \in Nat /\ l \in 1..Len(buffer[t])
        BY SMTT(30), <2>1, OrderFacts
      <3>2. PICK d \in Nat : d = Due(t) /\ d <= 4 /\ l <= d
        BY <1>3, <3>1
      <3>3. q = d - l + 1
        BY <3>2 DEF q
      <3>4. q \in 1..4
        BY SMTT(30), <3>1, <3>2, <3>3
      <3> QED BY <2>3, <3>4
    <2> QED BY <1>1, <2>1, <2>2, <2>4
  <1>5. shared[Order!StartOf(t)] = 1
    BY <1>1, <1>2, <1>4, LoadDoes
  <1>6. Begun(t) /\ Due(t) = 4
    BY <1>3, <1>5 DEF ThreadPart
  <1>7. Ahead(t) = 4
    <2>1. Ahead(t) = 4 \/ (Ahead(t) = 0 /\ Len(buffer[t]) # 0)
      <3>1. Ahead(t) = IF Len(buffer[t]) = 0 /\ shared[Order!StartOf(t)] = 1 THEN 4 ELSE 0
        BY <1>1 DEF Ahead
      <3> QED BY <1>5, <3>1
    <2>2. ASSUME Ahead(t) = 0, Len(buffer[t]) # 0
          PROVE  FALSE
      <3>1. Len(buffer[t]) = 4 /\ 1 \in 1..Len(buffer[t])
        BY <1>3, <1>6, <2>2
      <3>2. buffer[t][1][1] = Place(t, 4)
        <4>1. buffer[t][1][1] = Place(t, Due(t) - 1 + 1)
          BY <1>3, <3>1 DEF ThreadPart
        <4>2. Due(t) - 1 + 1 = 4
          BY <1>6
        <4> QED BY <4>1, <4>2
      <3>3. Place(t, 4) = Order!StartOf(t)
        BY DEF Place
      <3> QED BY <1>4, <3>1, <3>2, <3>3
    <2> QED BY <2>1, <2>2
  <1>8. PICK s \in Seq(Order!Addresses \X {0, 1}) :
          s = <<<<Order!StartOf(t), 0>>>> /\ Len(s) = 1 /\ s[1] = <<Order!StartOf(t), 0>>
    <2>1. <<Order!StartOf(t), 0>> \in Order!Addresses \X {0, 1}
      BY <1>2
    <2> QED BY <2>1, OneStore
  <1>9. line'[t] = "store"
    <2>1. line \in [0..2 -> {"reset", "wait", "check", "start", "store", "load"}]
      BY OrderFacts
    <2> QED BY <1>1, <1>2, <2>1 DEF Order!Goto
  <1>10. Ahead(t)' = 3
    BY <1>9 DEF Ahead
  <1>11. \A k \in 1..Len(s) :
           /\ s[k][1] = Place(t, Ahead(t) - k + 1)
           /\ Ahead(t) - k + 1 # 2 => s[k][2] = IF Ahead(t) - k + 1 = 4 THEN 0 ELSE 1
    <2> TAKE k \in 1..Len(s)
    <2>1. k = 1
      BY <1>8
    <2>2. Ahead(t) - k + 1 = 4
      BY <1>7, <2>1
    <2>3. Place(t, 4) = Order!StartOf(t)
      BY DEF Place
    <2> QED BY <1>8, <2>1, <2>2, <2>3
  <1>12. Ahead(t)' + Len(s) = Ahead(t) /\ Ahead(t)' \in {0, 2, 3, 4} /\ Ahead(t)' # 0
    BY <1>7, <1>8, <1>10
  <1>13. Stores(t, s, "store")
    BY <1>1, <1>8 DEF Stores
  <1>14. Moves(t, s, "store")
    BY <1>6, <1>11, <1>12, <1>13 DEF Moves
  <1> QED BY <1>14, ThreadMoves

\* It stores its variable.
LEMMA ThreadStores ==
  ASSUME OrderInv, NEW t \in 1..2, Order!SetOwn(t)
  PROVE  OrderInv'
  <1>1. /\ line[t] = "store"
        /\ Order!Store(t, <<<<Order!Var(t), 1>>>>) /\ Order!Goto(t, "load")
        /\ UNCHANGED <<USE_CPU_FENCE, shared>>
    BY DEF Order!SetOwn
  <1>2. t \in 0..2 /\ Order!Var(t) \in Order!Addresses
    BY Apart
  <1>3. Begun(t) /\ Ahead(t) = 3
    <2>1. ThreadPart(t)
      BY OrderParts
    <2> QED BY <1>1, <2>1 DEF ThreadPart, Ahead
  <1>4. PICK s \in Seq(Order!Addresses \X {0, 1}) :
          s = <<<<Order!Var(t), 1>>>> /\ Len(s) = 1 /\ s[1] = <<Order!Var(t), 1>>
    <2>1. <<Order!Var(t), 1>> \in Order!Addresses \X {0, 1}
      BY <1>2
    <2> QED BY <2>1, OneStore
  <1>5. line'[t] = "load"
    <2>1. line \in [0..2 -> {"reset", "wait", "check", "start", "store", "load"}]
      BY OrderFacts
    <2> QED BY <1>1, <1>2, <2>1 DEF Order!Goto
  <1>6. Ahead(t)' = 2
    BY <1>5 DEF Ahead
  <1>7. \A k \in 1..Len(s) :
          /\ s[k][1] = Place(t, Ahead(t) - k + 1)
          /\ Ahead(t) - k + 1 # 2 => s[k][2] = IF Ahead(t) - k + 1 = 4 THEN 0 ELSE 1
    <2> TAKE k \in 1..Len(s)
    <2>1. k = 1
      BY <1>4
    <2>2. Ahead(t) - k + 1 = 3
      BY <1>3, <2>1
    <2>3. Place(t, 3) = Order!Var(t)
      BY DEF Place
    <2> QED BY <1>4, <2>1, <2>2, <2>3
  <1>8. Ahead(t)' + Len(s) = Ahead(t) /\ Ahead(t)' \in {0, 2, 3, 4} /\ Ahead(t)' # 0
    BY <1>3, <1>4, <1>6
  <1>9. Stores(t, s, "load")
    BY <1>1, <1>4 DEF Stores
  <1>10. Moves(t, s, "load")
    BY <1>3, <1>7, <1>8, <1>9 DEF Moves
  <1> QED BY <1>10, ThreadMoves

\* It reads the other's variable, and stores what it read and that it is done.
LEMMA ThreadReads ==
  ASSUME OrderInv, NEW t \in 1..2, Order!ReadOther(t)
  PROVE  OrderInv'
  <1>1. PICK v : v = Order!Load(t, Order!Var(3 - t))
    OBVIOUS
  <1>2. /\ line[t] = "load" /\ (USE_CPU_FENCE => buffer[t] = <<>>)
        /\ Order!Store(t, <<<<Order!Result(t), v>>, <<Order!EndOf(t), 1>>>>)
        /\ Order!Goto(t, "start")
        /\ UNCHANGED <<USE_CPU_FENCE, shared>>
    BY <1>1 DEF Order!ReadOther, Order!barrier
  <1>3. /\ t \in 0..2 /\ Order!Result(t) \in Order!Addresses /\ Order!EndOf(t) \in Order!Addresses
        /\ Order!Var(3 - t) \in Order!Addresses /\ 3 - t \in 1..2
    BY Apart, OtherThread
  <1>4. v \in {0, 1}
    BY <1>1, <1>3, LoadDoes
  <1>5. Begun(t) /\ Ahead(t) = 2
    <2>1. ThreadPart(t)
      BY OrderParts
    <2> QED BY <1>2, <2>1 DEF ThreadPart, Ahead
  <1>6. PICK s \in Seq(Order!Addresses \X {0, 1}) :
          /\ s = <<<<Order!Result(t), v>>, <<Order!EndOf(t), 1>>>> /\ Len(s) = 2
          /\ s[1] = <<Order!Result(t), v>> /\ s[2] = <<Order!EndOf(t), 1>>
    <2>1. /\ <<Order!Result(t), v>> \in Order!Addresses \X {0, 1}
          /\ <<Order!EndOf(t), 1>> \in Order!Addresses \X {0, 1}
      BY <1>3, <1>4
    <2>2. PICK x \in Order!Addresses \X {0, 1} : x = <<Order!Result(t), v>>
      BY <2>1
    <2>3. PICK y \in Order!Addresses \X {0, 1} : y = <<Order!EndOf(t), 1>>
      BY <2>1
    <2>4. /\ <<x, y>> \in Seq(Order!Addresses \X {0, 1}) /\ Len(<<x, y>>) = 2
          /\ <<x, y>>[1] = x /\ <<x, y>>[2] = y
      BY TwoStores
    <2> QED BY Zenon, <2>2, <2>3, <2>4
  <1>7. Stores(t, s, "start")
    BY <1>2, <1>6 DEF Stores
  <1>8. /\ Len(buffer'[t]) = Len(buffer[t]) + 2 /\ line'[t] = "start" /\ Len(buffer[t]) \in Nat
        /\ \A k \in 1..Len(buffer'[t]) :
             k > Len(buffer[t]) => buffer'[t][k] = s[k - Len(buffer[t])]
    <2>1. Len(buffer[t]) \in Nat
      BY <1>3, OrderFacts
    <2>2. Stored(t, s, "start")
      BY <1>3, <1>7, StoreDoes
    <2>3. /\ Len(buffer'[t]) = Len(buffer[t]) + Len(s) /\ line'[t] = "start"
          /\ \A k \in 1..Len(buffer'[t]) :
               IF k <= Len(buffer[t]) THEN buffer'[t][k] = buffer[t][k]
               ELSE k - Len(buffer[t]) \in 1..Len(s) /\ buffer'[t][k] = s[k - Len(buffer[t])]
      BY <2>2 DEF Stored
    <2>4. Len(buffer'[t]) = Len(buffer[t]) + 2
      BY <1>6, <2>3
    <2>5. \A k \in 1..Len(buffer'[t]) :
            k > Len(buffer[t]) => buffer'[t][k] = s[k - Len(buffer[t])]
      <3> TAKE k \in 1..Len(buffer'[t])
      <3>1. k > Len(buffer[t]) => ~ (k <= Len(buffer[t]))
        BY <2>1, <2>4
      <3> QED BY <2>3, <3>1
    <2> QED BY <2>1, <2>3, <2>4, <2>5
  <1>9. Ahead(t)' = 0
    BY <1>8 DEF Ahead
  <1>10. \A k \in 1..Len(s) :
           /\ s[k][1] = Place(t, Ahead(t) - k + 1)
           /\ Ahead(t) - k + 1 # 2 => s[k][2] = IF Ahead(t) - k + 1 = 4 THEN 0 ELSE 1
    <2> TAKE k \in 1..Len(s)
    <2>1. Place(t, 2) = Order!Result(t) /\ Place(t, 1) = Order!EndOf(t)
      BY DEF Place
    <2>2. CASE k = 1
      <3>1. Ahead(t) - k + 1 = 2
        BY <1>5, <2>2
      <3> QED BY <1>6, <2>1, <2>2, <3>1
    <2>3. CASE k = 2
      <3>1. Ahead(t) - k + 1 = 1
        BY <1>5, <2>3
      <3> QED BY <1>6, <2>1, <2>3, <3>1
    <2>4. k = 1 \/ k = 2
      BY <1>6
    <2> QED BY <2>2, <2>3, <2>4
  <1>11. Ahead(t)' + Len(s) = Ahead(t)
    BY <1>5, <1>6, <1>9
  <1>12. USE_CPU_FENCE => /\ Due(t) <= 2
                          /\ Begun(3 - t) /\ Ahead(3 - t) = 0 => Outcome(t)' = 1
    <2> HAVE USE_CPU_FENCE
    <2>1. Len(buffer[t]) = 0
      BY <1>2
    <2>2. Due(t) = 2
      BY <1>5, <2>1 DEF Due
    <2>3. v = shared[Order!Var(3 - t)]
      BY <1>1, <1>3, <2>1, LoadDoes
    <2>4. Len(buffer'[t]) = 2 /\ buffer'[t][1] = <<Order!Result(t), v>>
      <3>1. Len(buffer'[t]) = 2
        BY <1>8, <2>1
      <3>2. 1 \in 1..2 /\ 1 > 0 /\ 1 - 0 = 1
        OBVIOUS
      <3> QED BY <1>6, <1>8, <2>1, <3>1, <3>2
    <2>5. Outcome(t)' = v
      <3>1. buffer'[t][Len(buffer'[t]) - 1][2] = v
        BY <2>4
      <3> QED BY <2>4, <3>1 DEF Outcome
    <2>6. Begun(3 - t) /\ Ahead(3 - t) = 0 => shared[Order!Var(3 - t)] = 1
      <3>1. Ahead(3 - t) = 0 => Due(3 - t) <= 2
        BY <1>3 DEF OrderInv, Fenced
      <3>2. ThreadPart(3 - t)
        BY <1>3, OrderParts
      <3> QED BY <3>1, <3>2 DEF ThreadPart
    <2> QED BY <2>2, <2>3, <2>5, <2>6
  <1>13. Ahead(t)' \in {0, 2, 3, 4}
    BY <1>9
  <1>14. Moves(t, s, "start")
    BY <1>5, <1>7, <1>10, <1>11, <1>12, <1>13 DEF Moves
  <1> QED BY <1>14, ThreadMoves

\* A step of main(): the threads, and what they have stored, are as they were.
LEMMA MainLeaves ==
  ASSUME OrderInv, shared' = shared,
         \A t \in 1..2 : buffer'[t] = buffer[t] /\ line'[t] = line[t]
  PROVE  \A t \in 1..2 : Ahead(t)' = Ahead(t) /\ Due(t)' = Due(t) /\ Outcome(t)' = Outcome(t)
  <1> TAKE t \in 1..2
  <1>1. buffer'[t] = buffer[t] /\ line'[t] = line[t]
    OBVIOUS
  <1>2. Ahead(t)' = Ahead(t)
    BY <1>1 DEF Ahead
  <1> QED BY <1>1, <1>2 DEF Due, Outcome

\* With what main() has due as it was, the invariant holds as it did.
LEMMA MainKeeps ==
  ASSUME OrderInv, shared' = shared, USE_CPU_FENCE' = USE_CPU_FENCE,
         \A t \in 1..2 : buffer'[t] = buffer[t] /\ line'[t] = line[t],
         MainDue' = MainDue, OrderTypes', line'[0] # "check",
         \A k \in 1..Len(buffer'[0]) : buffer'[0][k] = MainStore(MainDue - k + 1)
  PROVE  OrderInv'
  <1>1. \A t \in 1..2 : Ahead(t)' = Ahead(t) /\ Due(t)' = Due(t) /\ Outcome(t)' = Outcome(t)
    BY MainLeaves
  <1>2. \A t \in 1..2 : (Begun(t)' <=> Begun(t)) /\ (EndCleared(t)' <=> EndCleared(t))
    BY DEF Begun, EndCleared
  <1>3. (\A t \in 1..2 : ThreadPart(t))'
    <2>1. ASSUME NEW t \in 1..2
          PROVE  ThreadPart(t)'
      <3>1. ThreadPart(t)
        BY OrderParts
      <3>2. Begun(t)' = Begun(t) /\ EndCleared(t)' = EndCleared(t)
        BY DEF Begun, EndCleared
      <3>3. buffer'[t] = buffer[t] /\ line'[t] = line[t] /\ Due(t)' = Due(t)
        BY <1>1
      <3> QED BY <3>1, <3>2, <3>3 DEF ThreadPart, Place
    <2> QED BY <2>1 DEF ThreadPart
  <1>4. (USE_CPU_FENCE => Fenced)'
    <2>1. USE_CPU_FENCE => Fenced
      BY DEF OrderInv
    <2> QED BY <1>1, <1>2, <2>1 DEF Fenced
  <1>5. (MainDue <= 6)' /\ (\A k \in 1..Len(buffer[0]) : buffer[0][k] = MainStore(MainDue - k + 1))'
    <2>1. MainDue <= 6
      BY OrderParts
    <2>2. \A k \in 1..Len(buffer'[0]) : buffer'[0][k] = MainStore(MainDue' - k + 1)
      OBVIOUS
    <2> QED BY <2>1, <2>2 DEF MainStore
  <1> QED BY <1>3, <1>4, <1>5 DEF OrderInv, Buffered, InMemory, ThreadPart

\* The places of four stores behind n others.
LEMMA FourMore ==
  ASSUME NEW n \in Nat, NEW k \in 1..(n + 4), ~ (k <= n)
  PROVE  k - n = 1 \/ k - n = 2 \/ k - n = 3 \/ k - n = 4
  OBVIOUS

\* main() clears the variables and starts the threads.
LEMMA MainStarts ==
  ASSUME OrderInv, Order!MainStart
  PROVE  OrderInv'
  <1> DEFINE s0 == <<<<Order!Var(1), 0>>, <<Order!Var(2), 0>>,
                     <<Order!StartOf(1), 1>>, <<Order!StartOf(2), 1>>>>
  <1>1. /\ line[0] = "reset" /\ Order!Store(0, s0) /\ Order!Goto(0, "wait")
        /\ UNCHANGED <<USE_CPU_FENCE, shared>>
    BY DEF Order!MainStart, Order!Main
  <1>2. PICK s \in Seq(Order!Addresses \X {0, 1}) :
          /\ s = s0 /\ Len(s) = 4
          /\ s[1] = <<Order!Var(1), 0>> /\ s[2] = <<Order!Var(2), 0>>
          /\ s[3] = <<Order!StartOf(1), 1>> /\ s[4] = <<Order!StartOf(2), 1>>
    <2>1. /\ Order!Var(1) \in Order!Addresses /\ Order!Var(2) \in Order!Addresses
          /\ Order!StartOf(1) \in Order!Addresses /\ Order!StartOf(2) \in Order!Addresses
      BY Apart
    <2>2. PICK x1 \in Order!Addresses \X {0, 1} : x1 = <<Order!Var(1), 0>>
      BY <2>1
    <2>3. PICK x2 \in Order!Addresses \X {0, 1} : x2 = <<Order!Var(2), 0>>
      BY <2>1
    <2>4. PICK x3 \in Order!Addresses \X {0, 1} : x3 = <<Order!StartOf(1), 1>>
      BY <2>1
    <2>5. PICK x4 \in Order!Addresses \X {0, 1} : x4 = <<Order!StartOf(2), 1>>
      BY <2>1
    <2>6. /\ <<x1, x2, x3, x4>> \in Seq(Order!Addresses \X {0, 1})
          /\ Len(<<x1, x2, x3, x4>>) = 4
          /\ <<x1, x2, x3, x4>>[1] = x1 /\ <<x1, x2, x3, x4>>[2] = x2
          /\ <<x1, x2, x3, x4>>[3] = x3 /\ <<x1, x2, x3, x4>>[4] = x4
      OBVIOUS
    <2> QED BY Zenon, <2>2, <2>3, <2>4, <2>5, <2>6
  <1> HIDE DEF s0
  <1>3. /\ Len(buffer'[0]) = Len(buffer[0]) + 4 /\ line'[0] = "wait"
        /\ \A k \in 1..Len(buffer'[0]) :
             IF k <= Len(buffer[0]) THEN buffer'[0][k] = buffer[0][k]
             ELSE k - Len(buffer[0]) \in 1..4 /\ buffer'[0][k] = s[k - Len(buffer[0])]
        /\ \A t \in 1..2 : buffer'[t] = buffer[t] /\ line'[t] = line[t]
        /\ OrderTypes'
    <2>1. PICK l : l = "wait"
      OBVIOUS
    <2>2. PICK p \in 0..2 : p = 0
      OBVIOUS
    <2>3. Stored(p, s, l)
      <3>1. Stores(p, s, l)
        BY <1>1, <1>2, <2>1, <2>2 DEF Stores
      <3> QED BY <3>1, StoreDoes
    <2>4. /\ Len(buffer'[p]) = Len(buffer[p]) + Len(s) /\ line'[p] = l
          /\ \A k \in 1..Len(buffer'[p]) :
               IF k <= Len(buffer[p]) THEN buffer'[p][k] = buffer[p][k]
               ELSE k - Len(buffer[p]) \in 1..Len(s) /\ buffer'[p][k] = s[k - Len(buffer[p])]
          /\ \A o \in 0..2 : o # p => buffer'[o] = buffer[o] /\ line'[o] = line[o]
          /\ OrderTypes'
      BY <2>3 DEF Stored
    <2> QED BY <1>2, <2>1, <2>2, <2>4
  <1>4. PICK n \in Nat : n = Len(buffer[0])
    BY OrderFacts
  <1>5. MainDue = n + 4 /\ MainDue' = n + 4
    BY <1>1, <1>3, <1>4 DEF MainDue
  <1>6. \A k \in 1..Len(buffer'[0]) : buffer'[0][k] = MainStore(MainDue - k + 1)
    <2> TAKE k \in 1..Len(buffer'[0])
    <2>1. k \in 1..(n + 4)
      BY <1>3, <1>4
    <2>2. CASE k <= n
      <3>1. k \in 1..Len(buffer[0]) /\ buffer'[0][k] = buffer[0][k]
        BY <1>3, <1>4, <2>1, <2>2
      <3> QED BY <3>1, OrderParts
    <2>3. CASE ~ (k <= n)
      <3>1. buffer'[0][k] = s[k - n]
        BY <1>3, <1>4, <2>3
      <3>2. \/ k - n = 1 /\ MainDue - k + 1 = 4
            \/ k - n = 2 /\ MainDue - k + 1 = 3
            \/ k - n = 3 /\ MainDue - k + 1 = 2
            \/ k - n = 4 /\ MainDue - k + 1 = 1
        <4>1. k - n = 1 \/ k - n = 2 \/ k - n = 3 \/ k - n = 4
          BY <1>4, <2>1, <2>3, FourMore
        <4>2. n \in Int /\ k \in Int
          BY <1>4, <2>1
        <4>3. MainDue - k + 1 = 5 - (k - n)
          BY <1>5, <4>2
        <4> QED BY <4>1, <4>3
      <3>3. /\ MainStore(4) = s[1] /\ MainStore(3) = s[2] /\ MainStore(2) = s[3]
            /\ MainStore(1) = s[4]
        BY <1>2 DEF MainStore
      <3> QED BY <3>1, <3>2, <3>3
    <2> QED BY <2>2, <2>3
  <1> QED BY <1>1, <1>3, <1>5, <1>6, MainKeeps

\* main() has compared the results.
LEMMA MainChecks ==
  ASSUME OrderInv, Order!MainCheck
  PROVE  OrderInv'
  <1>1. /\ line[0] = "check" /\ line' = [line EXCEPT ![0] = "reset"]
        /\ UNCHANGED <<USE_CPU_FENCE, shared, buffer>>
    BY DEF Order!MainCheck, Order!Main, Order!Goto
  <1>2. OrderTypes
    BY DEF OrderInv
  <1>3. line'[0] = "reset" /\ \A t \in 1..2 : line'[t] = line[t]
    BY <1>1, <1>2 DEF OrderTypes
  <1>4. OrderTypes'
    BY <1>1, <1>2, <1>3 DEF OrderTypes
  <1>5. MainDue' = MainDue
    BY <1>1, <1>3 DEF MainDue
  <1>6. \A k \in 1..Len(buffer'[0]) : buffer'[0][k] = MainStore(MainDue - k + 1)
    BY <1>1, OrderParts
  <1> QED BY <1>1, <1>3, <1>4, <1>5, <1>6, MainKeeps

\* While main() waits it reads that a thread has ended only if memory holds that,
\* after it has cleared the flag.
LEMMA EndRead ==
  ASSUME OrderInv, line[0] = "wait", NEW t \in 1..2, Order!Load(0, Order!EndOf(t)) = 1
  PROVE  EndCleared(t) /\ shared[Order!EndOf(t)] = 1
  <1>1. PICK d \in Nat : d = Len(buffer[0]) /\ d <= 6 /\ MainDue = d
    <2>1. MainDue = Len(buffer[0])
      BY DEF MainDue
    <2> QED BY <2>1, OrderFacts
  <1>2. \A k \in 1..d : buffer[0][k] = MainStore(d - k + 1)
    BY <1>1, OrderParts
  <1>3. PICK p \in 0..2 : p = 0
    OBVIOUS
  <1>4. Order!EndOf(t) \in Order!Addresses
    BY Apart
  <1>5. \A k \in 1..d : buffer[0][k][1] # Order!EndOf(t)
    <2> SUFFICES ASSUME NEW k \in 1..d, buffer[0][k][1] = Order!EndOf(t)
                 PROVE  FALSE
      OBVIOUS
    <2>1. PICK l \in 1..d : buffer[0][l][1] = Order!EndOf(t) /\ buffer[0][l][2] = 1
      <3>1. \E l \in 1..Len(buffer[p]) :
              buffer[p][l][1] = Order!EndOf(t) /\ Order!Load(p, Order!EndOf(t)) = buffer[p][l][2]
        BY <1>1, <1>3, <1>4, LoadDoes
      <3> QED BY <1>1, <1>3, <3>1
    <2>2. PICK q \in 1..6 : q = d - l + 1
      <3>1. d - l + 1 \in 1..6
        <4>1. d \in Nat /\ d <= 6 /\ l \in Nat /\ l >= 1 /\ l <= d
          BY <1>1
        <4> QED BY <4>1
      <3> QED BY <3>1
    <2>3. buffer[0][l] = MainStore(q)
      BY <1>2, <2>2
    <2>4. q = 1 \/ q = 2 \/ q = 3 \/ q = 4 \/ q = 5 \/ q = 6
      OBVIOUS
    <2>5. Order!EndOf(t) # Order!StartOf(1) /\ Order!EndOf(t) # Order!StartOf(2)
      BY Apart
    <2>6. q # 1 /\ q # 2
      BY <2>1, <2>3, <2>5 DEF MainStore
    <2>7. MainStore(q)[2] = 0
      BY <2>4, <2>6 DEF MainStore
    <2> QED BY <2>1, <2>3, <2>7
  <1>6. shared[Order!EndOf(t)] = 1
    BY <1>1, <1>3, <1>4, <1>5, LoadDoes
  <1>7. d < 7 - t
    <2> SUFFICES ASSUME d >= 7 - t
                 PROVE  FALSE
      BY <1>1
    <2>1. PICK k \in 1..d : d - k + 1 = 7 - t
      <3>1. CASE t = 1
        <4>1. d - 6 + 1 \in 1..d /\ d - (d - 6 + 1) + 1 = 6
          BY <1>1, <3>1
        <4> QED BY <3>1, <4>1
      <3>2. CASE t = 2
        <4>1. d - 5 + 1 \in 1..d /\ d - (d - 5 + 1) + 1 = 5
          BY <1>1, <3>2
        <4> QED BY <3>2, <4>1
      <3> QED BY <3>1, <3>2
    <2>2. MainStore(7 - t)[1] = Order!EndOf(t)
      <3>1. CASE t = 1
        BY <3>1 DEF MainStore
      <3>2. CASE t = 2
        BY <3>2 DEF MainStore
      <3> QED BY <3>1, <3>2
    <2> QED BY <1>2, <1>5, <2>1, <2>2
  <1> QED BY <1>1, <1>6, <1>7 DEF EndCleared

\* main() sees that both have ended, and clears the flags: nothing is left to come.
LEMMA MainWaits ==
  ASSUME OrderInv, Order!MainWait
  PROVE  OrderInv'
  <1> DEFINE s0 == <<<<Order!EndOf(1), 0>>, <<Order!EndOf(2), 0>>>>
  <1>1. /\ line[0] = "wait" /\ Order!Store(0, s0) /\ Order!Goto(0, "check")
        /\ \A t \in 1..2 : Order!Load(0, Order!EndOf(t)) = 1
        /\ UNCHANGED <<USE_CPU_FENCE, shared>>
    BY DEF Order!MainWait, Order!Main, Order!Threads
  <1>2. PICK s \in Seq(Order!Addresses \X {0, 1}) :
          /\ s = s0 /\ Len(s) = 2
          /\ s[1] = <<Order!EndOf(1), 0>> /\ s[2] = <<Order!EndOf(2), 0>>
    <2>1. Order!EndOf(1) \in Order!Addresses /\ Order!EndOf(2) \in Order!Addresses
      BY Apart
    <2>2. PICK x1 \in Order!Addresses \X {0, 1} : x1 = <<Order!EndOf(1), 0>>
      BY <2>1
    <2>3. PICK x2 \in Order!Addresses \X {0, 1} : x2 = <<Order!EndOf(2), 0>>
      BY <2>1
    <2>4. /\ <<x1, x2>> \in Seq(Order!Addresses \X {0, 1}) /\ Len(<<x1, x2>>) = 2
          /\ <<x1, x2>>[1] = x1 /\ <<x1, x2>>[2] = x2
      BY TwoStores
    <2> QED BY Zenon, <2>2, <2>3, <2>4
  <1> HIDE DEF s0
  <1>3. \A t \in 1..2 : EndCleared(t) /\ shared[Order!EndOf(t)] = 1
    BY <1>1, EndRead
  <1>4. \A t \in 1..2 : ThreadPart(t)
    BY OrderParts
  <1>5. \A t \in 1..2 : Begun(t) /\ Due(t) = 0
    BY <1>3, <1>4 DEF ThreadPart
  <1>6. ASSUME NEW t \in 1..2
        PROVE  /\ Len(buffer[t]) = 0 /\ Ahead(t) = 0 /\ line[t] = "start"
               /\ shared[Order!StartOf(t)] = 0
    <2>1. Due(t) = Len(buffer[t]) + Ahead(t) /\ Due(t) = 0 /\ t \in 0..2
      BY <1>5 DEF Due
    <2>2. Len(buffer[t]) \in Nat /\ Ahead(t) \in {0, 2, 3, 4} /\ line[t] \in {"start", "store", "load"}
      BY <2>1, OrderFacts
    <2>3. Len(buffer[t]) = 0 /\ Ahead(t) = 0
      BY <2>1, <2>2
    <2>4. line[t] = "start"
      BY <2>2, <2>3 DEF Ahead
    <2>5. shared[Order!StartOf(t)] # 1
      BY <1>4, <1>5 DEF ThreadPart
    <2>6. shared[Order!StartOf(t)] \in {0, 1}
      BY Apart, OrderFacts
    <2> QED BY <2>3, <2>4, <2>5, <2>6
  <1>7. Len(buffer[0]) = 0
    <2>1. MainDue < 1 /\ MainDue \in Nat
      <3>1. Begun(2) /\ MainDue \in Nat
        BY <1>5, OrderFacts
      <3> QED BY <3>1 DEF Begun
    <2> QED BY <1>1, <2>1 DEF MainDue
  <1>8. /\ Len(buffer'[0]) = 2 /\ line'[0] = "check"
        /\ \A k \in 1..2 : buffer'[0][k] = s[k]
        /\ \A t \in 1..2 : buffer'[t] = buffer[t] /\ line'[t] = line[t]
        /\ OrderTypes'
    <2>1. PICK l : l = "check"
      OBVIOUS
    <2>2. PICK p \in 0..2 : p = 0
      OBVIOUS
    <2>3. Stored(p, s, l)
      <3>1. Stores(p, s, l)
        BY <1>1, <1>2, <2>1, <2>2 DEF Stores
      <3> QED BY <3>1, StoreDoes
    <2>4. /\ Len(buffer'[p]) = Len(buffer[p]) + Len(s) /\ line'[p] = l
          /\ \A k \in 1..Len(buffer'[p]) :
               IF k <= Len(buffer[p]) THEN buffer'[p][k] = buffer[p][k]
               ELSE k - Len(buffer[p]) \in 1..Len(s) /\ buffer'[p][k] = s[k - Len(buffer[p])]
          /\ \A o \in 0..2 : o # p => buffer'[o] = buffer[o] /\ line'[o] = line[o]
          /\ OrderTypes'
      BY <2>3 DEF Stored
    <2>5. Len(buffer'[0]) = 2
      BY <1>2, <1>7, <2>2, <2>4
    <2>6. \A k \in 1..2 : buffer'[0][k] = s[k]
      <3> TAKE k \in 1..2
      <3>1. ~ (k <= Len(buffer[p])) /\ k - Len(buffer[p]) = k /\ k \in 1..Len(buffer'[p])
        BY <1>7, <2>2, <2>5
      <3> QED BY <2>2, <2>4, <3>1
    <2> QED BY <2>1, <2>2, <2>4, <2>5, <2>6
  <1>9. MainDue' = 6
    BY <1>8 DEF MainDue
  <1>10. \A t \in 1..2 : Ahead(t)' = Ahead(t) /\ Due(t)' = Due(t) /\ Outcome(t)' = Outcome(t)
    BY <1>1, <1>8, MainLeaves
  <1>11. \A t \in 1..2 : ~ Begun(t)' /\ ~ EndCleared(t)'
    BY <1>9 DEF Begun, EndCleared
  <1>12. (\A t \in 1..2 : ThreadPart(t))'
    <2>1. ASSUME NEW t \in 1..2
          PROVE  ThreadPart(t)'
      <3>1. /\ Len(buffer'[t]) = 0 /\ line'[t] = "start" /\ shared'[Order!StartOf(t)] = 0
            /\ Due(t)' = 0
        BY <1>1, <1>5, <1>6, <1>8, <1>10
      <3>2. \A k \in 1..Len(buffer'[t]) : FALSE
        BY <3>1
      <3> QED BY <1>11, <3>1, <3>2 DEF ThreadPart
    <2> QED BY <2>1 DEF ThreadPart
  <1>13. (USE_CPU_FENCE => Fenced)'
    <2>1. USE_CPU_FENCE => shared[Order!Result(1)] = 1 \/ shared[Order!Result(2)] = 1
      <3> HAVE USE_CPU_FENCE
      <3>1. Outcome(1) = 1 \/ Outcome(2) = 1
        BY <1>5, <1>6 DEF OrderInv, Fenced
      <3>2. \A t \in 1..2 : Outcome(t) = shared[Order!Result(t)]
        BY <1>6 DEF Outcome
      <3> QED BY <3>1, <3>2
    <2>2. \A t \in 1..2 : Due(t)' <= 2
      BY <1>5, <1>10
    <2>3. shared' = shared /\ USE_CPU_FENCE' = USE_CPU_FENCE
      BY <1>1
    <2> QED BY <1>11, <2>1, <2>2, <2>3 DEF Fenced
  <1>14. (MainDue <= 6)' /\ (\A k \in 1..Len(buffer[0]) : buffer[0][k] = MainStore(MainDue - k + 1))'
    <2>1. \A k \in 1..Len(buffer'[0]) : buffer'[0][k] = MainStore(MainDue' - k + 1)
      <3> TAKE k \in 1..Len(buffer'[0])
      <3>1. k = 1 \/ k = 2
        BY <1>8
      <3>2. MainStore(6) = s[1] /\ MainStore(5) = s[2]
        BY <1>2 DEF MainStore
      <3>3. 6 - 1 + 1 = 6 /\ 6 - 2 + 1 = 5
        OBVIOUS
      <3> QED BY <1>8, <1>9, <3>1, <3>2, <3>3
    <2>2. (\A k \in 1..Len(buffer[0]) : buffer[0][k] = MainStore(MainDue - k + 1))'
      BY <2>1 DEF MainStore
    <2>3. (MainDue <= 6)'
      BY <1>9
    <2> QED BY <2>2, <2>3
  <1> QED BY <1>8, <1>12, <1>13, <1>14 DEF OrderInv, Buffered, InMemory, ThreadPart

LEMMA OrderStep ==
  ASSUME OrderInv, Order!Next
  PROVE  OrderInv'
  <1>1. CASE Order!MainStart
    BY <1>1, MainStarts
  <1>2. CASE Order!MainWait
    BY <1>2, MainWaits
  <1>3. CASE Order!MainCheck
    BY <1>3, MainChecks
  <1>4. CASE Order!Flush(0)
    BY <1>4, FlushMain
  <1>5. ASSUME NEW t \in 1..2, Order!ThreadStart(t)
        PROVE  OrderInv'
    BY <1>5, ThreadStarts
  <1>6. ASSUME NEW t \in 1..2, Order!SetOwn(t)
        PROVE  OrderInv'
    BY <1>6, ThreadStores
  <1>7. ASSUME NEW t \in 1..2, Order!ReadOther(t)
        PROVE  OrderInv'
    BY <1>7, ThreadReads
  <1>8. ASSUME NEW t \in 1..2, Order!Flush(t)
        PROVE  OrderInv'
    BY <1>8, FlushThread
  <1> QED BY <1>1, <1>2, <1>3, <1>4, <1>5, <1>6, <1>7, <1>8
         DEF Order!Next, Order!Threads, Order!Main

LEMMA OrderOnly == [Next]_vars => Order!Next \/ UNCHANGED orderVars
  BY DEF Next, InCoro, InSort, InEcho, InLock, NextThread, NextCond, NextOrder, NextEvent

LEMMA NextOrderKeeps == OrderInv /\ [Next]_vars => OrderInv'
  <1> SUFFICES ASSUME OrderInv, [Next]_vars PROVE OrderInv'
    OBVIOUS
  <1>1. CASE Order!Next
    BY <1>1, OrderStep
  <1>2. CASE UNCHANGED orderVars
    <2>1. \A t \in 1..2 : Ahead(t)' = Ahead(t) /\ Due(t)' = Due(t) /\ Outcome(t)' = Outcome(t)
      BY <1>2 DEF Ahead, Due, Outcome
    <2>2. MainDue' = MainDue
      BY <1>2 DEF MainDue
    <2>3. \A t \in 1..2 : Begun(t)' = Begun(t) /\ EndCleared(t)' = EndCleared(t)
      BY <2>2 DEF Begun, EndCleared
    <2>4. OrderTypes'
      BY <1>2 DEF OrderInv, OrderTypes
    <2>5. Buffered'
      <3>1. /\ MainDue' <= 6
            /\ \A k \in 1..Len(buffer'[0]) : buffer'[0][k] = MainStore(MainDue' - k + 1)
        BY <1>2, <2>2 DEF OrderInv, Buffered
      <3>2. \A t \in 1..2 :
              /\ Due(t)' <= 4
              /\ \A k \in 1..Len(buffer'[t]) :
                   /\ buffer'[t][k][1] = Place(t, Due(t)' - k + 1)
                   /\ Due(t)' - k + 1 # 2 =>
                        buffer'[t][k][2] = IF Due(t)' - k + 1 = 4 THEN 0 ELSE 1
        <4> TAKE t \in 1..2
        <4>1. Due(t)' = Due(t) /\ buffer'[t] = buffer[t]
          BY <1>2, <2>1
        <4>2. /\ Due(t) <= 4
              /\ \A k \in 1..Len(buffer[t]) :
                   /\ buffer[t][k][1] = Place(t, Due(t) - k + 1)
                   /\ Due(t) - k + 1 # 2 =>
                        buffer[t][k][2] = IF Due(t) - k + 1 = 4 THEN 0 ELSE 1
          BY DEF OrderInv, Buffered
        <4> QED BY <4>1, <4>2
      <3> QED BY <3>1, <3>2 DEF Buffered, Place, MainStore
    <2>6. InMemory'
      BY <1>2, <2>1, <2>3 DEF OrderInv, InMemory
    <2>7. (USE_CPU_FENCE => Fenced)'
      BY <1>2, <2>1, <2>3 DEF OrderInv, Fenced
    <2> QED BY <2>4, <2>5, <2>6, <2>7 DEF OrderInv
  <1> QED BY <1>1, <1>2, OrderOnly

\* 8_5_cpu_reordering.c, in whatever order the stores of the three processors reach
\* memory: the flags keep the iterations apart, and with the fence never do both threads
\* miss the other's store.
THEOREM FenceWorks == Spec => []FenceStopsReordering
  <1>1. ASSUME OrderInv PROVE FenceStopsReordering
    <2> SUFFICES ASSUME line[0] # "wait"
                 PROVE  /\ line[0] = "check" /\ USE_CPU_FENCE => ~ Order!Reordered
                        /\ \A t \in 1..2 : line[t] = "start" /\ buffer[t] = <<>>
      BY DEF FenceStopsReordering, Order!FenceStopsReordering, Order!Main, Order!Threads
    <2>1. PICK d \in Nat : d = Len(buffer[0]) /\ MainDue = d + 4 /\ d <= 2
      <3>1. MainDue = Len(buffer[0]) + 4
        BY DEF MainDue
      <3> QED BY <1>1, <3>1, OrderFacts
    <2>2. \A t \in 1..2 : line[t] = "start" /\ buffer[t] = <<>>
      <3> TAKE t \in 1..2
      <3>1. ~ Begun(t)
        BY <2>1 DEF Begun
      <3>2. line[t] = "start" /\ Len(buffer[t]) = 0
        BY <1>1, <3>1, OrderParts DEF ThreadPart
      <3>3. PICK b \in Seq(Order!Addresses \X {0, 1}) : b = buffer[t]
        <4>1. t \in 0..2
          OBVIOUS
        <4> QED BY <1>1, <4>1, OrderFacts
      <3> QED BY <3>2, <3>3, EmptySeq
    <2>3. line[0] = "check" /\ USE_CPU_FENCE => ~ Order!Reordered
      <3> SUFFICES ASSUME line[0] = "check", USE_CPU_FENCE
                   PROVE  ~ Order!Reordered
        OBVIOUS
      <3>1. PICK t \in 1..2 : shared[Order!Result(t)] = 1
        BY <1>1 DEF OrderInv, Fenced
      <3>2. PICK p \in 0..2 : p = 0
        OBVIOUS
      <3>3. \A k \in 1..Len(buffer[p]) : buffer[p][k][1] # Order!Result(t)
        <4> SUFFICES ASSUME NEW k \in 1..d
                     PROVE  buffer[0][k][1] # Order!Result(t)
          BY <2>1, <3>2
        <4>2. MainDue - k + 1 \in 3..6
          BY SMTT(30), <2>1
        <4>3. buffer[0][k] = MainStore(MainDue - k + 1)
          BY <1>1, <2>1, OrderParts
        <4>4. \A j \in 1..6 : MainStore(j)[1] # Order!Result(t)
          <5> TAKE j \in 1..6
          <5>1. j = 1 \/ j = 2 \/ j = 3 \/ j = 4 \/ j = 5 \/ j = 6
            OBVIOUS
          <5>2. 1 \in 1..2 /\ 2 \in 1..2
            OBVIOUS
          <5>3. /\ Order!Result(t) # Order!StartOf(1) /\ Order!Result(t) # Order!StartOf(2)
                /\ Order!Result(t) # Order!Var(1) /\ Order!Result(t) # Order!Var(2)
                /\ Order!Result(t) # Order!EndOf(1) /\ Order!Result(t) # Order!EndOf(2)
            BY <5>2, Apart
          <5> QED BY <5>1, <5>3 DEF MainStore
        <4> QED BY <4>2, <4>3, <4>4
      <3>4. Order!Load(p, Order!Result(t)) = 1
        <4>1. Order!Result(t) \in Order!Addresses
          BY Apart
        <4> QED BY <1>1, <3>1, <3>3, <4>1, LoadDoes
      <3> QED BY <3>2, <3>4 DEF Order!Reordered, Order!Main, Order!Threads
    <2> QED BY <2>2, <2>3
  <1> QED BY InitOrder, NextOrderKeeps, <1>1, PTL DEF Spec

=============================================================================
