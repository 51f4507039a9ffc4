-------------------------- MODULE ThreadPoolProofs --------------------------
(***************************************************************************)
(* Proofs about module ThreadPool, for any number of tasks, clients and    *)
(* worker threads.                                                         *)
(***************************************************************************)
EXTENDS ThreadPool, TLAPS, FiniteSetTheorems

-----------------------------------------------------------------------------
(***************************************************************************)
(* The task array and the back indexes                                     *)
(***************************************************************************)

\* The first n slots hold exactly the tasks of S, and index is the inverse.
Indexed(slots, index, n, S) ==
  /\ \A i \in 0..(n - 1) : slots[i] \in S /\ index[slots[i]] = i
  /\ \A t \in S : index[t] \in 0..(n - 1) /\ slots[index[t]] = t

\* swap_tasks_in_pool exchanges two entries and leaves the rest, and the back
\* indexes follow.
LEMMA SwapKeepsIndexed ==
  ASSUME NEW slots \in [Slots -> Tasks \cup {NULL}],
         NEW index \in [Tasks -> Slots \cup {NONE}],
         NEW n \in 0..TPOOL_MAX_TASKS, NEW S \in SUBSET Tasks,
         Indexed(slots, index, n, S),
         NEW a \in S, NEW b \in S
  PROVE  LET s == SwapSlots(slots, index, a, b)
             x == SwapIndexes(index, a, b)
         IN  /\ s \in [Slots -> Tasks \cup {NULL}]
             /\ x \in [Tasks -> Slots \cup {NONE}]
             /\ Indexed(s, x, n, S)
             /\ x[a] = index[b]
             /\ x[b] = index[a]
             /\ s[index[a]] = b
             /\ s[index[b]] = a
             /\ \A i \in Slots : i # index[a] /\ i # index[b] => s[i] = slots[i]
  <1> DEFINE s == SwapSlots(slots, index, a, b)
             x == SwapIndexes(index, a, b)
  <1>1. index[a] \in 0..(n - 1) /\ index[b] \in 0..(n - 1)
        /\ slots[index[a]] = a /\ slots[index[b]] = b
    BY DEF Indexed
  <1>2. index[a] \in Slots /\ index[b] \in Slots
    BY <1>1, ThreadPoolAssumption DEF Slots
  <1>3. s \in [Slots -> Tasks \cup {NULL}] /\ x \in [Tasks -> Slots \cup {NONE}]
    BY <1>2 DEF SwapSlots, SwapIndexes
  <1>4. x[a] = index[b] /\ x[b] = index[a]
        /\ \A t \in Tasks : t # a /\ t # b => x[t] = index[t]
    BY DEF SwapIndexes
  <1>5. s[index[a]] = b /\ s[index[b]] = a
        /\ \A i \in Slots : i # index[a] /\ i # index[b] => s[i] = slots[i]
    BY <1>1, <1>2 DEF SwapSlots
  <1>6. \A i \in 0..(n - 1) : i \in Slots
    BY ThreadPoolAssumption DEF Slots
  <1>7. ASSUME NEW i \in 0..(n - 1) PROVE s[i] \in S /\ x[s[i]] = i
    <2>1. CASE i = index[a] BY <2>1, <1>4, <1>5
    <2>2. CASE i = index[b] BY <2>2, <1>4, <1>5
    <2>3. CASE i # index[a] /\ i # index[b]
      <3>1. s[i] = slots[i] BY <2>3, <1>5, <1>6
      <3>2. slots[i] \in S /\ index[slots[i]] = i BY DEF Indexed
      <3>3. slots[i] # a /\ slots[i] # b BY <3>2, <2>3
      <3> QED BY <3>1, <3>2, <3>3, <1>4
    <2> QED BY <2>1, <2>2, <2>3
  <1>8. ASSUME NEW t \in S PROVE x[t] \in 0..(n - 1) /\ s[x[t]] = t
    <2>1. CASE t = a BY <2>1, <1>1, <1>4, <1>5
    <2>2. CASE t = b BY <2>2, <1>1, <1>4, <1>5
    <2>3. CASE t # a /\ t # b
      <3>1. x[t] = index[t] BY <2>3, <1>4
      <3>2. index[t] \in 0..(n - 1) /\ slots[index[t]] = t BY DEF Indexed
      <3>3. index[t] # index[a] /\ index[t] # index[b] BY <3>2, <1>1, <2>3
      <3> QED BY <3>1, <3>2, <3>3, <1>5, <1>6
    <2> QED BY <2>1, <2>2, <2>3
  <1>9. Indexed(s, x, n, S)
    BY <1>7, <1>8 DEF Indexed
  <1> QED BY <1>3, <1>4, <1>5, <1>9

\* The array is as PoolPartition wants it: n tasks, those of S, the first u of
\* them outside A (not yet assigned) and the others in A.
Partitioned(slots, index, n, u, S, A) ==
  /\ u <= n
  /\ Indexed(slots, index, n, S)
  /\ \A i \in 0..(n - 1) : slots[i] \in A <=> i >= u

\* PoolPartition is Partitioned, said of the pool's own fields.
LEMMA PartitionedPool ==
  /\ PoolPartition <=> Partitioned(tasks, index_in_parent_pool, pushed_tasks_count,
                                   unassigned_tasks_count, in_pool, assigned)
  /\ PoolPartition' <=> Partitioned(tasks', index_in_parent_pool', pushed_tasks_count',
                                    unassigned_tasks_count', in_pool', assigned')
  BY DEF PoolPartition, Partitioned, Indexed

\* thread_pool_push_task: appending a task and swapping it with the first
\* assigned one keeps the partition.
LEMMA PushPartitioned ==
  ASSUME NEW slots \in [Slots -> Tasks \cup {NULL}],
         NEW index \in [Tasks -> Slots \cup {NONE}],
         NEW n \in Nat, NEW u \in Nat, n < TPOOL_MAX_TASKS,
         NEW S \in SUBSET Tasks, NEW A,
         Partitioned(slots, index, n, u, S, A),
         NEW t \in Tasks, t \notin S
  PROVE  LET s0 == [slots EXCEPT ![n] = t]
             x0 == [index EXCEPT ![t] = n]
             s  == SwapSlots(s0, x0, s0[u], t)
             x  == SwapIndexes(x0, s0[u], t)
         IN  /\ s \in [Slots -> Tasks \cup {NULL}]
             /\ x \in [Tasks -> Slots \cup {NONE}]
             /\ Partitioned(s, x, n + 1, u + 1, S \cup {t}, A \ {t})
  <1> DEFINE s0 == [slots EXCEPT ![n] = t]
             x0 == [index EXCEPT ![t] = n]
             s  == SwapSlots(s0, x0, s0[u], t)
             x  == SwapIndexes(x0, s0[u], t)
  <1>1. n \in Slots /\ u \in Slots /\ u <= n
    BY ThreadPoolAssumption DEF Slots, Partitioned
  <1>2. s0 \in [Slots -> Tasks \cup {NULL}] /\ x0 \in [Tasks -> Slots \cup {NONE}]
    BY <1>1
  <1>3. \A i \in 0..(n - 1) : i \in Slots /\ i # n /\ s0[i] = slots[i] /\ slots[i] \in S
                              /\ index[slots[i]] = i
    BY ThreadPoolAssumption DEF Slots, Partitioned, Indexed
  <1>4. s0[n] = t /\ x0[t] = n
    BY <1>1
  <1>5. \A v \in S : x0[v] = index[v] /\ index[v] \in 0..(n - 1) /\ slots[index[v]] = v
    BY DEF Partitioned, Indexed
  <1>6. Indexed(s0, x0, n + 1, S \cup {t})
    <2>1. \A i \in 0..((n + 1) - 1) : i \in 0..(n - 1) \/ i = n
      OBVIOUS
    <2>2. \A i \in 0..((n + 1) - 1) : s0[i] \in S \cup {t} /\ x0[s0[i]] = i
      BY <2>1, <1>3, <1>4, <1>5
    <2>3. \A v \in S \cup {t} : x0[v] \in 0..((n + 1) - 1) /\ s0[x0[v]] = v
      <3> SUFFICES ASSUME NEW v \in S \cup {t}
                   PROVE  x0[v] \in 0..((n + 1) - 1) /\ s0[x0[v]] = v
        OBVIOUS
      <3>1. CASE v = t BY <3>1, <1>4
      <3>2. CASE v # t BY <3>2, <1>3, <1>5
      <3> QED BY <3>1, <3>2
    <2> QED BY <2>2, <2>3 DEF Indexed
  <1>7. s0[u] \in S \cup {t} /\ x0[s0[u]] = u
    <2>1. CASE u = n BY <2>1, <1>4
    <2>2. CASE u # n BY <2>2, <1>1, <1>6 DEF Indexed
    <2> QED BY <2>1, <2>2
  <1>8. /\ s \in [Slots -> Tasks \cup {NULL}]
        /\ x \in [Tasks -> Slots \cup {NONE}]
        /\ Indexed(s, x, n + 1, S \cup {t})
        /\ s[u] = t
        /\ s[n] = s0[u]
        /\ \A i \in Slots : i # u /\ i # n => s[i] = s0[i]
    <2>1. n + 1 \in 0..TPOOL_MAX_TASKS /\ S \cup {t} \in SUBSET Tasks
          /\ t \in S \cup {t}
      BY ThreadPoolAssumption
    <2> HIDE DEF s0, x0
    <2> QED BY <2>1, <1>2, <1>4, <1>6, <1>7, SwapKeepsIndexed
  <1>9. \A i \in 0..((n + 1) - 1) : s[i] \in A \ {t} <=> i >= u + 1
    <2> SUFFICES ASSUME NEW i \in 0..((n + 1) - 1)
                 PROVE  s[i] \in A \ {t} <=> i >= u + 1
      OBVIOUS
    <2> HIDE DEF s, x
    <2>1. \A j \in 0..(n - 1) : slots[j] \in A <=> j >= u
      BY DEF Partitioned
    <2>2. CASE i = u BY <2>2, <1>8
    <2>3. CASE i # u /\ i = n
      <3>1. u \in 0..(n - 1) BY <2>3, <1>1
      <3>2. s[i] = slots[u] BY <3>1, <2>3, <1>8, <1>3
      <3>3. slots[u] \in A BY <3>1, <2>1
      <3>4. slots[u] # t BY <3>1, <1>3
      <3> QED BY <3>2, <3>3, <3>4, <2>3, <1>1
    <2>4. CASE i # u /\ i # n
      <3>1. i \in 0..(n - 1) BY <2>4
      <3>2. s[i] = slots[i] BY <3>1, <2>4, <1>8, <1>3
      <3>3. slots[i] # t BY <3>1, <1>3
      <3> QED BY <3>1, <3>2, <3>3, <2>1, <2>4
    <2> QED BY <2>2, <2>3, <2>4
  <1>10. u + 1 <= n + 1
    BY <1>1
  <1> HIDE DEF s, x
  <1>11. Partitioned(s, x, n + 1, u + 1, S \cup {t}, A \ {t})
    BY <1>8, <1>9, <1>10 DEF Partitioned
  <1> USE DEF s, x
  <1> QED BY <1>8, <1>11

\* execute_thread: the task taken is unassigned, and swapping it with the last
\* unassigned one keeps the partition.
LEMMA FetchPartitioned ==
  ASSUME NEW slots \in [Slots -> Tasks \cup {NULL}],
         NEW index \in [Tasks -> Slots \cup {NONE}],
         NEW n \in 0..TPOOL_MAX_TASKS, NEW u \in Nat, u # 0,
         NEW S \in SUBSET Tasks, NEW A,
         Partitioned(slots, index, n, u, S, A)
  PROVE  LET s == SwapSlots(slots, index, slots[0], slots[u - 1])
             x == SwapIndexes(index, slots[0], slots[u - 1])
         IN  /\ slots[0] \in S
             /\ slots[0] \notin A
             /\ s \in [Slots -> Tasks \cup {NULL}]
             /\ x \in [Tasks -> Slots \cup {NONE}]
             /\ Partitioned(s, x, n, u - 1, S, A \cup {slots[0]})
  <1> DEFINE a == slots[0]
             b == slots[u - 1]
             s == SwapSlots(slots, index, a, b)
             x == SwapIndexes(index, a, b)
  <1>1. u <= n /\ 0 \in 0..(n - 1) /\ u - 1 \in 0..(n - 1)
    BY DEF Partitioned
  <1>2. a \in S /\ b \in S /\ index[a] = 0 /\ index[b] = u - 1
    BY <1>1 DEF Partitioned, Indexed
  <1>3. \A i \in 0..(n - 1) : slots[i] \in A <=> i >= u
    BY DEF Partitioned
  <1>4. a \notin A
    BY <1>1, <1>3
  <1> HIDE DEF a, b
  <1>5. /\ s \in [Slots -> Tasks \cup {NULL}]
        /\ x \in [Tasks -> Slots \cup {NONE}]
        /\ Indexed(s, x, n, S)
        /\ x[a] = u - 1
        /\ s[u - 1] = a
        /\ s[0] = b
        /\ \A i \in Slots : i # 0 /\ i # u - 1 => s[i] = slots[i]
    BY <1>2, SwapKeepsIndexed DEF Partitioned
  <1> HIDE DEF s, x
  <1>6. \A i \in 0..(n - 1) : s[i] \in A \cup {a} <=> i >= u - 1
    <2> SUFFICES ASSUME NEW i \in 0..(n - 1)
                 PROVE  s[i] \in A \cup {a} <=> i >= u - 1
      OBVIOUS
    <2>1. i \in Slots BY ThreadPoolAssumption DEF Slots
    <2>2. CASE i = u - 1 BY <2>2, <1>5
    <2>3. CASE i # u - 1
      <3>1. s[i] # a BY <2>3, <1>5 DEF Indexed
      <3>2. CASE i = 0
        <4>1. b \notin A BY <1>1, <1>3 DEF b
        <4> QED BY <3>1, <3>2, <4>1, <2>3, <1>5
      <3>3. CASE i # 0
        BY <3>1, <3>3, <2>1, <2>3, <1>3, <1>5
      <3> QED BY <3>2, <3>3
    <2> QED BY <2>2, <2>3
  <1>7. Partitioned(s, x, n, u - 1, S, A \cup {a})
    BY <1>1, <1>5, <1>6 DEF Partitioned
  <1> USE DEF s, x, a, b
  <1> QED BY <1>2, <1>4, <1>5, <1>7

\* thread_task_join: swapping an assigned task with the last one and cutting
\* the array there keeps the partition.
LEMMA RemovePartitioned ==
  ASSUME NEW slots \in [Slots -> Tasks \cup {NULL}],
         NEW index \in [Tasks -> Slots \cup {NONE}],
         NEW n \in 0..TPOOL_MAX_TASKS, NEW u \in Nat,
         NEW S \in SUBSET Tasks, NEW A,
         Partitioned(slots, index, n, u, S, A),
         NEW t \in S, t \in A
  PROVE  LET s == SwapSlots(slots, index, t, slots[n - 1])
             x == [SwapIndexes(index, t, slots[n - 1]) EXCEPT ![t] = NONE]
         IN  /\ n - 1 \in 0..TPOOL_MAX_TASKS
             /\ s \in [Slots -> Tasks \cup {NULL}]
             /\ x \in [Tasks -> Slots \cup {NONE}]
             /\ Partitioned(s, x, n - 1, u, S \ {t}, A \ {t})
  <1> DEFINE b == slots[n - 1]
             s == SwapSlots(slots, index, t, b)
             y == SwapIndexes(index, t, b)
             x == [y EXCEPT ![t] = NONE]
             p == index[t]
  <1>1. p \in 0..(n - 1) /\ slots[p] = t
    BY DEF Partitioned, Indexed
  <1>2. n - 1 \in 0..(n - 1) /\ n - 1 \in 0..TPOOL_MAX_TASKS
    BY <1>1, ThreadPoolAssumption
  <1>3. b \in S /\ index[b] = n - 1
    BY <1>2 DEF Partitioned, Indexed
  <1>4. \A i \in 0..(n - 1) : slots[i] \in A <=> i >= u
    BY DEF Partitioned
  <1>5. p >= u
    BY <1>1, <1>4
  <1> HIDE DEF b, p
  <1>6. /\ s \in [Slots -> Tasks \cup {NULL}]
        /\ y \in [Tasks -> Slots \cup {NONE}]
        /\ Indexed(s, y, n, S)
        /\ y[t] = n - 1
        /\ s[n - 1] = t
        /\ s[p] = b
        /\ \A i \in Slots : i # p /\ i # n - 1 => s[i] = slots[i]
    <2>1. Indexed(slots, index, n, S) BY DEF Partitioned
    <2> QED BY <2>1, <1>3, SwapKeepsIndexed DEF p
  <1> HIDE DEF s, y
  <1>7. x \in [Tasks -> Slots \cup {NONE}] /\ \A v \in S \ {t} : x[v] = y[v]
    BY <1>6
  <1> HIDE DEF x
  <1>8. \A i \in 0..((n - 1) - 1) : i \in 0..(n - 1) /\ i # n - 1 /\ i \in Slots
    BY ThreadPoolAssumption DEF Slots
  <1>9. Indexed(s, x, n - 1, S \ {t})
    <2>1. ASSUME NEW i \in 0..((n - 1) - 1) PROVE s[i] \in S \ {t} /\ x[s[i]] = i
      <3>1. s[i] \in S /\ y[s[i]] = i BY <1>6, <1>8 DEF Indexed
      <3>2. s[i] # t BY <3>1, <1>6, <1>8
      <3> QED BY <3>1, <3>2, <1>7
    <2>2. ASSUME NEW v \in S \ {t} PROVE x[v] \in 0..((n - 1) - 1) /\ s[x[v]] = v
      <3>1. y[v] \in 0..(n - 1) /\ s[y[v]] = v BY <1>6 DEF Indexed
      <3>2. y[v] # n - 1 BY <3>1, <1>6
      <3> QED BY <3>1, <3>2, <1>7
    <2> QED BY <2>1, <2>2 DEF Indexed
  <1>10. \A i \in 0..((n - 1) - 1) : s[i] \in A \ {t} <=> i >= u
    <2> SUFFICES ASSUME NEW i \in 0..((n - 1) - 1)
                 PROVE  s[i] \in A \ {t} <=> i >= u
      OBVIOUS
    <2>1. s[i] # t BY <1>9 DEF Indexed
    <2>2. CASE i = p
      <3>1. n - 1 >= u BY <1>1, <1>5
      <3>2. b \in A BY <3>1, <1>2, <1>4 DEF b
      <3> QED BY <2>1, <2>2, <3>2, <1>5, <1>6
    <2>3. CASE i # p
      <3>1. s[i] = slots[i] BY <2>3, <1>6, <1>8
      <3> QED BY <3>1, <2>1, <1>4, <1>8
    <2> QED BY <2>2, <2>3
  <1>11. u <= n - 1
    BY <1>1, <1>5
  <1>12. Partitioned(s, x, n - 1, u, S \ {t}, A \ {t})
    BY <1>9, <1>10, <1>11 DEF Partitioned
  <1> USE DEF s, x, y, b
  <1> QED BY <1>2, <1>6, <1>7, <1>12

-----------------------------------------------------------------------------
(***************************************************************************)
(* The inductive invariant                                                 *)
(***************************************************************************)

\* Workers are numbered in the order in which push creates them, and only a
\* worker inside pthread_cond_wait sleeps on thread_update_cond.
ThreadsBorn ==
  \A w \in Threads :
    /\ thread_pc[w] = "none" <=> w > thread_count
    /\ w \in thread_update_cond => thread_pc[w] = "wait"

\* What the phase of the pool says of its threads and of its queue.
PoolPhase ==
  /\ pool = "none" => thread_count = 0
  /\ pool = "live" => max_thread_count > 0
  /\ pool \in {"ending", "freed"} => unassigned_tasks_count = 0
  /\ thread_update_event = "TASKS_ENDED" => pool \in {"ending", "freed"}
  /\ \A w \in Threads : thread_pc[w] = "exit" => thread_update_event = "TASKS_ENDED"
  /\ \A c \in Clients : client_pc[c] = "delete" => pool = "ending"
  /\ \A c, d \in Clients : client_pc[c] = "delete" /\ client_pc[d] = "delete" => c = d

Joining(c) == client_pc[c] \in {"join", "timed_join"}

\* A blocked join has its task to itself; the task is in the pool and is not a
\* detached one, so that no worker takes it away.
JoinerOwnsTask ==
  /\ \A c \in Clients : Joining(c) => client_task[c] \in in_pool \ scheduled_for_deletion
  /\ \A c, d \in Clients :
       Joining(c) /\ Joining(d) /\ c # d => client_task[c] # client_task[d]
  /\ \A c \in has_just_finished_cond : Joining(c)

\* Only existing tasks are in the pool, and the finished ones have been assigned.
PoolMembers ==
  /\ in_pool \subseteq allocated
  /\ in_pool \cap finished \subseteq assigned

IInv ==
  /\ TypeOK
  /\ PoolPartition
  /\ ExclusiveExecution
  /\ RunningCountExact
  /\ NoLostWakeup
  /\ NoForgottenJoiner
  /\ ThreadsBorn
  /\ PoolPhase
  /\ JoinerOwnsTask
  /\ PoolMembers

-----------------------------------------------------------------------------
(***************************************************************************)
(* Counting the workers that run a task                                    *)
(***************************************************************************)

\* At most n of the first m workers run if none beyond the n-th does.
LEMMA RunningBound ==
  ASSUME NEW m \in Nat, NEW n \in 0..m, NEW pc,
         \A w \in 1..m : pc[w] = "run" => w <= n
  PROVE  /\ IsFiniteSet({w \in 1..m : pc[w] = "run"})
         /\ Cardinality({w \in 1..m : pc[w] = "run"}) \in 0..n
  <1> DEFINE R == {w \in 1..m : pc[w] = "run"}
  <1>1. IsFiniteSet(1..n) /\ Cardinality(1..n) = n
    BY FS_Interval
  <1>2. R \in SUBSET (1..n)
    OBVIOUS
  <1>3. IsFiniteSet(R) /\ Cardinality(R) <= n
    BY <1>1, <1>2, FS_Subset
  <1>4. Cardinality(R) \in Nat
    BY <1>3, FS_CardinalityType
  <1> QED BY <1>3, <1>4

\* A worker that starts to run is one more.
LEMMA OneMoreRunning ==
  ASSUME NEW m \in Nat, NEW pc, NEW w \in 1..m, pc[w] # "run",
         NEW pc2, pc2[w] = "run", \A v \in 1..m : v # w => pc2[v] = pc[v]
  PROVE  Cardinality({v \in 1..m : pc2[v] = "run"})
           = Cardinality({v \in 1..m : pc[v] = "run"}) + 1
  <1> DEFINE R == {v \in 1..m : pc[v] = "run"}
  <1>1. IsFiniteSet(R)
    BY RunningBound
  <1>2. {v \in 1..m : pc2[v] = "run"} = R \cup {w}
    OBVIOUS
  <1>3. w \notin R
    OBVIOUS
  <1> HIDE DEF R
  <1>4. Cardinality(R \cup {w}) = Cardinality(R) + 1
    BY <1>1, <1>3, FS_AddElement
  <1> QED BY <1>2, <1>4 DEF R

\* A worker that stops running is one less.
LEMMA OneLessRunning ==
  ASSUME NEW m \in Nat, NEW pc, NEW w \in 1..m, pc[w] = "run",
         NEW pc2, pc2[w] # "run", \A v \in 1..m : v # w => pc2[v] = pc[v]
  PROVE  Cardinality({v \in 1..m : pc2[v] = "run"})
           = Cardinality({v \in 1..m : pc[v] = "run"}) - 1
  <1> DEFINE R == {v \in 1..m : pc[v] = "run"}
  <1>1. IsFiniteSet(R)
    BY RunningBound
  <1>2. {v \in 1..m : pc2[v] = "run"} = R \ {w}
    OBVIOUS
  <1>3. w \in R
    OBVIOUS
  <1> HIDE DEF R
  <1>4. Cardinality(R \ {w}) = Cardinality(R) - 1
    BY <1>1, <1>3, FS_RemoveElement
  <1> QED BY <1>2, <1>4 DEF R

\* A worker that changes between two other states changes no count.
LEMMA SameRunning ==
  ASSUME NEW m \in Nat, NEW pc, NEW pc2,
         \A v \in 1..m : pc2[v] = "run" <=> pc[v] = "run"
  PROVE  Cardinality({v \in 1..m : pc2[v] = "run"})
           = Cardinality({v \in 1..m : pc[v] = "run"})
  <1>1. {v \in 1..m : pc2[v] = "run"} = {v \in 1..m : pc[v] = "run"}
    OBVIOUS
  <1> QED BY <1>1

-----------------------------------------------------------------------------
(***************************************************************************)
(* Every step keeps the invariant                                          *)
(***************************************************************************)

USE DEF vars, arrayVars, countVars, threadVars, flagVars, valueVars, clientVars

\* Before any call the invariant holds: no pool, no thread, no task.
LEMMA InitIInv == Init => IInv
  <1> SUFFICES ASSUME Init PROVE IInv
    OBVIOUS
  <1>1. TypeOK
    BY ThreadPoolAssumption DEF Init, TypeOK, NONE, Slots, Threads
  <1>2. PoolPartition
    BY DEF Init, PoolPartition
  <1>3. ExclusiveExecution
    BY DEF Init, ExclusiveExecution
  <1>4. RunningCountExact
    <2>1. {w \in Threads : thread_pc[w] = "run"} = {}
      BY DEF Init
    <2> QED BY <2>1, FS_EmptySet DEF Init, RunningCountExact
  <1>5. NoLostWakeup /\ NoForgottenJoiner
    BY DEF Init, NoLostWakeup, NoForgottenJoiner
  <1>6. ThreadsBorn
    BY ThreadPoolAssumption DEF Init, ThreadsBorn, Threads
  <1>7. PoolPhase
    BY DEF Init, PoolPhase
  <1>8. JoinerOwnsTask /\ PoolMembers
    BY DEF Init, JoinerOwnsTask, Joining, PoolMembers
  <1> QED BY <1>1, <1>2, <1>3, <1>4, <1>5, <1>6, <1>7, <1>8 DEF IInv

\* Steps that change nothing keep the invariant.
LEMMA StutterIInv == IInv /\ UNCHANGED vars => IInv'
  <1> SUFFICES ASSUME IInv, UNCHANGED vars PROVE IInv'
    OBVIOUS
  <1> QED BY DEF IInv, TypeOK, PoolPartition, ExclusiveExecution, RunningCountExact,
                 NoLostWakeup, NoForgottenJoiner, ThreadsBorn, PoolPhase,
                 JoinerOwnsTask, Joining, PoolMembers

\* thread_task_new touches only an object that was not allocated.
LEMMA NewIInv ==
  ASSUME IInv, NEW c \in Clients, NEW t \in Tasks, thread_task_new(c, t)
  PROVE  IInv'
  <1> USE DEF IInv, thread_task_new
  <1>1. t \notin in_pool
    BY DEF PoolMembers
  <1>2. in_pool' = in_pool
    BY <1>1
  <1>3. TypeOK'
    BY DEF TypeOK
  <1>4. PoolPartition'
    BY <1>2 DEF PoolPartition
  <1>5. ExclusiveExecution'
    BY <1>1, <1>2 DEF ExclusiveExecution
  <1>6. RunningCountExact' /\ NoLostWakeup'
    BY DEF RunningCountExact, NoLostWakeup
  <1>7. NoForgottenJoiner'
    BY <1>1, <1>2 DEF NoForgottenJoiner
  <1>8. ThreadsBorn' /\ PoolPhase'
    BY DEF ThreadsBorn, PoolPhase
  <1>9. JoinerOwnsTask' /\ PoolMembers'
    BY <1>2 DEF JoinerOwnsTask, Joining, PoolMembers
  <1> QED BY <1>3, <1>4, <1>5, <1>6, <1>7, <1>8, <1>9

\* thread_task_delete frees only a task that is in no pool.
LEMMA DeleteIInv ==
  ASSUME IInv, NEW c \in Clients, NEW t \in Tasks, thread_task_delete(c, t)
  PROVE  IInv'
  <1>1. CASE UNCHANGED vars
    BY <1>1, StutterIInv
  <1>2. CASE t \notin in_pool /\ ~ UNCHANGED vars
    <2> USE <1>2 DEF IInv, thread_task_delete, FreeTask
    <2>1. TypeOK'
      BY DEF TypeOK
    <2>2. PoolPartition' /\ ExclusiveExecution'
      BY DEF PoolPartition, ExclusiveExecution
    <2>3. RunningCountExact' /\ NoLostWakeup' /\ NoForgottenJoiner'
      BY DEF RunningCountExact, NoLostWakeup, NoForgottenJoiner
    <2>4. ThreadsBorn' /\ PoolPhase'
      BY DEF ThreadsBorn, PoolPhase
    <2>5. JoinerOwnsTask' /\ PoolMembers'
      BY DEF JoinerOwnsTask, Joining, PoolMembers
    <2> QED BY <2>1, <2>2, <2>3, <2>4, <2>5
  <1> QED BY <1>1, <1>2 DEF thread_task_delete

\* thread_pool_new starts with an empty pool and no thread.
LEMMA PoolNewIInv ==
  ASSUME IInv, NEW c \in Clients, NEW count \in 0..(TPOOL_MAX_THREADS + 1),
         thread_pool_new(c, count)
  PROVE  IInv'
  <1>1. CASE UNCHANGED vars
    BY <1>1, StutterIInv
  <1>2. CASE count > 0 /\ count <= TPOOL_MAX_THREADS /\ ~ UNCHANGED vars
    <2> USE <1>2 DEF IInv, thread_pool_new
    <2>1. TypeOK'
      BY ThreadPoolAssumption DEF TypeOK, PoolPhase
    <2>2. PoolPartition' /\ ExclusiveExecution'
      BY DEF PoolPartition, ExclusiveExecution
    <2>3. RunningCountExact' /\ NoLostWakeup' /\ NoForgottenJoiner'
      BY DEF RunningCountExact, NoLostWakeup, NoForgottenJoiner
    <2>4. ThreadsBorn' /\ PoolPhase'
      BY DEF ThreadsBorn, PoolPhase
    <2>5. JoinerOwnsTask' /\ PoolMembers'
      BY DEF JoinerOwnsTask, Joining, PoolMembers
    <2> QED BY <2>1, <2>2, <2>3, <2>4, <2>5
  <1> QED BY <1>1, <1>2 DEF thread_pool_new

\* thread_pool_delete ends only a pool whose queue is empty, so that waking
\* every worker for good loses no task.
LEMMA PoolDeleteIInv ==
  ASSUME IInv, NEW c \in Clients, thread_pool_delete(c)
  PROVE  IInv'
  <1>1. CASE UNCHANGED vars
    BY <1>1, StutterIInv
  <1>2. CASE ~ HasTasks /\ ~ UNCHANGED vars
    <2> USE <1>2 DEF IInv, thread_pool_delete
    <2>1. unassigned_tasks_count = 0
      BY DEF HasTasks, TypeOK
    <2>2. TypeOK'
      BY DEF TypeOK
    <2>3. PoolPartition' /\ ExclusiveExecution'
      BY DEF PoolPartition, ExclusiveExecution
    <2>4. RunningCountExact' /\ NoLostWakeup'
      BY <2>1 DEF RunningCountExact, NoLostWakeup
    <2>5. has_just_finished_cond = {}
      BY DEF JoinerOwnsTask, Joining, TypeOK
    <2>6. NoForgottenJoiner'
      BY <2>5 DEF NoForgottenJoiner
    <2>7. ThreadsBorn' /\ PoolPhase'
      BY <2>1 DEF ThreadsBorn, PoolPhase, TypeOK
    <2>8. JoinerOwnsTask' /\ PoolMembers'
      BY <2>5 DEF JoinerOwnsTask, Joining, PoolMembers, TypeOK
    <2> QED BY <2>2, <2>3, <2>4, <2>6, <2>7, <2>8
  <1> QED BY <1>1, <1>2 DEF thread_pool_delete

\* The pool is freed when every worker has left execute_thread.
LEMMA FreePoolIInv ==
  ASSUME IInv, NEW c \in Clients, FreePool(c)
  PROVE  IInv'
  <1> USE DEF IInv, FreePool
  <1>1. TypeOK'
    BY DEF TypeOK
  <1>2. PoolPartition' /\ ExclusiveExecution'
    BY DEF PoolPartition, ExclusiveExecution
  <1>3. RunningCountExact' /\ NoLostWakeup' /\ NoForgottenJoiner'
    BY DEF RunningCountExact, NoLostWakeup, NoForgottenJoiner
  <1>4. ThreadsBorn' /\ PoolPhase'
    BY DEF ThreadsBorn, PoolPhase, TypeOK
  <1>5. JoinerOwnsTask' /\ PoolMembers'
    BY DEF JoinerOwnsTask, Joining, PoolMembers, TypeOK
  <1> QED BY <1>1, <1>2, <1>3, <1>4, <1>5

\* Taking an assigned task out of the array.
LEMMA RemoveKeepsPartition ==
  ASSUME TypeOK, PoolPartition, NEW t \in in_pool, t \in assigned,
         RemoveFromPool(t), UNCHANGED unassigned_tasks_count
  PROVE  /\ PoolPartition'
         /\ tasks' \in [Slots -> Tasks \cup {NULL}]
         /\ index_in_parent_pool' \in [Tasks -> Slots \cup {NONE}]
         /\ pushed_tasks_count' \in 0..TPOOL_MAX_TASKS
  <1>1. Partitioned(tasks, index_in_parent_pool, pushed_tasks_count,
                    unassigned_tasks_count, in_pool, assigned)
    BY PartitionedPool
  <1>2. /\ tasks \in [Slots -> Tasks \cup {NULL}]
        /\ index_in_parent_pool \in [Tasks -> Slots \cup {NONE}]
        /\ pushed_tasks_count \in 0..TPOOL_MAX_TASKS
        /\ unassigned_tasks_count \in Nat
        /\ in_pool \in SUBSET Tasks
    BY ThreadPoolAssumption DEF TypeOK
  <1>3. /\ pushed_tasks_count' \in 0..TPOOL_MAX_TASKS
        /\ tasks' \in [Slots -> Tasks \cup {NULL}]
        /\ index_in_parent_pool' \in [Tasks -> Slots \cup {NONE}]
        /\ Partitioned(tasks', index_in_parent_pool', pushed_tasks_count',
                       unassigned_tasks_count', in_pool', assigned')
    BY <1>1, <1>2, RemovePartitioned DEF RemoveFromPool
  <1> QED BY <1>3, PartitionedPool

\* One pass of the join loop, by a client to whom the task belongs.
LEMMA JoinLoopIInv ==
  ASSUME IInv, NEW c \in Clients, NEW t \in Tasks, NEW call \in {"join", "timed_join"},
         client_pc[c] \in {"idle", "join", "timed_join"},
         c \notin has_just_finished_cond,
         t \in in_pool, t \notin scheduled_for_deletion,
         \A d \in Clients : Joining(d) /\ d # c => client_task[d] # t,
         JoinLoop(c, t, call), UNCHANGED joinFrame
  PROVE  IInv'
  <1> USE DEF IInv, joinFrame
  <1>1. RunningCountExact' /\ NoLostWakeup' /\ ThreadsBorn'
    BY DEF RunningCountExact, NoLostWakeup, ThreadsBorn
  <1>2. CASE t \notin finished
    <2> USE <1>2 DEF JoinLoop
    <2>1. TypeOK'
      BY DEF TypeOK
    <2>2. PoolPartition' /\ ExclusiveExecution'
      BY DEF PoolPartition, ExclusiveExecution
    <2>3. NoForgottenJoiner'
      BY DEF NoForgottenJoiner, TypeOK
    <2>4. PoolPhase'
      BY DEF PoolPhase, TypeOK
    <2>5. JoinerOwnsTask' /\ PoolMembers'
      BY DEF JoinerOwnsTask, Joining, PoolMembers, TypeOK
    <2> QED BY <1>1, <2>1, <2>2, <2>3, <2>4, <2>5
  <1>3. CASE t \in finished
    <2>1. /\ RemoveFromPool(t)
          /\ client_pc' = [client_pc EXCEPT ![c] = "idle"]
          /\ client_task' = [client_task EXCEPT ![c] = NULL]
          /\ UNCHANGED has_just_finished_cond
      BY <1>3 DEF JoinLoop
    <2>2. in_pool' = in_pool \ {t} /\ assigned' = assigned \ {t}
      BY <2>1 DEF RemoveFromPool
    <2>3. t \in assigned
      BY <1>3 DEF PoolMembers
    <2>4. /\ PoolPartition'
          /\ tasks' \in [Slots -> Tasks \cup {NULL}]
          /\ index_in_parent_pool' \in [Tasks -> Slots \cup {NONE}]
          /\ pushed_tasks_count' \in 0..TPOOL_MAX_TASKS
      BY <2>1, <2>3, RemoveKeepsPartition
    <2>5. TypeOK'
      BY <2>1, <2>2, <2>4 DEF TypeOK
    <2>6. ExclusiveExecution'
      BY <1>3, <2>2 DEF ExclusiveExecution
    <2>7. NoForgottenJoiner'
      BY <2>1, <2>2, <1>3 DEF NoForgottenJoiner, TypeOK
    <2>8. PoolPhase'
      BY <2>1 DEF PoolPhase, TypeOK
    <2>9. JoinerOwnsTask'
      BY <2>1, <2>2 DEF JoinerOwnsTask, Joining, TypeOK
    <2>10. PoolMembers'
      BY <2>2 DEF PoolMembers
    <2> QED BY <1>1, <2>4, <2>5, <2>6, <2>7, <2>8, <2>9, <2>10
  <1> QED BY <1>2, <1>3

\* thread_task_join and thread_task_timed_join, up to their first wait.
LEMMA JoinIInv ==
  ASSUME IInv, NEW c \in Clients, NEW t \in Tasks, NEW call \in {"join", "timed_join"},
         thread_task_join(c, t, call)
  PROVE  IInv'
  <1>1. CASE UNCHANGED vars
    BY <1>1, StutterIInv
  <1>2. CASE t \in in_pool /\ ~ UNCHANGED vars
    <2>1. /\ JoinLoop(c, t, call)
          /\ UNCHANGED joinFrame
          /\ client_pc[c] = "idle"
          /\ t \notin scheduled_for_deletion
      BY <1>2 DEF thread_task_join, Holds
    <2>2. \A d \in Clients : Joining(d) => client_task[d] # t
      BY DEF thread_task_join, NotJoined, NotInUse, Joining
    <2>3. c \notin has_just_finished_cond
      BY <2>1 DEF IInv, JoinerOwnsTask, Joining
    <2> QED BY <1>2, <2>1, <2>2, <2>3, JoinLoopIInv
  <1> QED BY <1>1, <1>2 DEF thread_task_join

\* A joiner that wakes looks at its task again.
LEMMA JoinResumeIInv ==
  ASSUME IInv, NEW c \in Clients, JoinResume(c)
  PROVE  IInv'
  <1>1. Joining(c)
    BY DEF JoinResume, Joining
  <1>2. client_task[c] \in in_pool /\ client_task[c] \notin scheduled_for_deletion
        /\ \A d \in Clients : Joining(d) /\ d # c => client_task[d] # client_task[c]
    BY <1>1 DEF IInv, JoinerOwnsTask
  <1>3. client_task[c] \in Tasks
    BY <1>2 DEF IInv, TypeOK
  <1> QED BY <1>1, <1>2, <1>3, JoinLoopIInv DEF JoinResume, Joining

\* A timed join that gives up leaves its task in the pool.
LEMMA JoinTimeoutIInv ==
  ASSUME IInv, NEW c \in Clients, JoinTimeout(c)
  PROVE  IInv'
  <1> USE DEF IInv, JoinTimeout, joinFrame
  <1>1. TypeOK'
    BY DEF TypeOK
  <1>2. PoolPartition' /\ ExclusiveExecution'
    BY DEF PoolPartition, ExclusiveExecution
  <1>3. RunningCountExact' /\ NoLostWakeup' /\ ThreadsBorn'
    BY DEF RunningCountExact, NoLostWakeup, ThreadsBorn
  <1>4. NoForgottenJoiner'
    BY DEF NoForgottenJoiner, TypeOK
  <1>5. PoolPhase'
    BY DEF PoolPhase, TypeOK
  <1>6. JoinerOwnsTask' /\ PoolMembers'
    BY DEF JoinerOwnsTask, Joining, PoolMembers, TypeOK
  <1> QED BY <1>1, <1>2, <1>3, <1>4, <1>5, <1>6

\* thread_task_detach takes a finished task out of the pool, or marks it.
LEMMA DetachIInv ==
  ASSUME IInv, NEW c \in Clients, NEW t \in Tasks, thread_task_detach(c, t)
  PROVE  IInv'
  <1> USE DEF IInv
  <1>1. CASE UNCHANGED vars
    BY <1>1, StutterIInv
  <1>2. \A d \in Clients : Joining(d) => client_task[d] # t
    BY DEF thread_task_detach, NotInUse, Joining
  <1>3. CASE t \in in_pool \cap finished /\ ~ UNCHANGED vars
    <2>1. /\ RemoveFromPool(t)
          /\ FreeTask(t)
          /\ UNCHANGED <<pool, unassigned_tasks_count, running_tasks_count, threadVars,
                         clientVars>>
      BY <1>3 DEF thread_task_detach
    <2>2. in_pool' = in_pool \ {t} /\ assigned' = assigned \ {t}
      BY <2>1 DEF RemoveFromPool
    <2>3. t \in assigned
      BY <1>3 DEF PoolMembers
    <2>4. /\ PoolPartition'
          /\ tasks' \in [Slots -> Tasks \cup {NULL}]
          /\ index_in_parent_pool' \in [Tasks -> Slots \cup {NONE}]
          /\ pushed_tasks_count' \in 0..TPOOL_MAX_TASKS
      BY <1>3, <2>1, <2>3, RemoveKeepsPartition
    <2>5. TypeOK'
      BY <2>1, <2>2, <2>4 DEF TypeOK, FreeTask
    <2>6. ExclusiveExecution'
      BY <1>3, <2>1, <2>2 DEF ExclusiveExecution, FreeTask
    <2>7. RunningCountExact' /\ NoLostWakeup' /\ ThreadsBorn' /\ PoolPhase'
      BY <2>1 DEF RunningCountExact, NoLostWakeup, ThreadsBorn, PoolPhase
    <2>8. NoForgottenJoiner'
      BY <1>3, <2>1, <2>2 DEF NoForgottenJoiner, FreeTask
    <2>9. JoinerOwnsTask' /\ PoolMembers'
      BY <1>2, <2>1, <2>2 DEF JoinerOwnsTask, Joining, PoolMembers, FreeTask
    <2> QED BY <2>4, <2>5, <2>6, <2>7, <2>8, <2>9
  <1>4. CASE t \in in_pool \ finished /\ ~ UNCHANGED vars
    <2> USE <1>4 DEF thread_task_detach
    <2>1. TypeOK'
      BY DEF TypeOK
    <2>2. PoolPartition' /\ ExclusiveExecution'
      BY DEF PoolPartition, ExclusiveExecution
    <2>3. RunningCountExact' /\ NoLostWakeup' /\ NoForgottenJoiner' /\ ThreadsBorn'
      BY DEF RunningCountExact, NoLostWakeup, NoForgottenJoiner, ThreadsBorn
    <2>4. PoolPhase' /\ PoolMembers'
      BY DEF PoolPhase, PoolMembers
    <2>5. JoinerOwnsTask'
      BY <1>2 DEF JoinerOwnsTask, Joining
    <2> QED BY <2>1, <2>2, <2>3, <2>4, <2>5
  <1> QED BY <1>1, <1>3, <1>4 DEF thread_task_detach

\* The unlocked look at parent_pool of a status query changes nothing else.
LEMMA QueryStartIInv ==
  ASSUME IInv, NEW c \in Clients, NEW t \in Tasks, QueryStart(c, t)
  PROVE  IInv'
  <1>1. CASE UNCHANGED vars
    BY <1>1, StutterIInv
  <1>2. CASE t \in in_pool /\ ~ UNCHANGED vars
    <2> USE <1>2 DEF IInv, QueryStart, Holds
    <2>1. TypeOK'
      BY DEF TypeOK
    <2>2. PoolPartition' /\ ExclusiveExecution'
      BY DEF PoolPartition, ExclusiveExecution
    <2>3. RunningCountExact' /\ NoLostWakeup' /\ ThreadsBorn'
      BY DEF RunningCountExact, NoLostWakeup, ThreadsBorn
    <2>4. NoForgottenJoiner'
      BY DEF NoForgottenJoiner, JoinerOwnsTask, Joining, TypeOK
    <2>5. PoolPhase'
      BY DEF PoolPhase, TypeOK
    <2>6. JoinerOwnsTask' /\ PoolMembers'
      BY DEF JoinerOwnsTask, Joining, PoolMembers, TypeOK
    <2> QED BY <2>1, <2>2, <2>3, <2>4, <2>5, <2>6
  <1> QED BY <1>1, <1>2 DEF QueryStart

\* The critical section of a status query changes nothing else.
LEMMA QuerySectionIInv ==
  ASSUME IInv, NEW c \in Clients, QuerySection(c)
  PROVE  IInv'
  <1> USE DEF IInv, QuerySection
  <1>1. TypeOK'
    BY DEF TypeOK
  <1>2. PoolPartition' /\ ExclusiveExecution'
    BY DEF PoolPartition, ExclusiveExecution
  <1>3. RunningCountExact' /\ NoLostWakeup' /\ ThreadsBorn'
    BY DEF RunningCountExact, NoLostWakeup, ThreadsBorn
  <1>4. NoForgottenJoiner'
    BY DEF NoForgottenJoiner, JoinerOwnsTask, Joining, TypeOK
  <1>5. PoolPhase'
    BY DEF PoolPhase, TypeOK
  <1>6. JoinerOwnsTask' /\ PoolMembers'
    BY DEF JoinerOwnsTask, Joining, PoolMembers, TypeOK
  <1> QED BY <1>1, <1>2, <1>3, <1>4, <1>5, <1>6

\* A spurious wake-up only shrinks the set of sleeping joiners.
LEMMA SpuriousJoinWakeIInv ==
  ASSUME IInv, NEW c \in Clients, SpuriousJoinWake(c)
  PROVE  IInv'
  <1> USE DEF IInv, SpuriousJoinWake
  <1>1. TypeOK'
    BY DEF TypeOK
  <1>2. PoolPartition' /\ ExclusiveExecution'
    BY DEF PoolPartition, ExclusiveExecution
  <1>3. RunningCountExact' /\ NoLostWakeup' /\ NoForgottenJoiner' /\ ThreadsBorn'
    BY DEF RunningCountExact, NoLostWakeup, NoForgottenJoiner, ThreadsBorn
  <1>4. PoolPhase' /\ JoinerOwnsTask' /\ PoolMembers'
    BY DEF PoolPhase, JoinerOwnsTask, Joining, PoolMembers
  <1> QED BY <1>1, <1>2, <1>3, <1>4

\* A spurious wake-up only shrinks the set of sleeping workers.
LEMMA SpuriousThreadWakeIInv ==
  ASSUME IInv, NEW w \in Threads, SpuriousThreadWake(w)
  PROVE  IInv'
  <1> USE DEF IInv, SpuriousThreadWake
  <1>1. TypeOK'
    BY DEF TypeOK
  <1>2. PoolPartition' /\ ExclusiveExecution'
    BY DEF PoolPartition, ExclusiveExecution
  <1>3. RunningCountExact' /\ NoLostWakeup' /\ NoForgottenJoiner' /\ ThreadsBorn'
    BY DEF RunningCountExact, NoLostWakeup, NoForgottenJoiner, ThreadsBorn
  <1>4. PoolPhase' /\ JoinerOwnsTask' /\ PoolMembers'
    BY DEF PoolPhase, JoinerOwnsTask, Joining, PoolMembers
  <1> QED BY <1>1, <1>2, <1>3, <1>4

\* What ProvideThread does to the workers: it brings one into being, wakes at
\* most one, or does nothing; some worker is awake afterwards.
LEMMA ProvideThreadKeeps ==
  ASSUME IInv, pool = "live", ProvideThread,
         UNCHANGED <<pool, running_tasks_count, max_thread_count, task_to_execute>>,
         unassigned_tasks_count' = unassigned_tasks_count + 1
  PROVE  /\ thread_count' \in 0..max_thread_count'
         /\ running_tasks_count' \in 0..thread_count'
         /\ thread_update_cond' \in SUBSET Threads
         /\ thread_update_event' \in {"NONE", "TASK_APPEARS"}
         /\ thread_pc' \in [Threads -> {"none", "lock", "wait", "run", "exit"}]
         /\ \A w \in Threads : /\ thread_pc'[w] = "run" <=> thread_pc[w] = "run"
                               /\ thread_pc'[w] # "exit"
         /\ ThreadsBorn'
         /\ NoLostWakeup'
  <1> USE DEF IInv
  <1>0. /\ thread_count \in 0..max_thread_count /\ max_thread_count \in 1..TPOOL_MAX_THREADS
        /\ running_tasks_count \in 0..thread_count
        /\ thread_pc \in [Threads -> {"none", "lock", "wait", "run", "exit"}]
        /\ thread_update_event \in {"NONE", "TASK_APPEARS"}
        /\ thread_update_cond \in SUBSET Threads
        /\ unassigned_tasks_count \in Nat
        /\ \A w \in Threads : thread_pc[w] # "exit"
        /\ TPOOL_MAX_THREADS \in Nat
    BY ThreadPoolAssumption DEF TypeOK, PoolPhase
  <1>1. CASE NeedThread /\ thread_count' = thread_count + 1
             /\ thread_pc' = [thread_pc EXCEPT ![thread_count + 1] = "lock"]
             /\ UNCHANGED <<thread_update_cond, thread_update_event>>
    <2>1. thread_count + 1 \in 1..max_thread_count /\ thread_count + 1 \in Threads
      BY <1>0, <1>1 DEF NeedThread, Threads
    <2>2. thread_pc[thread_count + 1] = "none"
      BY <2>1, <1>0 DEF ThreadsBorn
    <2>3. thread_pc'[thread_count + 1] = "lock"
          /\ \A w \in Threads : w # thread_count + 1 => thread_pc'[w] = thread_pc[w]
      BY <1>0, <1>1, <2>1
    <2>4. ThreadsBorn'
      BY <1>0, <1>1, <2>1, <2>2, <2>3 DEF ThreadsBorn, Threads
    <2>5. thread_count + 1 \notin thread_update_cond
      BY <2>1, <2>2 DEF ThreadsBorn
    <2>6. NoLostWakeup'
      BY <1>0, <1>1, <2>1, <2>3, <2>5 DEF NoLostWakeup
    <2> QED BY <1>0, <1>1, <2>1, <2>2, <2>3, <2>4, <2>6
  <1>2. CASE ~ NeedThread /\ UNCHANGED <<thread_count, thread_pc>>
    <2>1. 1 \in 1..thread_count /\ 1 \in Threads
      BY <1>0, <1>2 DEF NeedThread, Threads
    <2>2. thread_update_cond' \in SUBSET thread_update_cond
          /\ thread_update_event' \in {"NONE", "TASK_APPEARS"}
      BY <1>0, <1>2, ZenonT(30) DEF ProvideThread, SignalThreadUpdate
    <2>3. ThreadsBorn'
      BY <1>2, <2>2 DEF ThreadsBorn
    <2>4. NoLostWakeup'
      <3>1. CASE unassigned_tasks_count > 0
        BY <3>1, <1>0, <1>2, <2>2 DEF NoLostWakeup
      <3>2. CASE unassigned_tasks_count = 0
        <4>1. SignalThreadUpdate
          BY <3>2, <1>2 DEF ProvideThread
        <4>2. PICK w \in 1..thread_count : w \notin thread_update_cond'
          <5>1. CASE thread_update_cond = {}
            BY <5>1, <4>1, <2>1 DEF SignalThreadUpdate
          <5>2. CASE thread_update_cond # {}
            <6>1. PICK v \in thread_update_cond : thread_update_cond' = thread_update_cond \ {v}
              BY <5>2, <4>1 DEF SignalThreadUpdate
            <6>2. v \in 1..thread_count
              BY <6>1, <1>0 DEF ThreadsBorn, Threads
            <6> QED BY <6>1, <6>2
          <5> QED BY <5>1, <5>2
        <4>3. w \in Threads /\ thread_pc[w] \in {"lock", "wait", "run"}
          BY <1>0 DEF ThreadsBorn, Threads
        <4> QED BY <4>2, <4>3, <1>2 DEF NoLostWakeup
      <3> QED BY <3>1, <3>2, <1>0
    <2> QED BY <1>0, <1>2, <2>2, <2>3, <2>4
  <1> QED BY <1>1, <1>2 DEF ProvideThread

\* thread_pool_push_task: the refusal, and the insertion followed by the start
\* or the waking of a thread.
LEMMA PushIInv ==
  ASSUME IInv, NEW c \in Clients, NEW t \in Tasks, thread_pool_push_task(c, t)
  PROVE  IInv'
  <1>1. CASE UNCHANGED vars
    BY <1>1, StutterIInv
  <1>2. CASE pushed_tasks_count < TPOOL_MAX_TASKS /\ ~ UNCHANGED vars
    <2> USE DEF IInv
    <2>1. /\ pool = "live" /\ t \notin in_pool /\ Holds(c, t)
          /\ ResetTask(t)
          /\ stamp' = [stamp EXCEPT ![t] = 1 - stamp[t]]
          /\ PlaceTask(t)
          /\ pushed_tasks_count' = pushed_tasks_count + 1
          /\ unassigned_tasks_count' = unassigned_tasks_count + 1
          /\ ProvideThread
          /\ UNCHANGED <<pool, running_tasks_count, max_thread_count, task_to_execute,
                         allocated, scheduled_for_deletion, result, clientVars>>
      BY <1>2 DEF thread_pool_push_task, TypeOK
    <2>2. /\ in_pool' = in_pool \cup {t}
          /\ assigned' = assigned \ {t}
          /\ finished' = finished \ {t}
      BY <2>1 DEF ResetTask
    <2>3. /\ thread_count' \in 0..max_thread_count'
          /\ running_tasks_count' \in 0..thread_count'
          /\ thread_update_cond' \in SUBSET Threads
          /\ thread_update_event' \in {"NONE", "TASK_APPEARS"}
          /\ thread_pc' \in [Threads -> {"none", "lock", "wait", "run", "exit"}]
          /\ \A w \in Threads : /\ thread_pc'[w] = "run" <=> thread_pc[w] = "run"
                                /\ thread_pc'[w] # "exit"
          /\ ThreadsBorn'
          /\ NoLostWakeup'
      BY <2>1, ProvideThreadKeeps
    <2>4. /\ tasks' \in [Slots -> Tasks \cup {NULL}]
          /\ index_in_parent_pool' \in [Tasks -> Slots \cup {NONE}]
          /\ PoolPartition'
      <3>1. Partitioned(tasks, index_in_parent_pool, pushed_tasks_count,
                        unassigned_tasks_count, in_pool, assigned)
        BY PartitionedPool
      <3>2. /\ tasks \in [Slots -> Tasks \cup {NULL}]
            /\ index_in_parent_pool \in [Tasks -> Slots \cup {NONE}]
            /\ pushed_tasks_count \in Nat
            /\ unassigned_tasks_count \in Nat
            /\ in_pool \in SUBSET Tasks
        BY ThreadPoolAssumption DEF TypeOK
      <3>3. /\ tasks' \in [Slots -> Tasks \cup {NULL}]
            /\ index_in_parent_pool' \in [Tasks -> Slots \cup {NONE}]
            /\ Partitioned(tasks', index_in_parent_pool', pushed_tasks_count + 1,
                           unassigned_tasks_count + 1, in_pool \cup {t}, assigned \ {t})
        <4> DEFINE slots == [tasks EXCEPT ![pushed_tasks_count] = t]
                   index == [index_in_parent_pool EXCEPT ![t] = pushed_tasks_count]
                   first == slots[unassigned_tasks_count]
        <4>1. tasks' = SwapSlots(slots, index, first, t)
              /\ index_in_parent_pool' = SwapIndexes(index, first, t)
          BY <2>1 DEF PlaceTask
        <4> HIDE DEF IInv
        <4>2. /\ SwapSlots(slots, index, first, t) \in [Slots -> Tasks \cup {NULL}]
              /\ SwapIndexes(index, first, t) \in [Tasks -> Slots \cup {NONE}]
              /\ Partitioned(SwapSlots(slots, index, first, t),
                             SwapIndexes(index, first, t), pushed_tasks_count + 1,
                             unassigned_tasks_count + 1, in_pool \cup {t}, assigned \ {t})
          BY <3>1, <3>2, <1>2, <2>1, PushPartitioned
        <4> QED BY <4>1, <4>2
      <3> QED BY <3>3, <2>1, <2>2, PartitionedPool
    <2>5. unassigned_tasks_count <= pushed_tasks_count
      BY DEF PoolPartition
    <2>6. TypeOK'
      <3>1. /\ pushed_tasks_count' \in 0..TPOOL_MAX_TASKS
            /\ unassigned_tasks_count' \in 0..TPOOL_MAX_TASKS
        BY <1>2, <2>1, <2>5, ThreadPoolAssumption DEF TypeOK
      <3>2. stamp' \in [Tasks -> {0, 1}]
        BY <2>1 DEF TypeOK
      <3>3. /\ in_pool' \in SUBSET Tasks /\ assigned' \in SUBSET Tasks
            /\ finished' \in SUBSET Tasks
        BY <2>2 DEF TypeOK
      <3> QED BY <2>1, <2>3, <2>4, <3>1, <3>2, <3>3 DEF TypeOK
    <2>7. ExclusiveExecution'
      BY <2>1, <2>2, <2>3 DEF ExclusiveExecution
    <2>8. RunningCountExact'
      <3>1. TPOOL_MAX_THREADS \in Nat BY ThreadPoolAssumption
      <3> QED BY <3>1, <2>1, <2>3, SameRunning DEF RunningCountExact, Threads
    <2>9. NoForgottenJoiner'
      BY <2>1, <2>2 DEF NoForgottenJoiner
    <2>10. PoolPhase'
      BY <2>1, <2>3, ThreadPoolAssumption DEF PoolPhase, TypeOK
    <2>11. JoinerOwnsTask' /\ PoolMembers'
      BY <2>1, <2>2 DEF JoinerOwnsTask, Joining, PoolMembers, Holds
    <2> QED BY <2>3, <2>4, <2>6, <2>7, <2>8, <2>9, <2>10, <2>11
  <1> QED BY <1>1, <1>2 DEF thread_pool_push_task, IInv, TypeOK

\* One pass of a worker through the critical section that fetches a task.
LEMMA FetchIInv ==
  ASSUME IInv, NEW w \in Threads, thread_pc[w] \in {"lock", "wait"},
         w \notin thread_update_cond, FetchTask(w), UNCHANGED fetchFrame
  PROVE  IInv'
  <1> USE DEF IInv, fetchFrame
  <1>0. /\ TPOOL_MAX_THREADS \in Nat /\ w \in 1..thread_count
        /\ thread_count \in 0..TPOOL_MAX_THREADS
        /\ thread_pc \in [Threads -> {"none", "lock", "wait", "run", "exit"}]
        /\ unassigned_tasks_count \in Nat
    BY ThreadPoolAssumption DEF TypeOK, ThreadsBorn, Threads
  <1>1. CASE unassigned_tasks_count = 0
    <2>1. /\ thread_pc' = [thread_pc EXCEPT ![w] = "wait"]
          /\ thread_update_cond' = thread_update_cond \cup {w}
          /\ UNCHANGED <<arrayVars, countVars, assigned, task_to_execute>>
      BY <1>1 DEF FetchTask
    <2>2. thread_pc'[w] = "wait" /\ \A v \in Threads : v # w => thread_pc'[v] = thread_pc[v]
      BY <1>0, <2>1
    <2>3. TypeOK'
      BY <2>1 DEF TypeOK
    <2>4. PoolPartition' /\ ExclusiveExecution'
      BY <2>1, <2>2 DEF PoolPartition, ExclusiveExecution
    <2>5. RunningCountExact'
      BY <1>0, <2>1, <2>2, SameRunning DEF RunningCountExact, Threads
    <2>6. NoLostWakeup' /\ NoForgottenJoiner'
      BY <1>1, <2>1 DEF NoLostWakeup, NoForgottenJoiner
    <2>7. ThreadsBorn'
      BY <2>1, <2>2, <1>0 DEF ThreadsBorn, Threads
    <2>8. PoolPhase'
      BY <2>1, <2>2 DEF PoolPhase
    <2>9. JoinerOwnsTask' /\ PoolMembers'
      BY <2>1 DEF JoinerOwnsTask, Joining, PoolMembers
    <2> QED BY <2>3, <2>4, <2>5, <2>6, <2>7, <2>8, <2>9
  <1>2. CASE unassigned_tasks_count # 0
    <2> DEFINE task == tasks[0]
               last == tasks[unassigned_tasks_count - 1]
    <2>1. /\ tasks' = SwapSlots(tasks, index_in_parent_pool, task, last)
          /\ index_in_parent_pool' = SwapIndexes(index_in_parent_pool, task, last)
          /\ assigned' = assigned \cup {task}
          /\ task_to_execute' = [task_to_execute EXCEPT ![w] = task]
          /\ unassigned_tasks_count' = unassigned_tasks_count - 1
          /\ running_tasks_count' = running_tasks_count + 1
          /\ thread_pc' = [thread_pc EXCEPT ![w] = "run"]
          /\ UNCHANGED <<pushed_tasks_count, thread_update_cond>>
      BY <1>2 DEF FetchTask, MarkAssigned
    <2>2. thread_pc'[w] = "run" /\ \A v \in Threads : v # w => thread_pc'[v] = thread_pc[v]
      BY <1>0, <2>1
    <2>3. /\ task \in in_pool /\ task \notin assigned
          /\ tasks' \in [Slots -> Tasks \cup {NULL}]
          /\ index_in_parent_pool' \in [Tasks -> Slots \cup {NONE}]
          /\ PoolPartition'
      <3>1. Partitioned(tasks, index_in_parent_pool, pushed_tasks_count,
                        unassigned_tasks_count, in_pool, assigned)
        BY PartitionedPool
      <3>2. /\ tasks \in [Slots -> Tasks \cup {NULL}]
            /\ index_in_parent_pool \in [Tasks -> Slots \cup {NONE}]
            /\ pushed_tasks_count \in 0..TPOOL_MAX_TASKS
            /\ in_pool \in SUBSET Tasks
        BY DEF TypeOK
      <3> HIDE DEF IInv
      <3>3. /\ task \in in_pool /\ task \notin assigned
            /\ tasks' \in [Slots -> Tasks \cup {NULL}]
            /\ index_in_parent_pool' \in [Tasks -> Slots \cup {NONE}]
            /\ Partitioned(tasks', index_in_parent_pool', pushed_tasks_count,
                           unassigned_tasks_count - 1, in_pool, assigned \cup {task})
        BY <3>1, <3>2, <1>0, <1>2, <2>1, FetchPartitioned
      <3> QED BY <3>3, <2>1, PartitionedPool
    <2> HIDE DEF task, last
    <2>4. task \in Tasks /\ task \notin finished
      BY <2>3 DEF TypeOK, PoolMembers
    <2>5. RunningCountExact'
      <3>1. thread_pc[w] # "run" OBVIOUS
      <3> QED BY <3>1, <1>0, <2>1, <2>2, OneMoreRunning DEF RunningCountExact, Threads
    <2>6. ThreadsBorn'
      BY <2>1, <2>2, <1>0 DEF ThreadsBorn, Threads
    <2>7. running_tasks_count' \in 0..thread_count'
      <3>1. \A v \in 1..TPOOL_MAX_THREADS : thread_pc'[v] = "run" => v <= thread_count
        BY <2>6, <1>0 DEF ThreadsBorn, Threads
      <3>2. Cardinality({v \in 1..TPOOL_MAX_THREADS : thread_pc'[v] = "run"})
              \in 0..thread_count
        BY <3>1, <1>0, RunningBound
      <3> QED BY <3>2, <2>5 DEF RunningCountExact, Threads
    <2>8. TypeOK'
      <3>1. unassigned_tasks_count' \in 0..TPOOL_MAX_TASKS
        BY <1>2, <2>1, ThreadPoolAssumption DEF TypeOK
      <3>2. /\ thread_pc' \in [Threads -> {"none", "lock", "wait", "run", "exit"}]
            /\ task_to_execute' \in [Threads -> Tasks \cup {NULL}]
            /\ assigned' \in SUBSET Tasks
        BY <2>1, <2>4 DEF TypeOK
      <3> QED BY <2>1, <2>3, <2>7, <3>1, <3>2 DEF TypeOK
    <2>9. ExclusiveExecution'
      <3>1. task_to_execute'[w] = task
            /\ \A v \in Threads : v # w => task_to_execute'[v] = task_to_execute[v]
        BY <2>1 DEF TypeOK
      <3>2. \A v \in Threads : thread_pc[v] = "run" => task_to_execute[v] # task
        BY <2>3 DEF ExclusiveExecution
      <3>3. \A v \in Threads : thread_pc'[v] = "run" =>
              task_to_execute'[v] \in (in_pool' \cap assigned') \ finished'
        BY <2>1, <2>2, <2>3, <2>4, <3>1 DEF ExclusiveExecution
      <3>4. \A u, v \in Threads :
              thread_pc'[u] = "run" /\ thread_pc'[v] = "run" /\ u # v =>
                task_to_execute'[u] # task_to_execute'[v]
        BY <2>2, <3>1, <3>2 DEF ExclusiveExecution
      <3>5. \A t \in (in_pool' \cap assigned') \ finished' :
              \E v \in Threads : thread_pc'[v] = "run" /\ task_to_execute'[v] = t
        BY <2>1, <2>2, <3>1 DEF ExclusiveExecution
      <3> QED BY <3>3, <3>4, <3>5 DEF ExclusiveExecution
    <2>10. NoLostWakeup'
      BY <1>0, <2>1, <2>2 DEF NoLostWakeup
    <2>11. NoForgottenJoiner'
      BY <2>1 DEF NoForgottenJoiner
    <2>12. PoolPhase'
      BY <1>0, <1>2, <2>1, <2>2 DEF PoolPhase
    <2>13. JoinerOwnsTask' /\ PoolMembers'
      BY <2>1 DEF JoinerOwnsTask, Joining, PoolMembers
    <2> QED BY <2>3, <2>5, <2>6, <2>8, <2>9, <2>10, <2>11, <2>12, <2>13
  <1> QED BY <1>1, <1>2

\* A worker that begins an iteration fetches a task or goes to sleep.
LEMMA ThreadLockIInv ==
  ASSUME IInv, NEW w \in Threads, ThreadLock(w)
  PROVE  IInv'
  <1>1. w \notin thread_update_cond
    BY DEF ThreadLock, IInv, ThreadsBorn
  <1> QED BY <1>1, FetchIInv DEF ThreadLock

\* A worker that wakes leaves if the pool is ending, else fetches or sleeps.
LEMMA ThreadWakeIInv ==
  ASSUME IInv, NEW w \in Threads, ThreadWake(w)
  PROVE  IInv'
  <1>1. CASE thread_update_event # "TASKS_ENDED"
    BY <1>1, FetchIInv DEF ThreadWake
  <1>2. CASE thread_update_event = "TASKS_ENDED"
    <2> USE DEF IInv, fetchFrame
    <2>1. /\ thread_pc[w] = "wait"
          /\ thread_pc' = [thread_pc EXCEPT ![w] = "exit"]
          /\ UNCHANGED <<arrayVars, countVars, assigned, task_to_execute,
                         thread_update_cond, fetchFrame>>
          /\ w \notin thread_update_cond
      BY <1>2 DEF ThreadWake
    <2>2. thread_pc'[w] = "exit" /\ \A v \in Threads : v # w => thread_pc'[v] = thread_pc[v]
      BY <2>1 DEF TypeOK
    <2>3. TypeOK'
      BY <2>1 DEF TypeOK
    <2>4. PoolPartition' /\ ExclusiveExecution'
      BY <2>1, <2>2 DEF PoolPartition, ExclusiveExecution
    <2>5. RunningCountExact'
      BY <2>1, <2>2, SameRunning, ThreadPoolAssumption DEF RunningCountExact, Threads
    <2>6. NoLostWakeup' /\ NoForgottenJoiner'
      BY <1>2, <2>1 DEF NoLostWakeup, NoForgottenJoiner, PoolPhase
    <2>7. ThreadsBorn'
      BY <2>1, <2>2 DEF ThreadsBorn
    <2>8. PoolPhase'
      BY <1>2, <2>1, <2>2 DEF PoolPhase
    <2>9. JoinerOwnsTask' /\ PoolMembers'
      BY <2>1 DEF JoinerOwnsTask, Joining, PoolMembers
    <2> QED BY <2>3, <2>4, <2>5, <2>6, <2>7, <2>8, <2>9
  <1> QED BY <1>1, <1>2

\* A worker that has executed its task publishes the result, or reclaims a
\* detached task, and wakes every joiner of it.
LEMMA ThreadFinishIInv ==
  ASSUME IInv, NEW w \in Threads, ThreadFinish(w)
  PROVE  IInv'
  <1> DEFINE task == task_to_execute[w]
  <1> USE DEF IInv
  <1>0. /\ TPOOL_MAX_THREADS \in Nat
        /\ thread_count \in 0..TPOOL_MAX_THREADS
        /\ w \in 1..thread_count
        /\ thread_pc \in [Threads -> {"none", "lock", "wait", "run", "exit"}]
    BY ThreadPoolAssumption DEF TypeOK, ThreadsBorn, Threads, ThreadFinish
  <1>1. /\ thread_pc[w] = "run"
        /\ running_tasks_count' = running_tasks_count - 1
        /\ has_just_finished_cond' = {c \in has_just_finished_cond : client_task[c] # task}
        /\ thread_pc' = [thread_pc EXCEPT ![w] = "lock"]
        /\ task_to_execute' = [task_to_execute EXCEPT ![w] = NULL]
        /\ UNCHANGED <<pool, unassigned_tasks_count, max_thread_count, thread_count,
                       thread_update_cond, thread_update_event, client_pc, client_task>>
    BY DEF ThreadFinish, DropRunningCount, BroadcastFinished
  <1>2. task \in in_pool /\ task \in assigned /\ task \notin finished /\ task \in Tasks
    BY <1>1 DEF ExclusiveExecution, TypeOK
  <1>3. /\ thread_pc'[w] = "lock"
        /\ \A v \in Threads : v # w => /\ thread_pc'[v] = thread_pc[v]
                                       /\ task_to_execute'[v] = task_to_execute[v]
    BY <1>0, <1>1 DEF TypeOK
  <1>4. RunningCountExact'
    BY <1>0, <1>1, <1>3, OneLessRunning DEF RunningCountExact, Threads
  <1>5. ThreadsBorn'
    BY <1>0, <1>1, <1>3 DEF ThreadsBorn, Threads
  <1>6. running_tasks_count' \in 0..thread_count'
    <2>1. \A v \in 1..TPOOL_MAX_THREADS : thread_pc'[v] = "run" => v <= thread_count
      BY <1>0, <1>1, <1>5 DEF ThreadsBorn, Threads
    <2>2. Cardinality({v \in 1..TPOOL_MAX_THREADS : thread_pc'[v] = "run"})
            \in 0..thread_count
      BY <2>1, <1>0, RunningBound
    <2> QED BY <2>2, <1>1, <1>4 DEF RunningCountExact, Threads
  <1>7. /\ thread_pc' \in [Threads -> {"none", "lock", "wait", "run", "exit"}]
        /\ task_to_execute' \in [Threads -> Tasks \cup {NULL}]
        /\ has_just_finished_cond' \in SUBSET Clients
    BY <1>1 DEF TypeOK
  <1>8. NoLostWakeup'
    BY <1>0, <1>1, <1>3 DEF NoLostWakeup, ThreadsBorn
  <1>9. PoolPhase'
    BY <1>1, <1>3 DEF PoolPhase
  <1>10. CASE task \notin scheduled_for_deletion
    <2>1. /\ result' = [result EXCEPT ![task] = stamp[task]]
          /\ finished' = finished \cup {task}
          /\ UNCHANGED <<arrayVars, pushed_tasks_count, in_pool, assigned, allocated,
                         scheduled_for_deletion, stamp>>
      BY <1>10 DEF ThreadFinish
    <2>2. TypeOK'
      <3>1. result' \in [Tasks -> {0, 1, NONE}] /\ finished' \in SUBSET Tasks
        BY <2>1, <1>2 DEF TypeOK
      <3> QED BY <1>1, <1>6, <1>7, <2>1, <3>1 DEF TypeOK
    <2>3. PoolPartition'
      BY <1>1, <2>1 DEF PoolPartition
    <2>4. ExclusiveExecution'
      BY <1>1, <1>3, <2>1 DEF ExclusiveExecution
    <2>5. NoForgottenJoiner'
      BY <1>1, <2>1 DEF NoForgottenJoiner
    <2>6. JoinerOwnsTask' /\ PoolMembers'
      BY <1>1, <1>2, <2>1 DEF JoinerOwnsTask, Joining, PoolMembers
    <2> QED BY <1>4, <1>5, <1>8, <1>9, <2>2, <2>3, <2>4, <2>5, <2>6
  <1>11. CASE task \in scheduled_for_deletion
    <2>1. RemoveFromPool(task) /\ FreeTask(task)
      BY <1>11 DEF ThreadFinish
    <2>2. in_pool' = in_pool \ {task} /\ assigned' = assigned \ {task}
      BY <2>1 DEF RemoveFromPool
    <2>3. /\ PoolPartition'
          /\ tasks' \in [Slots -> Tasks \cup {NULL}]
          /\ index_in_parent_pool' \in [Tasks -> Slots \cup {NONE}]
          /\ pushed_tasks_count' \in 0..TPOOL_MAX_TASKS
      BY <1>1, <1>2, <2>1, RemoveKeepsPartition
    <2>4. TypeOK'
      <3>1. /\ allocated' \in SUBSET Tasks /\ finished' \in SUBSET Tasks
            /\ scheduled_for_deletion' \in SUBSET Tasks
            /\ result' \in [Tasks -> {0, 1, NONE}] /\ stamp' \in [Tasks -> {0, 1}]
        BY <2>1, <1>2 DEF TypeOK, FreeTask
      <3> QED BY <1>1, <1>6, <1>7, <2>2, <2>3, <3>1 DEF TypeOK
    <2>5. ExclusiveExecution'
      BY <1>1, <1>2, <1>3, <2>1, <2>2 DEF ExclusiveExecution, FreeTask
    <2>6. \A c \in Clients : Joining(c) => client_task[c] # task
      BY <1>11 DEF JoinerOwnsTask
    <2>7. NoForgottenJoiner'
      BY <1>1, <2>1, <2>2 DEF NoForgottenJoiner, FreeTask
    <2>8. JoinerOwnsTask' /\ PoolMembers'
      BY <1>1, <2>1, <2>2, <2>6 DEF JoinerOwnsTask, Joining, PoolMembers, FreeTask
    <2> QED BY <1>4, <1>5, <1>8, <1>9, <2>3, <2>4, <2>5, <2>7, <2>8
  <1> QED BY <1>10, <1>11

\* Every step of the pool keeps the invariant: one case per action.
LEMMA NextIInv == IInv /\ [Next]_vars => IInv'
  <1> SUFFICES ASSUME IInv, [Next]_vars PROVE IInv'
    OBVIOUS
  <1>1. CASE UNCHANGED vars
    BY <1>1, StutterIInv
  <1>2. ASSUME NEW c \in Clients, ClientStep(c) PROVE IInv'
    BY <1>2, NewIInv, DeleteIInv, PushIInv, JoinIInv, DetachIInv, QueryStartIInv,
       PoolNewIInv, PoolDeleteIInv, FreePoolIInv, JoinResumeIInv, JoinTimeoutIInv,
       QuerySectionIInv, SpuriousJoinWakeIInv DEF ClientStep
  <1>3. ASSUME NEW w \in Threads, ThreadStep(w) PROVE IInv'
    BY <1>3, ThreadLockIInv, ThreadWakeIInv, ThreadFinishIInv, SpuriousThreadWakeIInv
    DEF ThreadStep
  <1> QED BY <1>1, <1>2, <1>3 DEF Next

-----------------------------------------------------------------------------
(***************************************************************************)
(* The theorems                                                            *)
(***************************************************************************)

\* The strengthened invariant holds in every reachable state of the pool.
THEOREM Invariance == Spec => []IInv
  <1>1. Init => IInv
    BY InitIInv
  <1>2. IInv /\ [Next]_vars => IInv'
    BY NextIInv
  <1> QED BY <1>1, <1>2, PTL DEF Spec

\* Every field of the pool and of its tasks keeps its type and range, however
\* many tasks, clients and threads there are; in particular thread_count never
\* passes max_thread_count and pushed_tasks_count never passes TPOOL_MAX_TASKS.
THEOREM TypeCorrect == Spec => []TypeOK
  <1>1. IInv => TypeOK
    BY DEF IInv
  <1> QED BY <1>1, Invariance, PTL

\* The swaps of push, fetch, join and detach keep the array and the back
\* indexes inverse to each other and the unassigned tasks its prefix.
THEOREM PartitionKept == Spec => []PoolPartition
  <1>1. IInv => PoolPartition
    BY DEF IInv
  <1> QED BY <1>1, Invariance, PTL

\* No task is ever executed by two workers, or executed once it has left the
\* pool, and running_tasks_count counts the executions under way.
THEOREM ExecutionExclusive == Spec => [](ExclusiveExecution /\ RunningCountExact)
  <1>1. IInv => ExclusiveExecution /\ RunningCountExact
    BY DEF IInv
  <1> QED BY <1>1, Invariance, PTL

\* In particular running_tasks_count, which decides whether push starts another
\* thread, is exact.
THEOREM RunningCounted == Spec => []RunningCountExact
  BY ExecutionExclusive, PTL

\* While a task waits for a thread, some worker is awake: the signal that push
\* leaves out when the queue was not empty is never missed.
THEOREM WakeupNotLost == Spec => []NoLostWakeup
  <1>1. IInv => NoLostWakeup
    BY DEF IInv
  <1> QED BY <1>1, Invariance, PTL

\* No client sleeps in a join of a task that has finished or left the pool.
THEOREM JoinerNotForgotten == Spec => []NoForgottenJoiner
  <1>1. IInv => NoForgottenJoiner
    BY DEF IInv
  <1> QED BY <1>1, Invariance, PTL

-----------------------------------------------------------------------------
(***************************************************************************)
(* The task objects, on top of that invariant: who frees a task and when,  *)
(* what a join may return, and that the pool implements module TaskPool.   *)
(***************************************************************************)

-----------------------------------------------------------------------------
(***************************************************************************)
(* The invariant of the task objects                                       *)
(***************************************************************************)

\* A status query under way has its task to itself as far as freeing goes: the
\* task exists, and no worker will free it.
QueryHolds ==
  \A c \in Clients :
    client_pc[c] = "query" => client_task[c] \in allocated \ scheduled_for_deletion

\* The pool is not deleted while a join sleeps.
JoinersLive == \A c \in Clients : Joining(c) => pool = "live"

TInv ==
  /\ FreshResult
  /\ DetachedReclaimed
  /\ QueryHolds
  /\ JoinersLive

\* When nothing is unassigned and the running count is 0, no task of the pool is
\* unfinished.
LEMMA NoTasksLeft ==
  ASSUME IInv, ~ HasTasks
  PROVE  in_pool \subseteq finished
  <1> SUFFICES ASSUME NEW t \in in_pool, t \notin finished PROVE FALSE
    OBVIOUS
  <1>1. unassigned_tasks_count = 0 /\ running_tasks_count = 0
    BY DEF HasTasks, IInv, TypeOK
  <1>2. t \in assigned
    BY <1>1 DEF IInv, PoolPartition
  <1>3. PICK w \in Threads : thread_pc[w] = "run"
    BY <1>2 DEF IInv, ExclusiveExecution
  <1>4. IsFiniteSet(Threads)
    BY FS_Interval, ThreadPoolAssumption DEF Threads
  <1>5. {v \in Threads : thread_pc[v] = "run"} \in SUBSET Threads
    OBVIOUS
  <1>6. IsFiniteSet({v \in Threads : thread_pc[v] = "run"})
    BY <1>4, <1>5, FS_Subset
  <1>7. {v \in Threads : thread_pc[v] = "run"} = {}
    BY <1>1, <1>6, FS_EmptySet DEF IInv, RunningCountExact
  <1> QED BY <1>3, <1>7

\* Before any call no task exists.
LEMMA InitTInv == Init => TInv
  BY DEF Init, TInv, FreshResult, DetachedReclaimed, QueryHolds, JoinersLive, Joining

\* Steps that change nothing keep the invariant.
LEMMA StutterTInv == TInv /\ UNCHANGED vars => TInv'
  BY DEF TInv, FreshResult, DetachedReclaimed, QueryHolds, JoinersLive, Joining

\* thread_task_new and thread_task_delete: objects outside the pool.
LEMMA NewDeleteTInv ==
  ASSUME IInv, TInv, NEW c \in Clients, NEW t \in Tasks,
         thread_task_new(c, t) \/ thread_task_delete(c, t)
  PROVE  TInv'
  <1> USE DEF TInv, FreshResult, DetachedReclaimed, QueryHolds, JoinersLive, Joining
  <1>1. CASE thread_task_new(c, t)
    BY <1>1 DEF thread_task_new, IInv, TypeOK, PoolMembers
  <1>2. CASE thread_task_delete(c, t) /\ UNCHANGED vars
    BY <1>2, StutterTInv
  <1>3. CASE thread_task_delete(c, t) /\ t \notin in_pool
    BY <1>3 DEF thread_task_delete, FreeTask, Holds, NotInUse, IInv, TypeOK
  <1> QED BY <1>1, <1>2, <1>3 DEF thread_task_delete

\* thread_pool_push_task: a pushed task is not finished.
LEMMA PushTInv ==
  ASSUME IInv, TInv, NEW c \in Clients, NEW t \in Tasks, thread_pool_push_task(c, t)
  PROVE  TInv'
  <1>1. CASE UNCHANGED vars
    BY <1>1, StutterTInv
  <1>2. CASE ~ UNCHANGED vars
    <2>1. /\ finished' = finished \ {t} /\ in_pool' = in_pool \cup {t}
          /\ stamp' = [stamp EXCEPT ![t] = 1 - stamp[t]]
          /\ t \notin scheduled_for_deletion
          /\ UNCHANGED <<pool, allocated, scheduled_for_deletion, result, clientVars>>
      BY <1>2 DEF thread_pool_push_task, ResetTask, Holds
    <2> QED BY <2>1 DEF TInv, FreshResult, DetachedReclaimed, QueryHolds, JoinersLive,
                        Joining, IInv, TypeOK
  <1> QED BY <1>1, <1>2

\* What leaves the pool leaves it for good until it is pushed again.
LEMMA JoinTInv ==
  ASSUME IInv, TInv, NEW c \in Clients, NEW t \in Tasks, NEW call \in {"join", "timed_join"},
         pool = "live", client_pc[c] \in {"idle", "join", "timed_join"},
         t \in in_pool, t \notin scheduled_for_deletion,
         JoinLoop(c, t, call), UNCHANGED joinFrame
  PROVE  TInv'
  <1>1. CASE t \notin finished
    BY <1>1 DEF JoinLoop, joinFrame, TInv, FreshResult, DetachedReclaimed, QueryHolds,
                JoinersLive, Joining, IInv, TypeOK
  <1>2. CASE t \in finished
    BY <1>2 DEF JoinLoop, RemoveFromPool, joinFrame, TInv, FreshResult, DetachedReclaimed,
                QueryHolds, JoinersLive, Joining, IInv, TypeOK
  <1> QED BY <1>1, <1>2

\* thread_task_detach: a finished task is freed, another one marked.
LEMMA DetachTInv ==
  ASSUME IInv, TInv, NEW c \in Clients, NEW t \in Tasks, thread_task_detach(c, t)
  PROVE  TInv'
  <1> USE DEF TInv, FreshResult, DetachedReclaimed, QueryHolds, JoinersLive, Joining
  <1>0. NotInUse(t) /\ Holds(c, t)
    BY DEF thread_task_detach
  <1>1. CASE UNCHANGED vars
    BY <1>1, StutterTInv
  <1>2. CASE t \in in_pool \cap finished /\ ~ UNCHANGED vars
    <2>1. /\ in_pool' = in_pool \ {t} /\ allocated' = allocated \ {t}
          /\ finished' = finished \ {t}
          /\ scheduled_for_deletion' = scheduled_for_deletion \ {t}
          /\ result' = [result EXCEPT ![t] = NONE] /\ stamp' = [stamp EXCEPT ![t] = 0]
          /\ UNCHANGED <<pool, clientVars>>
      BY <1>2 DEF thread_task_detach, RemoveFromPool, FreeTask
    <2> QED BY <2>1, <1>0 DEF NotInUse, IInv, TypeOK
  <1>3. CASE t \in in_pool \ finished /\ ~ UNCHANGED vars
    <2>1. /\ pool = "live"
          /\ scheduled_for_deletion' = scheduled_for_deletion \cup {t}
          /\ UNCHANGED <<pool, allocated, in_pool, finished, valueVars, clientVars>>
      BY <1>3 DEF thread_task_detach
    <2> QED BY <2>1, <1>0, <1>3 DEF NotInUse, Holds
  <1> QED BY <1>1, <1>2, <1>3 DEF thread_task_detach

\* execute_thread: a result is published with its push, a detached task freed
\* when nobody else has it.
LEMMA FinishTInv ==
  ASSUME IInv, TInv, NEW w \in Threads, ThreadFinish(w)
  PROVE  TInv'
  <1> USE DEF TInv, FreshResult, DetachedReclaimed, QueryHolds, JoinersLive, Joining
  <1> DEFINE task == task_to_execute[w]
  <1>1. task \in Tasks /\ task \in in_pool
    BY DEF ThreadFinish, IInv, ExclusiveExecution, TypeOK
  <1>2. UNCHANGED <<pool, client_pc, client_task>>
    BY DEF ThreadFinish
  <1>3. CASE task \notin scheduled_for_deletion
    <2>1. /\ result' = [result EXCEPT ![task] = stamp[task]]
          /\ finished' = finished \cup {task}
          /\ UNCHANGED <<in_pool, allocated, scheduled_for_deletion, stamp>>
      BY <1>3 DEF ThreadFinish
    <2> QED BY <1>1, <1>2, <1>3, <2>1 DEF IInv, TypeOK
  <1>4. CASE task \in scheduled_for_deletion
    <2>1. /\ in_pool' = in_pool \ {task} /\ allocated' = allocated \ {task}
          /\ finished' = finished \ {task}
          /\ scheduled_for_deletion' = scheduled_for_deletion \ {task}
          /\ result' = [result EXCEPT ![task] = NONE]
          /\ stamp' = [stamp EXCEPT ![task] = 0]
      BY <1>4 DEF ThreadFinish, RemoveFromPool, FreeTask
    <2> QED BY <1>1, <1>2, <1>4, <2>1 DEF IInv, TypeOK
  <1> QED BY <1>3, <1>4

\* Every step keeps the invariant.
LEMMA NextTInv == IInv /\ TInv /\ [Next]_vars => TInv'
  <1> SUFFICES ASSUME IInv, TInv, [Next]_vars PROVE TInv'
    OBVIOUS
  <1> USE DEF TInv, FreshResult, DetachedReclaimed, QueryHolds, JoinersLive, Joining
  <1>1. CASE UNCHANGED vars
    BY <1>1, StutterTInv
  <1>2. ASSUME NEW c \in Clients, NEW t \in Tasks, NEW call \in {"join", "timed_join"},
               thread_task_join(c, t, call)
        PROVE  TInv'
    <2>1. CASE UNCHANGED vars
      BY <2>1, StutterTInv
    <2>2. CASE ~ UNCHANGED vars
      <3>1. /\ t \in in_pool /\ t \notin scheduled_for_deletion /\ client_pc[c] = "idle"
            /\ pool = "live" /\ JoinLoop(c, t, call) /\ UNCHANGED joinFrame
        BY <1>2, <2>2 DEF thread_task_join, Holds
      <3> QED BY <3>1, JoinTInv
    <2> QED BY <2>1, <2>2
  <1>3. ASSUME NEW c \in Clients, NEW t \in Tasks, QueryStart(c, t) PROVE TInv'
    <2>1. CASE UNCHANGED vars
      BY <2>1, StutterTInv
    <2>2. CASE ~ UNCHANGED vars
      BY <1>3, <2>2 DEF QueryStart, Holds, IInv, TypeOK
    <2> QED BY <2>1, <2>2
  <1>4. ASSUME NEW c \in Clients, NEW count \in 0..(TPOOL_MAX_THREADS + 1),
               thread_pool_new(c, count)
        PROVE  TInv'
    BY <1>4 DEF thread_pool_new
  <1>5. ASSUME NEW c \in Clients, thread_pool_delete(c) PROVE TInv'
    <2>1. CASE UNCHANGED vars
      BY <2>1, StutterTInv
    <2>2. CASE ~ HasTasks /\ ~ UNCHANGED vars
      <3>1. scheduled_for_deletion = {}
        BY <2>2, NoTasksLeft
      <3> QED BY <1>5, <2>2, <3>1 DEF thread_pool_delete, IInv, TypeOK
    <2> QED BY <1>5, <2>1, <2>2 DEF thread_pool_delete
  <1>6. ASSUME NEW c \in Clients, FreePool(c) PROVE TInv'
    BY <1>6 DEF FreePool, IInv, TypeOK, PoolPhase
  <1>7. ASSUME NEW c \in Clients, JoinResume(c) PROVE TInv'
    <2>1. Joining(c)
      BY <1>7 DEF JoinResume
    <2>2. /\ client_task[c] \in Tasks /\ client_task[c] \in in_pool
          /\ client_task[c] \notin scheduled_for_deletion
      BY <2>1 DEF IInv, TypeOK, JoinerOwnsTask
    <2> QED BY <1>7, <2>1, <2>2, JoinTInv DEF JoinResume
  <1>8. ASSUME NEW c \in Clients, JoinTimeout(c) \/ QuerySection(c) \/ SpuriousJoinWake(c)
        PROVE  TInv'
    BY <1>8 DEF JoinTimeout, QuerySection, SpuriousJoinWake, joinFrame, IInv, TypeOK
  <1>9. ASSUME NEW w \in Threads, ThreadLock(w) \/ ThreadWake(w) \/ SpuriousThreadWake(w)
        PROVE  TInv'
    BY <1>9 DEF ThreadLock, ThreadWake, SpuriousThreadWake, fetchFrame
  <1> QED BY <1>1, <1>2, <1>3, <1>4, <1>5, <1>6, <1>7, <1>8, <1>9, NewDeleteTInv, PushTInv,
             DetachTInv, FinishTInv DEF Next, ClientStep, ThreadStep

\* Both invariants hold in every reachable state.
THEOREM TaskInvariance == Spec => [](IInv /\ TInv)
  <1>1. Init => TInv
    BY InitTInv
  <1>2. IInv /\ TInv /\ [Next]_vars => TInv'
    BY NextTInv
  <1> QED BY <1>1, <1>2, Invariance, PTL DEF Spec

\* However often a task is pushed, joined and pushed again, a join returns the
\* result of the last push.
THEOREM ResultFresh == Spec => []FreshResult
  <1>1. IInv /\ TInv => FreshResult
    BY DEF TInv
  <1> QED BY <1>1, TaskInvariance, PTL

\* No task is freed while the array, a worker or a call holds a pointer to it, and
\* a detached one is freed when it has been executed, in a pool that still exists.
THEOREM LifetimesKept == Spec => []TaskLifetimes
  <1>1. IInv /\ TInv => NoDanglingTask
    BY DEF IInv, TInv, NoDanglingTask, PoolMembers, ExclusiveExecution, JoinerOwnsTask,
           Joining, QueryHolds
  <1>2. IInv /\ TInv => TaskLifetimes
    BY <1>1 DEF TInv, TaskLifetimes
  <1> QED BY <1>2, TaskInvariance, PTL

-----------------------------------------------------------------------------
(***************************************************************************)
(* The pool implements module TaskPool                                     *)
(***************************************************************************)

\* The array holds as many tasks as it has used slots.
LEMMA IndexedCount ==
  ASSUME NEW slots, NEW index, NEW n \in Nat, NEW S, Indexed(slots, index, n, S)
  PROVE  Cardinality(S) = n
  <1> DEFINE f == [i \in 1..n |-> slots[i - 1]]
  <1>1. f \in [1..n -> S]
    BY DEF Indexed
  <1>2. \A i, j \in 1..n : f[i] = f[j] => i = j
    BY DEF Indexed
  <1>3. \A t \in S : \E i \in 1..n : f[i] = t
    <2> SUFFICES ASSUME NEW t \in S PROVE \E i \in 1..n : f[i] = t
      OBVIOUS
    <2>1. index[t] \in Int /\ index[t] + 1 \in 1..n /\ slots[index[t]] = t
      BY DEF Indexed
    <2>2. f[index[t] + 1] = t
      BY <2>1
    <2> QED BY <2>1, <2>2
  <1> HIDE DEF f
  <1>4. f \in Bijection(1..n, S)
    BY <1>1, <1>2, <1>3 DEF Bijection, Injection, Surjection, IsInjective
  <1>5. ExistsBijection(1..n, S)
    BY <1>4 DEF ExistsBijection
  <1> QED BY <1>5, FS_CountingElements

\* pushed_tasks_count is the number of tasks that are in the pool.
LEMMA PushedCount == IInv => Cardinality(in_pool) = pushed_tasks_count
  <1> SUFFICES ASSUME IInv PROVE Cardinality(in_pool) = pushed_tasks_count
    OBVIOUS
  <1>1. pushed_tasks_count \in Nat
    <2>1. pushed_tasks_count \in 0..TPOOL_MAX_TASKS
      BY DEF IInv, TypeOK
    <2> QED BY <2>1
  <1>2. Indexed(tasks, index_in_parent_pool, pushed_tasks_count, in_pool)
    BY DEF IInv, PoolPartition, Indexed
  <1> QED BY <1>1, <1>2, IndexedCount

Running == (in_pool \cap assigned) \ finished

\* No more tasks run than the pool counts.
LEMMA RunningTasks == IInv => Cardinality(Running) \in Nat /\ Cardinality(Running) <= running_tasks_count
  <1> SUFFICES ASSUME IInv
               PROVE  Cardinality(Running) \in Nat /\ Cardinality(Running) <= running_tasks_count
    OBVIOUS
  <1> DEFINE R == {w \in Threads : thread_pc[w] = "run"}
             f == [w \in R |-> task_to_execute[w]]
  <1>1. IsFiniteSet(Threads)
    BY FS_Interval, ThreadPoolAssumption DEF Threads
  <1>2. R \in SUBSET Threads
    OBVIOUS
  <1>3. IsFiniteSet(R)
    BY <1>1, <1>2, FS_Subset
  <1>4. f \in Surjection(R, Running)
    BY DEF IInv, ExclusiveExecution, Surjection, Running
  <1> HIDE DEF f, R
  <1>5. IsFiniteSet(Running) /\ Cardinality(Running) <= Cardinality(R)
    BY <1>3, <1>4, FS_Surjection
  <1>6. Cardinality(Running) \in Nat
    BY <1>5, FS_CardinalityType
  <1>7. Cardinality(R) = running_tasks_count
    BY DEF R, IInv, RunningCountExact
  <1> QED BY <1>5, <1>6, <1>7

\* The place of a task in its life depends on four of its fields.
LEMMA SameStatus ==
  ASSUME NEW t, t \in allocated' <=> t \in allocated, t \in in_pool' <=> t \in in_pool,
         t \in assigned' <=> t \in assigned, t \in finished' <=> t \in finished
  PROVE  TaskStatus(t)' = TaskStatus(t)
  BY DEF TaskStatus

\* One task moves and the others stay: the shape of nearly every step.
LEMMA StatusMoves ==
  ASSUME NEW t \in Tasks, NEW from, NEW to,
         TaskStatus(t) = from, TaskStatus(t)' = to,
         \A u \in Tasks \ {t} : TaskStatus(u)' = TaskStatus(u),
         UNCHANGED <<pool, max_thread_count>>
  PROVE  Promise!Move(t, from, to)
  BY DEF Promise!Move

\* A step that touches none of what TaskPool speaks of.
LEMMA SilentStep ==
  ASSUME UNCHANGED <<pool, max_thread_count, allocated, in_pool, assigned, finished,
                     scheduled_for_deletion>>
  PROVE  UNCHANGED Promise!vars
  BY SameStatus DEF Promise!vars

\* Cardinality under the instance is Cardinality.
LEMMA SameCardinality == \A S : Promise!Cardinality(S) = Cardinality(S)
  BY DEF Promise!Cardinality, Cardinality

\* thread_task_new and thread_task_delete.
LEMMA NewDeleteStep ==
  ASSUME IInv, TInv, NEW c \in Clients, NEW t \in Tasks,
         thread_task_new(c, t) \/ thread_task_delete(c, t), ~ UNCHANGED vars
  PROVE  Promise!New(t) \/ Promise!Delete(t)
  <1>1. /\ \A u \in Tasks \ {t} : TaskStatus(u)' = TaskStatus(u)
        /\ UNCHANGED <<pool, max_thread_count>>
    BY SameStatus DEF thread_task_new, thread_task_delete, FreeTask
  <1>2. CASE thread_task_new(c, t)
    <2>1. TaskStatus(t) = "freed" /\ TaskStatus(t)' = "idle"
      BY <1>2 DEF thread_task_new, TaskStatus
    <2>2. UNCHANGED scheduled_for_deletion
      BY <1>2 DEF thread_task_new, TInv, DetachedReclaimed
    <2> QED BY <1>1, <2>1, <2>2, StatusMoves DEF Promise!New
  <1>3. CASE thread_task_delete(c, t)
    <2>1. TaskStatus(t) = "idle" /\ TaskStatus(t)' = "freed"
      BY <1>3 DEF thread_task_delete, Holds, FreeTask, TaskStatus
    <2>2. t \notin scheduled_for_deletion /\ UNCHANGED scheduled_for_deletion
      BY <1>3 DEF thread_task_delete, Holds, FreeTask
    <2> QED BY <1>1, <2>1, <2>2, StatusMoves DEF Promise!Delete
  <1> QED BY <1>2, <1>3

\* thread_pool_push_task: the limit of the array is the limit on pushed tasks.
LEMMA PushStepPromised ==
  ASSUME IInv, TInv, NEW c \in Clients, NEW t \in Tasks,
         thread_pool_push_task(c, t), ~ UNCHANGED vars
  PROVE  Promise!Push(t)
  <1>1. /\ pool = "live" /\ t \in allocated /\ t \notin in_pool
        /\ pushed_tasks_count < TPOOL_MAX_TASKS
        /\ finished' = finished \ {t} /\ assigned' = assigned \ {t}
        /\ in_pool' = in_pool \cup {t}
        /\ UNCHANGED <<pool, max_thread_count, allocated, scheduled_for_deletion>>
    BY DEF thread_pool_push_task, Holds, ResetTask
  <1>2. TaskStatus(t) = "idle" /\ TaskStatus(t)' = "queued"
    BY <1>1 DEF TaskStatus
  <1>3. \A u \in Tasks \ {t} : TaskStatus(u)' = TaskStatus(u)
    BY <1>1, SameStatus
  <1>4. Promise!Having({"queued", "running", "done"}) = in_pool
    BY DEF Promise!Having, TaskStatus, IInv, TypeOK, PoolMembers
  <1>5. Promise!Cardinality(Promise!Having({"queued", "running", "done"})) < TPOOL_MAX_TASKS
    BY <1>1, <1>4, PushedCount, SameCardinality
  <1> QED BY <1>1, <1>2, <1>3, <1>5, StatusMoves DEF Promise!Push

\* A join that finds its task finished.
LEMMA JoinStep ==
  ASSUME IInv, TInv, NEW c \in Clients, NEW t \in Tasks, NEW call,
         pool = "live", t \in in_pool, t \notin scheduled_for_deletion,
         JoinLoop(c, t, call), UNCHANGED joinFrame
  PROVE  Promise!Join(t) \/ UNCHANGED Promise!vars
  <1>1. CASE t \notin finished
    <2>1. UNCHANGED <<pool, max_thread_count, allocated, in_pool, assigned, finished,
                      scheduled_for_deletion>>
      BY <1>1 DEF JoinLoop, joinFrame
    <2> QED BY <2>1, SilentStep
  <1>2. CASE t \in finished
    <2>1. /\ in_pool' = in_pool \ {t} /\ assigned' = assigned \ {t}
          /\ UNCHANGED <<pool, max_thread_count, allocated, finished,
                         scheduled_for_deletion>>
      BY <1>2 DEF JoinLoop, RemoveFromPool, joinFrame
    <2>2. TaskStatus(t) = "done" /\ TaskStatus(t)' = "idle"
      BY <1>2, <2>1 DEF TaskStatus, IInv, PoolMembers
    <2>3. \A u \in Tasks \ {t} : TaskStatus(u)' = TaskStatus(u)
      BY <2>1, SameStatus
    <2> QED BY <2>1, <2>2, <2>3, StatusMoves DEF Promise!Join
  <1> QED BY <1>1, <1>2

\* thread_task_detach frees a finished task and marks another one.
LEMMA DetachStep ==
  ASSUME IInv, TInv, NEW c \in Clients, NEW t \in Tasks,
         thread_task_detach(c, t), ~ UNCHANGED vars
  PROVE  Promise!Detach(t)
  <1>0. t \in in_pool /\ pool = "live" /\ t \notin scheduled_for_deletion
    BY DEF thread_task_detach, Holds
  <1>1. CASE t \in finished
    <2>1. /\ in_pool' = in_pool \ {t} /\ assigned' = assigned \ {t}
          /\ allocated' = allocated \ {t} /\ finished' = finished \ {t}
          /\ UNCHANGED <<pool, max_thread_count, scheduled_for_deletion>>
      BY <1>0, <1>1 DEF thread_task_detach, RemoveFromPool, FreeTask
    <2>2. TaskStatus(t) = "done" /\ TaskStatus(t)' = "freed"
      BY <1>0, <1>1, <2>1 DEF TaskStatus, IInv, PoolMembers
    <2>3. \A u \in Tasks \ {t} : TaskStatus(u)' = TaskStatus(u)
      BY <2>1, SameStatus
    <2> QED BY <1>0, <2>1, <2>2, <2>3, StatusMoves DEF Promise!Detach
  <1>2. CASE t \notin finished
    <2>1. /\ scheduled_for_deletion' = scheduled_for_deletion \cup {t}
          /\ UNCHANGED <<pool, max_thread_count, allocated, in_pool, assigned, finished>>
      BY <1>0, <1>2 DEF thread_task_detach
    <2>2. TaskStatus(t) \in {"queued", "running"}
      BY <1>0, <1>2 DEF TaskStatus, IInv, PoolMembers
    <2>3. \A u \in Tasks : TaskStatus(u)' = TaskStatus(u)
      BY <2>1, SameStatus
    <2> QED BY <1>0, <2>1, <2>2, <2>3 DEF Promise!Detach
  <1> QED BY <1>1, <1>2

\* A worker that fetches a task starts it, within the limit on threads.
LEMMA FetchStep ==
  ASSUME IInv, IInv', NEW w \in Threads, thread_pc[w] \in {"lock", "wait"},
         FetchTask(w), UNCHANGED fetchFrame
  PROVE  (\E t \in Tasks : Promise!Start(t)) \/ UNCHANGED Promise!vars
  <1>1. CASE unassigned_tasks_count = 0
    <2>1. UNCHANGED <<pool, max_thread_count, allocated, in_pool, assigned, finished,
                      scheduled_for_deletion>>
      BY <1>1 DEF FetchTask, fetchFrame
    <2> QED BY <2>1, SilentStep
  <1>2. CASE unassigned_tasks_count # 0
    <2>1. /\ assigned' = assigned \cup {tasks[0]}
          /\ running_tasks_count' = running_tasks_count + 1
          /\ UNCHANGED <<pool, max_thread_count, thread_count, allocated, in_pool,
                         finished, scheduled_for_deletion>>
      BY <1>2 DEF FetchTask, MarkAssigned, fetchFrame
    <2>2. unassigned_tasks_count \in Nat /\ pushed_tasks_count \in Nat
      <3>1. /\ unassigned_tasks_count \in 0..TPOOL_MAX_TASKS
            /\ pushed_tasks_count \in 0..TPOOL_MAX_TASKS
        BY DEF IInv, TypeOK
      <3> QED BY <3>1
    <2>3. tasks[0] \in in_pool /\ tasks[0] \notin assigned
      BY <1>2, <2>2 DEF IInv, PoolPartition
    <2>4. PICK t \in Tasks : t = tasks[0] /\ t \in allocated /\ t \notin finished
      BY <2>3 DEF IInv, TypeOK, PoolMembers
    <2>5. TaskStatus(t) = "queued" /\ TaskStatus(t)' = "running"
      BY <2>1, <2>3, <2>4 DEF TaskStatus
    <2>6. \A u \in Tasks \ {t} : TaskStatus(u)' = TaskStatus(u)
      BY <2>1, <2>4, SameStatus
    <2>7. pool = "live"
      <3>1. thread_count # 0
        <4>1. w \in Nat /\ w > 0 /\ thread_count \in Int /\ ~ (w > thread_count)
          BY ThreadPoolAssumption DEF IInv, TypeOK, ThreadsBorn, Threads
        <4> QED BY <4>1
      <3> QED BY <1>2, <3>1 DEF IInv, TypeOK, PoolPhase
    <2>8. Promise!Having({"running"}) = Running
      BY DEF Promise!Having, Running, TaskStatus, IInv, TypeOK, PoolMembers
    <2>9. Cardinality(Running) < max_thread_count
      <3>1. /\ running_tasks_count' \in 0..thread_count
            /\ thread_count \in 0..max_thread_count
            /\ running_tasks_count \in 0..thread_count
            /\ max_thread_count \in 0..TPOOL_MAX_THREADS
        BY <2>1 DEF IInv, TypeOK
      <3> QED BY <3>1, <2>1, RunningTasks
    <2>10. Promise!Cardinality(Promise!Having({"running"})) < max_thread_count
      BY <2>8, <2>9, SameCardinality
    <2>11. Promise!Move(t, "queued", "running")
      BY <2>1, <2>4, <2>5, <2>6, StatusMoves
    <2> QED BY <2>1, <2>4, <2>7, <2>10, <2>11 DEF Promise!Start
  <1> QED BY <1>1, <1>2

\* A worker whose task has returned completes it.
LEMMA FinishStep ==
  ASSUME IInv, NEW w \in Threads, ThreadFinish(w)
  PROVE  \E t \in Tasks : Promise!Complete(t)
  <1>1. PICK t \in Tasks :
          /\ t = task_to_execute[w]
          /\ t \in allocated /\ t \in in_pool /\ t \in assigned /\ t \notin finished
    BY DEF ThreadFinish, IInv, ExclusiveExecution, TypeOK, PoolMembers
  <1>2. TaskStatus(t) = "running"
    BY <1>1 DEF TaskStatus
  <1>3. UNCHANGED <<pool, max_thread_count>>
    BY DEF ThreadFinish
  <1>4. CASE t \notin scheduled_for_deletion
    <2>1. /\ finished' = finished \cup {t}
          /\ UNCHANGED <<in_pool, assigned, allocated, scheduled_for_deletion>>
      BY <1>1, <1>4 DEF ThreadFinish
    <2>2. TaskStatus(t)' = "done"
      BY <1>1, <2>1 DEF TaskStatus
    <2>3. \A u \in Tasks \ {t} : TaskStatus(u)' = TaskStatus(u)
      BY <2>1, SameStatus
    <2>4. Promise!Move(t, "running", "done")
      BY <1>1, <1>2, <1>3, <2>2, <2>3, StatusMoves
    <2> QED BY <1>1, <1>4, <2>1, <2>4 DEF Promise!Complete
  <1>5. CASE t \in scheduled_for_deletion
    <2>1. /\ in_pool' = in_pool \ {t} /\ assigned' = assigned \ {t}
          /\ allocated' = allocated \ {t} /\ finished' = finished \ {t}
          /\ scheduled_for_deletion' = scheduled_for_deletion \ {t}
      BY <1>1, <1>5 DEF ThreadFinish, RemoveFromPool, FreeTask
    <2>2. TaskStatus(t)' = "freed"
      BY <2>1 DEF TaskStatus
    <2>3. \A u \in Tasks \ {t} : TaskStatus(u)' = TaskStatus(u)
      BY <2>1, SameStatus
    <2>4. Promise!Move(t, "running", "freed")
      BY <1>1, <1>2, <1>3, <2>2, <2>3, StatusMoves
    <2> QED BY <1>1, <1>5, <2>1, <2>4 DEF Promise!Complete
  <1> QED BY <1>4, <1>5

\* thread_pool_delete ends the pool only when nothing waits or runs.
LEMMA CloseStep ==
  ASSUME IInv, TInv, NEW c \in Clients, thread_pool_delete(c), ~ UNCHANGED vars
  PROVE  Promise!Close
  <1>1. /\ pool = "live" /\ ~ HasTasks /\ pool' = "ending"
        /\ UNCHANGED <<max_thread_count, allocated, in_pool, assigned, finished,
                       scheduled_for_deletion>>
    BY DEF thread_pool_delete
  <1>2. in_pool \subseteq finished /\ in_pool \cap finished \subseteq assigned
    BY <1>1, NoTasksLeft DEF IInv, PoolMembers
  <1>3. \A t \in Tasks : TaskStatus(t) \notin {"queued", "running"}
    BY <1>2 DEF TaskStatus
  <1>4. Promise!Having({"queued", "running"}) = {}
    BY <1>3 DEF Promise!Having
  <1>5. \A t \in Tasks : TaskStatus(t)' = TaskStatus(t)
    BY <1>1, SameStatus
  <1> QED BY <1>1, <1>4, <1>5 DEF Promise!Close

\* Every step of the pool is a step of TaskPool or changes nothing it speaks of.
LEMMA NextStep ==
  ASSUME IInv, TInv, IInv', [Next]_vars
  PROVE  [Promise!Next]_(Promise!vars)
  <1>1. CASE UNCHANGED vars
    BY <1>1, SilentStep
  <1> SUFFICES ASSUME ~ UNCHANGED vars, Next PROVE [Promise!Next]_(Promise!vars)
    BY <1>1
  <1>2. ASSUME NEW c \in Clients, NEW t \in Tasks,
               \/ thread_task_new(c, t)
               \/ thread_task_delete(c, t)
               \/ thread_pool_push_task(c, t)
               \/ thread_task_detach(c, t)
        PROVE  Promise!Next
    <2>1. Promise!New(t) \/ Promise!Delete(t) \/ Promise!Push(t) \/ Promise!Detach(t)
      BY <1>2, NewDeleteStep, PushStepPromised, DetachStep
    <2> QED BY <2>1 DEF Promise!Next
  <1>3. ASSUME NEW c \in Clients, NEW t \in Tasks, NEW call \in {"join", "timed_join"},
               thread_task_join(c, t, call)
        PROVE  [Promise!Next]_(Promise!vars)
    <2>1. /\ pool = "live" /\ t \in in_pool /\ t \notin scheduled_for_deletion
          /\ JoinLoop(c, t, call) /\ UNCHANGED joinFrame
      BY <1>3 DEF thread_task_join, Holds
    <2>2. Promise!Join(t) \/ UNCHANGED Promise!vars
      BY <2>1, JoinStep
    <2> QED BY <2>2 DEF Promise!Next
  <1>4. ASSUME NEW c \in Clients, JoinResume(c) PROVE [Promise!Next]_(Promise!vars)
    <2>1. Joining(c)
      BY <1>4 DEF JoinResume, Joining
    <2>2. PICK t \in Tasks : t = client_task[c]
      BY <2>1 DEF IInv, TypeOK, JoinerOwnsTask
    <2>3. /\ pool = "live" /\ t \in in_pool /\ t \notin scheduled_for_deletion
      BY <2>1, <2>2 DEF IInv, JoinerOwnsTask, TInv, JoinersLive
    <2>4. Promise!Join(t) \/ UNCHANGED Promise!vars
      <3>1. PICK call : call = client_pc[c]
        OBVIOUS
      <3>2. JoinLoop(c, t, call) /\ UNCHANGED joinFrame
        BY <1>4, <2>2, <3>1 DEF JoinResume
      <3> QED BY <2>3, <3>2, JoinStep
    <2> QED BY <2>4 DEF Promise!Next
  <1>5. ASSUME NEW c \in Clients, NEW count \in 0..(TPOOL_MAX_THREADS + 1),
               thread_pool_new(c, count)
        PROVE  Promise!Next
    <2>1. /\ count \in 1..TPOOL_MAX_THREADS
          /\ pool = "none" /\ pool' = "live" /\ max_thread_count' = count
          /\ UNCHANGED <<allocated, in_pool, assigned, finished, scheduled_for_deletion>>
      BY <1>5, ThreadPoolAssumption DEF thread_pool_new
    <2>2. \A t \in Tasks : TaskStatus(t)' = TaskStatus(t)
      BY <2>1, SameStatus
    <2>3. Promise!Open(count)
      BY <2>1, <2>2 DEF Promise!Open
    <2> QED BY <2>1, <2>3 DEF Promise!Next
  <1>6. ASSUME NEW c \in Clients, thread_pool_delete(c) PROVE Promise!Next
    BY <1>6, CloseStep DEF Promise!Next
  <1>7. ASSUME NEW c \in Clients, FreePool(c) PROVE Promise!Next
    <2>1. /\ pool = "ending" /\ pool' = "freed"
          /\ UNCHANGED <<max_thread_count, allocated, in_pool, assigned, finished,
                         scheduled_for_deletion>>
      BY <1>7 DEF FreePool, IInv, PoolPhase
    <2>2. \A t \in Tasks : TaskStatus(t)' = TaskStatus(t)
      BY <2>1, SameStatus
    <2> QED BY <2>1, <2>2 DEF Promise!Free, Promise!Next
  <1>8. ASSUME NEW c \in Clients,
               \/ \E t \in Tasks : QueryStart(c, t)
               \/ JoinTimeout(c) \/ QuerySection(c) \/ SpuriousJoinWake(c)
        PROVE  UNCHANGED Promise!vars
    <2>1. UNCHANGED <<pool, max_thread_count, allocated, in_pool, assigned, finished,
                      scheduled_for_deletion>>
      BY <1>8 DEF QueryStart, JoinTimeout, QuerySection, SpuriousJoinWake, joinFrame
    <2> QED BY <2>1, SilentStep
  <1>9. ASSUME NEW w \in Threads, ThreadLock(w) \/ ThreadWake(w)
        PROVE  [Promise!Next]_(Promise!vars)
    <2>1. CASE thread_pc[w] \in {"lock", "wait"} /\ FetchTask(w) /\ UNCHANGED fetchFrame
      BY <2>1, FetchStep DEF Promise!Next
    <2>2. CASE UNCHANGED <<arrayVars, countVars, assigned, fetchFrame>>
      <3>1. UNCHANGED <<pool, max_thread_count, allocated, in_pool, assigned, finished,
                        scheduled_for_deletion>>
        BY <2>2 DEF fetchFrame
      <3> QED BY <3>1, SilentStep
    <2> QED BY <1>9, <2>1, <2>2 DEF ThreadLock, ThreadWake
  <1>10. ASSUME NEW w \in Threads, ThreadFinish(w) PROVE Promise!Next
    BY <1>10, FinishStep DEF Promise!Next
  <1>11. ASSUME NEW w \in Threads, SpuriousThreadWake(w) PROVE UNCHANGED Promise!vars
    <2>1. UNCHANGED <<pool, max_thread_count, allocated, in_pool, assigned, finished,
                      scheduled_for_deletion>>
      BY <1>11 DEF SpuriousThreadWake
    <2> QED BY <2>1, SilentStep
  <1> QED BY <1>2, <1>3, <1>4, <1>5, <1>6, <1>7, <1>8, <1>9, <1>10, <1>11
          DEF Next, ClientStep, ThreadStep

\* The pool starts in the initial state of TaskPool.
LEMMA InitPromised == Init => Promise!Init
  BY DEF Init, Promise!Init, TaskStatus

\* The flags, counters, array and condition variables of thread_pool.c implement
\* the life cycle that thread_pool.h promises.
THEOREM PoolImplementsTaskPool == Spec => ImplementsTaskPool
  <1>1. Init => Promise!Init
    BY InitPromised
  <1>2. IInv /\ TInv /\ IInv' /\ [Next]_vars => [Promise!Next]_(Promise!vars)
    BY NextStep
  <1>3. Spec => Promise!Spec
    BY <1>1, <1>2, TaskInvariance, PTL DEF Spec, Promise!Spec
  <1> QED BY <1>3 DEF ImplementsTaskPool

=============================================================================
