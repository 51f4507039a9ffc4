----------------------------- MODULE CoroProofs -----------------------------
(***************************************************************************)
(* Proofs about the coroutine library: the list stays whole, exactly one   *)
(* context runs, and control goes to live, unfinished coroutines only.     *)
(***************************************************************************)
EXTENDS Coro, TLAPS, FiniteSetTheorems, FunctionTheorems, WellFoundedInduction

\* There are finitely many addresses; the scheduler and NULL are none of them.
CoroAssumption ==
  IsFiniteSet(Coros) /\ coro_sched \notin Coros /\ NULL \notin Coros \cup {coro_sched}

USE DEF vars, listVars

-----------------------------------------------------------------------------
(***************************************************************************)
(* The invariant                                                           *)
(***************************************************************************)

CoroTypes ==
  /\ next \in [Coros -> Coros \cup {NULL}] /\ prev \in [Coros -> Coros \cup {NULL}]
  /\ allocated \subseteq Coros /\ is_finished \subseteq allocated
  /\ returned \subseteq is_finished
  /\ ctx \subseteq Coros \cup {coro_sched}
  /\ coro_this_ptr \in Coros \cup {coro_sched}
  /\ is_sched_waiting \in BOOLEAN

\* l is the order in which the list has the n live coroutines.
IsList(n, l) ==
  /\ \A j, k \in 1..n : l[j] = l[k] => j = k
  /\ \A c : c \in Live <=> \E k \in 1..n : l[k] = c
  /\ coro_list = IF n = 0 THEN NULL ELSE l[1]
  /\ \A k \in 1..n : next[l[k]] = IF k = n THEN NULL ELSE l[k + 1]
  /\ \A k \in 1..n : prev[l[k]] = IF k = 1 THEN NULL ELSE l[k - 1]

Listed == \E n \in Nat : \E l \in [1..n -> Coros] : IsList(n, l)

CoroInv == CoroTypes /\ Listed /\ OneRuns /\ FinishedCaught

-----------------------------------------------------------------------------
(***************************************************************************)
(* The way through the list                                                *)
(***************************************************************************)

LEMMA LeastOf ==
  ASSUME NEW S, S \subseteq Nat, S # {}
  PROVE  \E k \in S : \A j \in S : k <= j
  <1> DEFINE R == OpToRel(<, Nat)
  <1>1. IsWellFoundedOn(R, Nat)
    BY NatLessThanWellFounded
  <1>2. \A j, k \in Nat : j < k => <<j, k>> \in R
    BY Zenon DEF OpToRel
  <1> HIDE DEF R
  <1>3. PICK k \in S : \A j \in S : ~ (<<j, k>> \in R)
    BY <1>1, WFMin
  <1>4. \A j \in S : ~ (j < k)
    BY Zenon, <1>2, <1>3
  <1> QED BY <1>4

\* The way through next is the list, and then nothing.
LEMMA AtList ==
  ASSUME CoroAssumption, NEW n \in Nat, NEW l \in [1..n -> Coros], IsList(n, l)
  PROVE  \A k \in Nat : At[k] = IF k < n THEN l[k + 1] ELSE NULL
  <1> DEFINE g == [k \in Nat |-> IF k < n THEN l[k + 1] ELSE NULL]
             Way(h) == [k \in Nat |-> IF k = 0 THEN coro_list
                                      ELSE IF h[k - 1] = NULL THEN NULL ELSE next[h[k - 1]]]
  <1>1. g = Way(g)
    <2>1. ASSUME NEW k \in Nat PROVE g[k] = Way(g)[k]
      <3>1. CASE k = 0
        BY <3>1 DEF IsList
      <3>2. CASE k # 0 /\ k - 1 < n
        <4>1. k - 1 \in Nat /\ g[k - 1] = l[k] /\ l[k] # NULL /\ k \in 1..n
          BY <3>2 DEF CoroAssumption
        <4>2. next[l[k]] = IF k = n THEN NULL ELSE l[k + 1]
          BY <4>1 DEF IsList
        <4> QED BY <3>2, <4>1, <4>2
      <3>3. CASE k # 0 /\ ~ (k - 1 < n)
        BY <3>3
      <3> QED BY <3>1, <3>2, <3>3
    <2> QED BY <2>1
  <1>2. At = Way(At)
    <2> HIDE DEF g
    <2>1. At = CHOOSE h : h = Way(h)
      BY DEF At
    <2> HIDE DEF Way
    <2> QED BY <1>1, <2>1
  <1> DEFINE Bad == {k \in Nat : At[k] # g[k]}
  <1>3. ASSUME Bad # {} PROVE FALSE
    <2>1. PICK k \in Bad : \A j \in Bad : k <= j
      BY <1>3, LeastOf
    <2>2. k \in Nat /\ At[k] # g[k]
      BY <2>1
    <2>3. k # 0 => k - 1 \in Nat /\ At[k - 1] = g[k - 1]
      BY <2>1
    <2>4. At[k] = Way(At)[k] /\ g[k] = Way(g)[k]
      BY <1>1, <1>2
    <2> HIDE DEF g
    <2> QED BY <2>2, <2>3, <2>4
  <1>4. \A k \in Nat : At[k] = g[k]
    BY <1>3
  <1> QED BY <1>4

\* No live coroutine has finished if the search finds none; what it finds is one.
LEMMA SearchFinds ==
  ASSUME CoroAssumption, CoroTypes, NEW n \in Nat, NEW l \in [1..n -> Coros], IsList(n, l)
  PROVE  /\ FirstFinished = {} => Live \cap is_finished = {}
         /\ \A c \in FirstFinished : c \in is_finished /\ \E k \in 1..n : l[k] = c
  <1>1. n <= Cardinality(Coros)
    <2>1. l \in Injection(1..n, Coros)
      BY DEF Injection, IsInjective, IsList
    <2>2. IsFiniteSet(1..n) /\ Cardinality(1..n) = n
      BY FS_Interval
    <2> QED BY <2>1, <2>2, FS_Injection DEF CoroAssumption
  <1>2. Cardinality(Coros) \in Nat
    BY FS_CardinalityType DEF CoroAssumption
  <1>3. ASSUME NEW c \in FirstFinished PROVE c \in is_finished /\ \E k \in 1..n : l[k] = c
    <2>1. PICK k \in 0..Cardinality(Coros) : At[k] = c /\ c \in is_finished
      BY DEF FirstFinished
    <2>2. k \in Nat /\ c # NULL
      BY <1>2, <2>1 DEF CoroAssumption, CoroTypes
    <2>3. k < n /\ l[k + 1] = c
      BY <2>1, <2>2, AtList
    <2> QED BY <2>1, <2>2, <2>3
  <1>4. ASSUME NEW c \in Live \cap is_finished PROVE FirstFinished # {}
    <2> DEFINE S == {k \in Nat : At[k] \in is_finished}
    <2>1. PICK m \in 1..n : l[m] = c
      BY <1>4 DEF IsList
    <2>2. m - 1 \in S
      <3>1. m - 1 \in Nat /\ m - 1 < n
        BY <2>1
      <3>2. At[m - 1] = c
        BY <2>1, <3>1, AtList
      <3> QED BY <1>4, <3>1, <3>2
    <2>3. PICK k \in S : \A j \in S : k <= j
      BY <2>2, LeastOf
    <2>4. k \in Nat /\ At[k] \in is_finished
      BY <2>3
    <2>5. k < n
      BY <2>4, AtList DEF CoroAssumption, CoroTypes
    <2>6. k \in 0..Cardinality(Coros)
      BY <1>1, <1>2, <2>4, <2>5
    <2>7. \A j \in 0..(k - 1) : At[j] \notin is_finished
      BY <2>3, <2>4
    <2>8. At[k] \in FirstFinished
      BY <2>4, <2>6, <2>7 DEF FirstFinished
    <2> QED BY <2>8
  <1> QED BY <1>3, <1>4

-----------------------------------------------------------------------------
(***************************************************************************)
(* The list under the operations                                           *)
(***************************************************************************)

\* A new coroutine is the head of the list.
LEMMA AddKeepsList ==
  ASSUME CoroAssumption, CoroTypes, Listed, NEW c \in Coros, c \notin Live, coro_list_add(c),
         Live' = Live \cup {c}
  PROVE  Listed'
  <1>0. PICK n \in Nat : \E l \in [1..n -> Coros] : IsList(n, l)
    BY DEF Listed
  <1>1. PICK l \in [1..n -> Coros] : IsList(n, l)
    BY <1>0
  <1> DEFINE m == [k \in 1..(n + 1) |-> IF k = 1 THEN c ELSE l[k - 1]]
  <1>2. m \in [1..(n + 1) -> Coros] /\ n + 1 \in Nat
    BY DEF CoroTypes
  <1>3. \A k \in 1..n : l[k] # c /\ l[k] \in Coros /\ k + 1 \in 1..(n + 1) /\ m[k + 1] = l[k]
    BY <1>1 DEF IsList
  <1>4. m[1] = c /\ 1 \in 1..(n + 1) /\ \A k \in 1..(n + 1) : k = 1 \/ k - 1 \in 1..n
    OBVIOUS
  <1>5. \A k \in 1..(n + 1) : k # 1 => m[k] = l[k - 1]
    OBVIOUS
  <1> HIDE DEF m
  <1>6. \A j, k \in 1..(n + 1) : m[j] = m[k] => j = k
    <2> SUFFICES ASSUME NEW j \in 1..(n + 1), NEW k \in 1..(n + 1), m[j] = m[k] PROVE j = k
      OBVIOUS
    <2>1. CASE j = 1 \/ k = 1
      BY <1>3, <1>4, <1>5, <2>1
    <2>2. CASE j # 1 /\ k # 1
      <3>1. l[j - 1] = l[k - 1] /\ j - 1 \in 1..n /\ k - 1 \in 1..n
        BY <1>4, <1>5, <2>2
      <3>2. j - 1 = k - 1
        BY <1>1, <3>1 DEF IsList
      <3> QED BY <3>2
    <2> QED BY <2>1, <2>2
  <1>7. \A d : d \in Live' <=> \E k \in 1..(n + 1) : m[k] = d
    BY <1>1, <1>3, <1>4, <1>5 DEF IsList
  <1>8. coro_list' = c /\ next' = [next EXCEPT ![c] = coro_list]
        /\ prev' = [d \in Coros |-> IF d = c THEN NULL ELSE IF d = coro_list THEN c ELSE prev[d]]
    BY DEF coro_list_add
  <1>9. coro_list' = m[1]
    BY <1>4, <1>8
  <1>10. \A k \in 1..(n + 1) : next'[m[k]] = IF k = n + 1 THEN NULL ELSE m[k + 1]
    <2> SUFFICES ASSUME NEW k \in 1..(n + 1)
                 PROVE  next'[m[k]] = IF k = n + 1 THEN NULL ELSE m[k + 1]
      OBVIOUS
    <2>1. CASE k = 1
      <3>1. next'[m[k]] = coro_list
        BY <1>4, <1>8, <2>1 DEF CoroTypes
      <3>2. n # 0 => 1 \in 1..n /\ m[2] = l[1]
        BY <1>3
      <3> QED BY <1>1, <2>1, <3>1, <3>2 DEF IsList
    <2>2. CASE k # 1
      <3>1. k - 1 \in 1..n /\ m[k] = l[k - 1]
        BY <1>4, <1>5, <2>2
      <3>2. next'[m[k]] = next[l[k - 1]]
        BY <1>3, <1>8, <3>1 DEF CoroTypes
      <3>3. next[l[k - 1]] = IF k - 1 = n THEN NULL ELSE l[k]
        <4>1. next[l[k - 1]] = IF k - 1 = n THEN NULL ELSE l[(k - 1) + 1]
          BY <1>1, <3>1 DEF IsList
        <4> QED BY <4>1
      <3>4. k - 1 # n => k \in 1..n /\ m[k + 1] = l[k]
        BY <1>3, <3>1
      <3> QED BY <3>1, <3>2, <3>3, <3>4
    <2> QED BY <2>1, <2>2
  <1>11. \A k \in 1..(n + 1) : prev'[m[k]] = IF k = 1 THEN NULL ELSE m[k - 1]
    <2> SUFFICES ASSUME NEW k \in 1..(n + 1)
                 PROVE  prev'[m[k]] = IF k = 1 THEN NULL ELSE m[k - 1]
      OBVIOUS
    <2>1. CASE k = 1
      BY <1>4, <1>8, <2>1
    <2>2. CASE k = 2
      <3>1. 1 \in 1..n /\ m[k] = l[1] /\ coro_list = l[1]
        BY <1>1, <1>4, <1>5, <2>2 DEF IsList
      <3>2. prev'[l[1]] = c
        BY <1>3, <1>8, <3>1
      <3> QED BY <1>4, <2>2, <3>1, <3>2
    <2>3. CASE k # 1 /\ k # 2
      <3>1. k - 1 \in 1..n /\ m[k] = l[k - 1] /\ k - 2 \in 1..n /\ m[k - 1] = l[k - 2]
        <4>1. k - 1 \in 1..(n + 1) /\ k - 1 # 1 /\ (k - 1) - 1 = k - 2
          BY <2>3
        <4> QED BY <1>4, <1>5, <2>3, <4>1
      <3>2. l[k - 1] # coro_list
        <4>1. coro_list = l[1] /\ 1 \in 1..n
          BY <1>1, <3>1 DEF IsList
        <4>2. k - 1 # 1
          BY <2>3
        <4> QED BY <1>1, <3>1, <4>1, <4>2 DEF IsList
      <3>3. prev'[m[k]] = prev[l[k - 1]]
        BY <1>3, <1>8, <3>1, <3>2
      <3>4. prev[l[k - 1]] = l[(k - 1) - 1]
        BY <1>1, <2>3, <3>1 DEF IsList
      <3> QED BY <2>3, <3>1, <3>3, <3>4
    <2> QED BY <2>1, <2>2, <2>3
  <1>12. IsList(n + 1, m)'
    BY <1>1, <1>2, <1>6, <1>7, <1>9, <1>10, <1>11 DEF IsList
  <1> QED BY <1>2, <1>12 DEF Listed

\* A coroutine taken out of the list, wherever it is.
LEMMA DeleteKeepsList ==
  ASSUME CoroAssumption, CoroTypes, Listed, NEW c \in Live, coro_list_delete(c),
         Live' = Live \ {c}
  PROVE  Listed'
  <1>0. PICK n \in Nat : \E l \in [1..n -> Coros] : IsList(n, l)
    BY DEF Listed
  <1>1. PICK l \in [1..n -> Coros] : IsList(n, l)
    BY <1>0
  <1>2. PICK p \in 1..n : l[p] = c
    BY <1>1 DEF IsList
  <1> DEFINE m == [k \in 1..(n - 1) |-> IF k < p THEN l[k] ELSE l[k + 1]]
             Old(k) == IF k < p THEN k ELSE k + 1
  <1>3. m \in [1..(n - 1) -> Coros] /\ n - 1 \in Nat
    BY <1>2
  <1>4. \A k \in 1..(n - 1) : Old(k) \in 1..n /\ Old(k) # p /\ m[k] = l[Old(k)]
    BY <1>2
  <1>5. \A k \in 1..n : k # p => \E j \in 1..(n - 1) : k = Old(j)
    <2> SUFFICES ASSUME NEW k \in 1..n, k # p PROVE \E j \in 1..(n - 1) : k = Old(j)
      OBVIOUS
    <2>1. CASE k < p
      <3>1. k \in 1..(n - 1) /\ k = Old(k)
        BY <1>2, <2>1
      <3> QED BY <3>1
    <2>2. CASE ~ (k < p)
      <3>1. k - 1 \in 1..(n - 1) /\ k = Old(k - 1)
        BY <1>2, <2>2
      <3> QED BY <3>1
    <2> QED BY <2>1, <2>2
  <1> HIDE DEF m
  <1>6. next[c] = IF p = n THEN NULL ELSE l[p + 1]
    BY <1>1, <1>2 DEF IsList
  <1>7. prev[c] = IF p = 1 THEN NULL ELSE l[p - 1]
    BY <1>1, <1>2 DEF IsList
  <1>8. /\ next' = [d \in Coros |-> IF d = prev[c] THEN next[c] ELSE next[d]]
        /\ prev' = [d \in Coros |-> IF d = next[c] THEN prev[c] ELSE prev[d]]
        /\ coro_list' = IF prev[c] = NULL THEN next[c] ELSE coro_list
    BY DEF coro_list_delete
  <1>9. \A j, k \in 1..n : l[j] = l[k] => j = k
    BY <1>1 DEF IsList
  <1>10. \A k \in 1..n : l[k] \in Coros /\ l[k] # NULL
    BY DEF CoroAssumption
  <1>11. \A j, k \in 1..(n - 1) : m[j] = m[k] => j = k
    <2> SUFFICES ASSUME NEW j \in 1..(n - 1), NEW k \in 1..(n - 1), m[j] = m[k] PROVE j = k
      OBVIOUS
    <2>1. Old(j) = Old(k)
      BY <1>4, <1>9
    <2> QED BY <1>2, <2>1
  <1>12. \A d : d \in Live' <=> \E k \in 1..(n - 1) : m[k] = d
    <2>1. ASSUME NEW d \in Live' PROVE \E k \in 1..(n - 1) : m[k] = d
      <3>1. PICK k \in 1..n : l[k] = d /\ k # p
        BY <1>1, <1>2, <2>1 DEF IsList
      <3>2. PICK j \in 1..(n - 1) : k = Old(j)
        BY <1>5, <3>1
      <3> QED BY <1>4, <3>1, <3>2
    <2>2. ASSUME NEW k \in 1..(n - 1) PROVE m[k] \in Live'
      <3>1. m[k] = l[Old(k)] /\ Old(k) \in 1..n /\ l[Old(k)] # c
        BY <1>2, <1>4, <1>9
      <3> QED BY <1>1, <3>1 DEF IsList
    <2> QED BY <2>1, <2>2
  <1>13. coro_list' = IF n - 1 = 0 THEN NULL ELSE m[1]
    <2>1. CASE p = 1
      <3>1. coro_list' = IF n = 1 THEN NULL ELSE l[2]
        BY <1>6, <1>7, <1>8, <2>1
      <3>2. n # 1 => 1 \in 1..(n - 1) /\ Old(1) = 2
        BY <2>1
      <3> QED BY <1>4, <3>1, <3>2
    <2>2. CASE p # 1
      <3>1. p - 1 \in 1..n /\ 1 \in 1..(n - 1) /\ Old(1) = 1 /\ n # 0
        BY <1>2, <2>2
      <3>2. prev[c] # NULL
        BY <1>7, <1>10, <2>2, <3>1
      <3>3. coro_list' = l[1]
        BY <1>1, <1>8, <3>1, <3>2 DEF IsList
      <3> QED BY <1>4, <3>1, <3>3
    <2> QED BY <2>1, <2>2
  <1>14. \A k \in 1..(n - 1) : next'[m[k]] = IF k = n - 1 THEN NULL ELSE m[k + 1]
    <2> SUFFICES ASSUME NEW k \in 1..(n - 1)
                 PROVE  next'[m[k]] = IF k = n - 1 THEN NULL ELSE m[k + 1]
      OBVIOUS
    <2>1. CASE k = p - 1
      <3>1. m[k] = l[p - 1] /\ p - 1 \in 1..n /\ prev[c] = l[p - 1]
        BY <1>2, <1>4, <1>7, <2>1
      <3>2. next'[m[k]] = next[c]
        BY <1>8, <1>10, <3>1
      <3>3. k # n - 1 => k + 1 \in 1..(n - 1) /\ Old(k + 1) = p + 1
        BY <1>2, <2>1
      <3> QED BY <1>2, <1>4, <1>6, <2>1, <3>2, <3>3
    <2>2. CASE k # p - 1
      <3>1. Old(k) \in 1..n /\ m[k] = l[Old(k)] /\ l[Old(k)] # prev[c]
        <4>1. Old(k) \in 1..n /\ m[k] = l[Old(k)] /\ Old(k) # p - 1
          BY <1>2, <1>4, <2>2
        <4>2. p # 1 => p - 1 \in 1..n
          BY <1>2
        <4> QED BY <1>7, <1>9, <1>10, <4>1, <4>2
      <3>2. next'[m[k]] = next[l[Old(k)]]
        BY <1>8, <1>10, <3>1
      <3>3. next[l[Old(k)]] = IF Old(k) = n THEN NULL ELSE l[Old(k) + 1]
        BY <1>1, <3>1 DEF IsList
      <3>4. (Old(k) = n <=> k = n - 1) /\ (k # n - 1 => k + 1 \in 1..(n - 1) /\ Old(k + 1) = Old(k) + 1)
        BY <1>2, <2>2
      <3> QED BY <1>4, <3>2, <3>3, <3>4
    <2> QED BY <2>1, <2>2
  <1>15. \A k \in 1..(n - 1) : prev'[m[k]] = IF k = 1 THEN NULL ELSE m[k - 1]
    <2> SUFFICES ASSUME NEW k \in 1..(n - 1)
                 PROVE  prev'[m[k]] = IF k = 1 THEN NULL ELSE m[k - 1]
      OBVIOUS
    <2>1. CASE k = p
      <3>1. m[k] = l[p + 1] /\ p + 1 \in 1..n /\ next[c] = l[p + 1]
        BY <1>2, <1>4, <1>6, <2>1
      <3>2. prev'[m[k]] = prev[c]
        BY <1>8, <1>10, <3>1
      <3>3. k # 1 => k - 1 \in 1..(n - 1) /\ Old(k - 1) = p - 1
        BY <1>2, <2>1
      <3> QED BY <1>2, <1>4, <1>7, <2>1, <3>2, <3>3
    <2>2. CASE k # p
      <3>1. Old(k) \in 1..n /\ m[k] = l[Old(k)] /\ l[Old(k)] # next[c]
        <4>1. Old(k) \in 1..n /\ m[k] = l[Old(k)] /\ Old(k) # p + 1
          BY <1>2, <1>4, <2>2
        <4>2. p # n => p + 1 \in 1..n
          BY <1>2
        <4> QED BY <1>6, <1>9, <1>10, <4>1, <4>2
      <3>2. prev'[m[k]] = prev[l[Old(k)]]
        BY <1>8, <1>10, <3>1
      <3>3. prev[l[Old(k)]] = IF Old(k) = 1 THEN NULL ELSE l[Old(k) - 1]
        BY <1>1, <3>1 DEF IsList
      <3>4. (Old(k) = 1 <=> k = 1) /\ (k # 1 => k - 1 \in 1..(n - 1) /\ Old(k - 1) = Old(k) - 1)
        BY <1>2, <2>2
      <3> QED BY <1>4, <3>2, <3>3, <3>4
    <2> QED BY <2>1, <2>2
  <1>16. IsList(n - 1, m)'
    BY <1>1, <1>3, <1>11, <1>12, <1>13, <1>14, <1>15 DEF IsList
  <1> QED BY <1>3, <1>16 DEF Listed

\* The list is that of the live coroutines, also after a step that moves nothing.
LEMMA SameList ==
  ASSUME Listed, UNCHANGED <<coro_list, next, prev>>, Live' = Live
  PROVE  Listed'
  <1>1. PICK n \in Nat : \E l \in [1..n -> Coros] : IsList(n, l)
    BY DEF Listed
  <1>2. PICK l \in [1..n -> Coros] : IsList(n, l)
    BY <1>1
  <1>3. IsList(n, l)'
    BY <1>2 DEF IsList
  <1> QED BY <1>3 DEF Listed

\* The fields of coroutines that are not in the list are not in its way.
LEMMA ClearKeepsList ==
  ASSUME CoroTypes, Listed, NEW c \in Coros, c \notin Live, Live' = Live,
         coro_list' = coro_list, next' = [next EXCEPT ![c] = NULL],
         prev' = [prev EXCEPT ![c] = NULL]
  PROVE  Listed'
  <1>0. PICK n \in Nat : \E l \in [1..n -> Coros] : IsList(n, l)
    BY DEF Listed
  <1>1. PICK l \in [1..n -> Coros] : IsList(n, l)
    BY <1>0
  <1>2. \A k \in 1..n : next'[l[k]] = next[l[k]] /\ prev'[l[k]] = prev[l[k]]
    BY <1>1 DEF IsList, CoroTypes
  <1>3. IsList(n, l)'
    BY <1>1, <1>2 DEF IsList
  <1> QED BY <1>3 DEF Listed

-----------------------------------------------------------------------------
(***************************************************************************)
(* The steps                                                               *)
(***************************************************************************)

LEMMA InitCoro == CoroAssumption /\ Init => CoroInv
  <1> SUFFICES ASSUME CoroAssumption, Init PROVE CoroInv
    OBVIOUS
  <1>1. CoroTypes
    BY DEF Init, CoroTypes
  <1>2. Live = {} /\ is_finished = {} /\ returned = {} /\ ctx = {}
    BY DEF Init, Live
  <1>3. OneRuns /\ FinishedCaught
    <2>1. coro_this_ptr \notin Coros
      BY DEF Init, CoroAssumption
    <2> QED BY <1>2, <2>1 DEF OneRuns, FinishedCaught
  <1>4. Listed
    <2> DEFINE l == [k \in 1..0 |-> coro_sched]
    <2>1. l \in [1..0 -> Coros] /\ IsList(0, l)
      BY DEF Init, IsList, Live
    <2> QED BY <2>1 DEF Listed
  <1> QED BY <1>1, <1>3, <1>4 DEF CoroInv

\* A switch goes to another coroutine, at a context that is saved.
Switches ==
  coro_this_ptr' # coro_this_ptr =>
    /\ coro_this_ptr' \in ctx
    /\ coro_this_ptr' \in (allocated \ is_finished) \cup {coro_sched}

LEMMA NewStep ==
  ASSUME CoroAssumption, CoroInv, NEW c \in Coros, coro_new(c)
  PROVE  CoroInv' /\ Switches
  <1> USE DEF CoroInv
  <1>1. /\ c \notin allocated /\ allocated' = allocated \cup {c}
        /\ is_finished' = is_finished \ {c} /\ ctx' = ctx \cup {c}
        /\ UNCHANGED <<coro_this_ptr, is_sched_waiting, returned>>
        /\ coro_list_add(c)
    BY DEF coro_new
  <1>2. c \notin Live /\ Live' = Live \cup {c} /\ c \notin is_finished /\ c \notin returned
    BY <1>1 DEF Live, CoroTypes
  <1>3. Listed'
    BY <1>1, <1>2, AddKeepsList
  <1>4. CoroTypes'
    <2>1. coro_list \in Coros \cup {NULL}
      <3>0. PICK n \in Nat : \E l \in [1..n -> Coros] : IsList(n, l)
        BY DEF Listed
      <3>1. PICK l \in [1..n -> Coros] : IsList(n, l)
        BY <3>0
      <3> QED BY <3>1 DEF IsList
    <2>2. next' \in [Coros -> Coros \cup {NULL}] /\ prev' \in [Coros -> Coros \cup {NULL}]
      BY <1>1, <2>1 DEF coro_list_add, CoroTypes
    <2> QED BY <1>1, <1>2, <2>2 DEF CoroTypes
  <1>5. OneRuns'
    BY <1>1, <1>2 DEF OneRuns, CoroTypes
  <1>6. FinishedCaught'
    BY <1>1, <1>2 DEF FinishedCaught
  <1> QED BY <1>1, <1>3, <1>4, <1>5, <1>6 DEF Switches

\* Where a live coroutine's next leads.
LEMMA NextLive ==
  ASSUME CoroAssumption, CoroInv, NEW c \in Live, next[c] # NULL
  PROVE  next[c] \in Live \ {c}
  <1>0. PICK n \in Nat : \E l \in [1..n -> Coros] : IsList(n, l)
    BY DEF CoroInv, Listed
  <1>1. PICK l \in [1..n -> Coros] : IsList(n, l)
    BY <1>0
  <1>2. PICK k \in 1..n : l[k] = c
    BY <1>1 DEF IsList
  <1>3. k + 1 \in 1..n /\ next[c] = l[k + 1]
    BY <1>1, <1>2 DEF IsList
  <1>4. l[k + 1] # l[k]
    BY <1>1, <1>3 DEF IsList
  <1> QED BY <1>1, <1>2, <1>3, <1>4 DEF IsList

LEMMA YieldStep ==
  ASSUME CoroAssumption, CoroInv, NEW c \in Coros, coro_yield(c)
  PROVE  CoroInv' /\ Switches
  <1> USE DEF CoroInv
  <1>1. /\ coro_this_ptr = c /\ coro_this_ptr' = NextAfter(c)
        /\ ctx' = (ctx \cup {c}) \ {NextAfter(c)}
        /\ UNCHANGED <<coro_list, next, prev, allocated, is_finished, is_sched_waiting, returned>>
    BY DEF coro_yield, coro_yield_to
  <1>2. Live' = Live /\ c \in Live /\ is_sched_waiting /\ coro_sched \in ctx
    BY <1>1 DEF Live, OneRuns
  <1>3. Live \cap is_finished = {}
    BY <1>1 DEF FinishedCaught
  <1>4. NextAfter(c) = coro_sched \/ NextAfter(c) \in Live \ {c}
    BY <1>2, NextLive DEF NextAfter
  <1>5. NextAfter(c) \in ctx /\ NextAfter(c) # c
    BY <1>1, <1>2, <1>3, <1>4 DEF OneRuns, CoroAssumption, Live, CoroTypes
  <1>6. Listed'
    BY <1>1, <1>2, SameList
  <1> HIDE DEF NextAfter
  <1>7. CoroTypes'
    BY <1>1, <1>2, <1>4 DEF CoroTypes, Live
  <1>8. OneRuns'
    BY <1>1, <1>2, <1>3, <1>4, <1>5 DEF OneRuns, CoroAssumption, CoroTypes
  <1>9. FinishedCaught' /\ Switches
    BY <1>1, <1>2, <1>3, <1>4, <1>5 DEF FinishedCaught, Switches, Live
  <1> QED BY <1>6, <1>7, <1>8, <1>9

LEMMA FinishStep ==
  ASSUME CoroAssumption, CoroInv, NEW c \in Coros, coro_finish(c)
  PROVE  CoroInv' /\ Switches
  <1> USE DEF CoroInv
  <1>1. /\ coro_this_ptr = c /\ coro_this_ptr' = coro_sched /\ ctx' = ctx \ {coro_sched}
        /\ is_finished' = is_finished \cup {c}
        /\ UNCHANGED <<coro_list, next, prev, allocated, is_sched_waiting, returned>>
    BY DEF coro_finish, FinishToScheduler
  <1>2. Live' = Live /\ c \in Live /\ coro_sched \in ctx
    BY <1>1 DEF Live, OneRuns
  <1>3. Listed'
    BY <1>1, <1>2, SameList
  <1>4. CoroTypes'
    BY <1>1, <1>2 DEF CoroTypes, Live
  <1>5. OneRuns' /\ FinishedCaught' /\ Switches
    BY <1>1, <1>2 DEF OneRuns, FinishedCaught, Switches, CoroAssumption, CoroTypes
  <1> QED BY <1>3, <1>4, <1>5

LEMMA WaitStep ==
  ASSUME CoroAssumption, CoroInv, coro_sched_wait
  PROVE  CoroInv' /\ Switches
  <1> USE DEF CoroInv
  <1>0. PICK n \in Nat : \E l \in [1..n -> Coros] : IsList(n, l)
    BY DEF Listed
  <1>1. PICK l \in [1..n -> Coros] : IsList(n, l)
    BY <1>0
  <1>2. coro_this_ptr = coro_sched /\ UNCHANGED <<allocated, is_finished>>
    BY DEF coro_sched_wait
  <1>3. CASE /\ is_sched_waiting' = FALSE
             /\ UNCHANGED <<coro_list, next, prev, coro_this_ptr, ctx, returned>>
    <2>1. Live' = Live
      BY <1>2, <1>3 DEF Live
    <2>2. Listed'
      BY <1>3, <2>1, SameList
    <2> QED BY <1>2, <1>3, <2>1, <2>2
            DEF CoroTypes, OneRuns, FinishedCaught, Switches, CoroAssumption
  <1>4. ASSUME NEW c \in FirstFinished, coro_list_delete(c), returned' = returned \cup {c},
               is_sched_waiting' = FALSE, UNCHANGED <<coro_this_ptr, ctx>>
        PROVE  CoroInv' /\ Switches
    <2>1. c \in is_finished /\ c \in Live
      <3>1. c \in is_finished /\ \E k \in 1..n : l[k] = c
        BY <1>1, <1>4, SearchFinds
      <3> QED BY <1>1, <3>1 DEF IsList
    <2>2. Live' = Live \ {c}
      BY <1>2, <1>4 DEF Live
    <2>3. Listed'
      BY <1>4, <2>1, <2>2, DeleteKeepsList
    <2>4. CoroTypes'
      BY <1>2, <1>4, <2>1 DEF CoroTypes, coro_list_delete, Live
    <2>5. OneRuns' /\ FinishedCaught' /\ Switches
      BY <1>2, <1>4, <2>1, <2>2
         DEF OneRuns, FinishedCaught, Switches, CoroAssumption, CoroTypes
    <2> QED BY <2>3, <2>4, <2>5
  <1>5. CASE /\ coro_list # NULL /\ FirstFinished = {} /\ is_sched_waiting' = TRUE
             /\ coro_yield_to(coro_sched, coro_list)
             /\ UNCHANGED <<coro_list, next, prev, returned>>
    <2>1. coro_list \in Live /\ Live \cap is_finished = {} /\ Live' = Live
      <3>1. coro_list = l[1] /\ 1 \in 1..n
        BY <1>1, <1>5 DEF IsList
      <3> QED BY <1>1, <1>2, <1>5, <3>1, SearchFinds DEF IsList, Live
    <2>2. Listed'
      BY <1>5, <2>1, SameList
    <2>3. ctx' = (ctx \cup {coro_sched}) \ {coro_list} /\ coro_this_ptr' = coro_list
      BY <1>5 DEF coro_yield_to
    <2>4. coro_list \in ctx
      BY <1>2, <2>1 DEF OneRuns, CoroAssumption, Live, CoroTypes
    <2>5. CoroTypes'
      BY <1>2, <1>5, <2>1, <2>3 DEF CoroTypes, Live
    <2>6. OneRuns' /\ FinishedCaught' /\ Switches
      BY <1>2, <1>5, <2>1, <2>3, <2>4
         DEF OneRuns, FinishedCaught, Switches, CoroAssumption, CoroTypes, Live
    <2> QED BY <2>2, <2>5, <2>6
  <1> QED BY <1>3, <1>4, <1>5 DEF coro_sched_wait

LEMMA DeleteStep ==
  ASSUME CoroAssumption, CoroInv, NEW c \in Coros, coro_delete(c)
  PROVE  CoroInv' /\ Switches
  <1> USE DEF CoroInv
  <1>1. /\ coro_this_ptr = coro_sched /\ c \in returned
        /\ allocated' = allocated \ {c} /\ returned' = returned \ {c}
        /\ is_finished' = is_finished \ {c}
        /\ next' = [next EXCEPT ![c] = NULL] /\ prev' = [prev EXCEPT ![c] = NULL]
        /\ UNCHANGED <<coro_list, coro_this_ptr, is_sched_waiting, ctx>>
    BY DEF coro_delete
  <1>2. c \notin Live /\ Live' = Live
    BY <1>1 DEF Live
  <1>3. Listed'
    BY <1>1, <1>2, ClearKeepsList
  <1>4. CoroTypes'
    BY <1>1 DEF CoroTypes
  <1>5. OneRuns' /\ FinishedCaught' /\ Switches
    BY <1>1, <1>2 DEF OneRuns, FinishedCaught, Switches, CoroAssumption, CoroTypes
  <1> QED BY <1>3, <1>4, <1>5

LEMMA NextCoro == CoroAssumption /\ CoroInv /\ [Next]_vars => CoroInv' /\ Switches
  <1> SUFFICES ASSUME CoroAssumption, CoroInv, [Next]_vars PROVE CoroInv' /\ Switches
    OBVIOUS
  <1>1. CASE UNCHANGED vars
    <2>1. Live' = Live
      BY <1>1 DEF Live
    <2>2. Listed'
      BY <1>1, <2>1, SameList DEF CoroInv
    <2> QED BY <1>1, <2>1, <2>2
            DEF CoroInv, CoroTypes, OneRuns, FinishedCaught, Switches
  <1>2. CASE Next
    BY <1>2, NewStep, YieldStep, FinishStep, WaitStep, DeleteStep DEF Next
  <1> QED BY <1>1, <1>2

\* The way through the list meets every live coroutine, and no other.
LEMMA ListedExact ==
  ASSUME CoroAssumption, CoroInv
  PROVE  ListExact
  <1>0. PICK n \in Nat : \E l \in [1..n -> Coros] : IsList(n, l)
    BY DEF CoroInv, Listed
  <1>1. PICK l \in [1..n -> Coros] : IsList(n, l)
    BY <1>0
  <1>2. Cardinality(Live) = n
    <2>1. l \in [1..n -> Live]
      BY <1>1 DEF IsList
    <2>2. l \in Bijection(1..n, Live)
      BY <1>1, <2>1 DEF Bijection, Injection, IsInjective, Surjection, IsList
    <2>3. IsFiniteSet(1..n) /\ Cardinality(1..n) = n
      BY FS_Interval
    <2> QED BY <2>2, <2>3, FS_Bijection DEF ExistsBijection
  <1>3. \A k \in Nat : At[k] = IF k < n THEN l[k + 1] ELSE NULL
    BY <1>1, AtList
  <1>4. {At[k] : k \in 0..n} = Live \cup {NULL}
    <2>1. ASSUME NEW k \in 0..n PROVE At[k] \in Live \cup {NULL}
      BY <1>1, <1>3 DEF IsList
    <2>2. ASSUME NEW c \in Live PROVE \E k \in 0..n : At[k] = c
      <3>1. PICK k \in 1..n : l[k] = c
        BY <1>1 DEF IsList
      <3>2. k - 1 \in 0..n /\ k - 1 \in Nat /\ k - 1 < n
        BY <3>1
      <3>3. At[k - 1] = c
        BY <1>3, <3>1, <3>2
      <3> QED BY <3>2, <3>3
    <2>3. n \in 0..n /\ At[n] = NULL
      BY <1>3
    <2> QED BY <2>1, <2>2, <2>3
  <1>5. coro_list # NULL => prev[coro_list] = NULL
    BY <1>1 DEF IsList
  <1>6. ASSUME NEW c \in Live, next[c] # NULL PROVE prev[next[c]] = c
    <2>1. PICK k \in 1..n : l[k] = c
      BY <1>1 DEF IsList
    <2>2. k + 1 \in 1..n /\ next[c] = l[k + 1]
      BY <1>1, <1>6, <2>1 DEF IsList
    <2>3. prev[l[k + 1]] = l[(k + 1) - 1]
      BY <1>1, <2>1, <2>2 DEF IsList
    <2> QED BY <2>1, <2>2, <2>3
  <1> QED BY <1>2, <1>4, <1>5, <1>6 DEF ListExact

\* libcoro.c, however coroutines create others, yield and finish: the list holds the
\* live ones and leads back, one context runs and the others can be resumed, and
\* nobody yields to a coroutine that has finished.
THEOREM LibraryInvariants ==
  CoroAssumption => (Spec => [](ListExact /\ OneRuns /\ FinishedCaught))
  <1> SUFFICES ASSUME CoroAssumption PROVE Spec => [](ListExact /\ OneRuns /\ FinishedCaught)
    OBVIOUS
  <1>1. CoroInv /\ [Next]_vars => CoroInv'
    BY NextCoro
  <1>2. CoroInv => ListExact /\ OneRuns /\ FinishedCaught
    BY ListedExact DEF CoroInv
  <1> QED BY InitCoro, <1>1, <1>2, PTL DEF Spec

\* libcoro.h: each switch goes to a coroutine that exists and has not finished, at a
\* context that was saved and not used since.
THEOREM LibrarySwitches == CoroAssumption => (Spec => SwitchSafe)
  <1> SUFFICES ASSUME CoroAssumption PROVE Spec => SwitchSafe
    OBVIOUS
  <1>1. CoroInv /\ [Next]_vars => CoroInv'
    BY NextCoro
  <1>2. CoroInv /\ [Next]_vars => [coro_this_ptr' # coro_this_ptr =>
       /\ coro_this_ptr' \in ctx
       /\ coro_this_ptr' \in (allocated \ is_finished) \cup {coro_sched}]_vars
    BY NextCoro DEF Switches
  <1> QED BY InitCoro, <1>1, <1>2, PTL DEF Spec, SwitchSafe
=============================================================================
