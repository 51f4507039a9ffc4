-------------------------- MODULE FileSorterProofs --------------------------
(***************************************************************************)
(* Proofs about the file sorter of 1/solution.c, for any number of         *)
(* coroutines and files and any contents: the files are sorted once each,  *)
(* yields in the middle of the sort do no harm, and the merge is right.    *)
(***************************************************************************)
EXTENDS FileSorter, TLAPS, FiniteSetTheorems, SequenceTheorems, FunctionTheorems

CP == INSTANCE CoroProofs

USE DEF vars, coroVars, sortVars, mergeVars

-----------------------------------------------------------------------------
(***************************************************************************)
(* Arrays                                                                  *)
(***************************************************************************)

\* Named, since the provers do better with Seq out of sight.
Arrays == Seq(Int)

LEMMA ArrayBasics ==
  ASSUME NEW s \in Arrays
  PROVE  /\ Len(s) \in Nat /\ s \in [1..Len(s) -> Int]
         /\ \A k \in 1..Len(s) : s[k] \in Int
  BY LenProperties, ElementOfSeq DEF Arrays

\* To exchange two numbers, one with itself included, loses none.
LEMMA ExchangeKeeps ==
  ASSUME NEW s \in Arrays, NEW a \in Nat, NEW b \in Nat, a < Len(s), b < Len(s)
  PROVE  /\ Exchanged(s, a, b) \in Arrays
         /\ Len(Exchanged(s, a, b)) = Len(s)
         /\ \A k \in 1..Len(s) : Exchanged(s, a, b)[k] = IF k = b + 1 THEN s[a + 1]
                                                         ELSE IF k = a + 1 THEN s[b + 1]
                                                         ELSE s[k]
         /\ \A v : Count(Exchanged(s, a, b), v) = Count(s, v)
  <1> DEFINE t == Exchanged(s, a, b)
  <1>1. PICK n \in Nat : n = Len(s) /\ s \in [1..n -> Int]
    BY ArrayBasics
  <1>2. a + 1 \in 1..n /\ b + 1 \in 1..n
    BY <1>1
  <1>3. /\ t \in [1..n -> Int]
        /\ \A k \in 1..n : t[k] = IF k = b + 1 THEN s[a + 1]
                                  ELSE IF k = a + 1 THEN s[b + 1] ELSE s[k]
    BY <1>1, <1>2 DEF Exchanged
  <1> HIDE DEF t
  <1>4. t \in Arrays
    BY <1>3, SeqDef DEF Arrays
  <1>5. Len(t) = n
    BY <1>3, <1>4, LenProperties DEF Arrays
  <1>6. ASSUME NEW v PROVE Count(t, v) = Count(s, v)
    <2> DEFINE S == {k \in 1..n : s[k] = v}
               T == {k \in 1..n : t[k] = v}
               Other(k) == IF k = b + 1 THEN a + 1 ELSE IF k = a + 1 THEN b + 1 ELSE k
               f == [k \in S |-> Other(k)]
    <2>1. \A k \in 1..n : Other(k) \in 1..n /\ t[Other(k)] = s[k] /\ s[Other(k)] = t[k]
                          /\ Other(Other(k)) = k
      <3> TAKE k \in 1..n
      <3>1. CASE k = b + 1
        BY <1>2, <1>3, <3>1
      <3>2. CASE k # b + 1 /\ k = a + 1
        BY <1>2, <1>3, <3>2
      <3>3. CASE k # b + 1 /\ k # a + 1
        BY <1>2, <1>3, <3>3
      <3> QED BY <3>1, <3>2, <3>3
    <2>2. IsFiniteSet(S)
      <3>1. IsFiniteSet(1..n)
        BY FS_Interval
      <3> QED BY <3>1, FS_Subset
    <2> HIDE DEF Other
    <2>3. f \in [S -> T]
      BY <2>1
    <2>4. \A j, k \in S : f[j] = f[k] => j = k
      BY <2>1
    <2>5. \A y \in T : \E x \in S : f[x] = y
      BY <2>1
    <2>6. f \in Bijection(S, T)
      BY <2>3, <2>4, <2>5, Fun_IsBij
    <2> HIDE DEF f
    <2>7. ExistsBijection(S, T)
      BY <2>6 DEF ExistsBijection
    <2>8. Cardinality(T) = Cardinality(S)
      BY <2>2, <2>7, FS_Bijection
    <2> QED BY <1>1, <1>5, <2>8 DEF Count
  <1> QED BY <1>1, <1>3, <1>4, <1>5, <1>6 DEF t

-----------------------------------------------------------------------------
(***************************************************************************)
(* A sort half done                                                        *)
(***************************************************************************)

\* What calls may hold.
CallLists == Seq(Nat \X Nat)

InCall(q, j, k) == \E m \in 1..Len(q) : q[m][1] < j /\ k <= q[m][1] + q[m][2]
InLoop(l, j, k) == l # NULL /\ l.first < j /\ k <= l.first + l.count

\* What is out of order is inside of one pending call or of the partition under way.
Ordered(n, q, l) ==
  \A j, k \in 1..Len(n) : j < k => n[j] <= n[k] \/ InCall(q, j, k) \/ InLoop(l, j, k)

\* Pending calls and the partition are apart, from left to right.
Apart(n, q, l) ==
  /\ \A m \in 1..Len(q) : q[m][2] >= 2 /\ q[m][1] + q[m][2] <= Len(n)
  /\ \A m1, m2 \in 1..Len(q) : m1 < m2 => q[m1][1] + q[m1][2] <= q[m2][1]
  /\ l # NULL => \A m \in 1..Len(q) : l.first + l.count <= q[m][1]

\* A partition of the e numbers behind the first f, of which it has seen a and found b
\* at most its pivot p.
SplitAt(s, n, f, e, a, b, p) ==
  /\ n \in Nat /\ f \in Nat /\ e \in Nat /\ a \in Nat /\ b \in Nat /\ p \in Int
  /\ s \in [1..n -> Int]
  /\ e >= 2 /\ f + e <= n /\ b <= a /\ a <= e
  /\ \A k \in 1..a : s[f + k] <= p <=> k <= b
  /\ a < e => s[f + e] = p
  /\ a = e => b >= 1 /\ s[f + b] = p

Split(s, l) ==
  l # NULL => SplitAt(s, Len(s), l.first, l.count, l.i, l.pivot_index, l.pivot_value)

Halfway(n, q, l) == Ordered(n, q, l) /\ Apart(n, q, l) /\ Split(n, l)

LEMMA CallBounds ==
  ASSUME NEW q \in CallLists
  PROVE  Len(q) \in Nat /\ \A m \in 1..Len(q) : q[m][1] \in Nat /\ q[m][2] \in Nat
  <1>1. Len(q) \in Nat /\ \A m \in 1..Len(q) : q[m] \in Nat \X Nat
    BY LenProperties, ElementOfSeq DEF CallLists
  <1> QED BY <1>1

\* Numbers exchanged inside of the partition stay on their side of all others.
LEMMA OrderInside ==
  ASSUME NEW s \in Arrays, NEW t \in Arrays, NEW q \in CallLists, NEW l \in Partitions,
         Ordered(s, q, l), Apart(s, q, l), l.first + l.count <= Len(s),
         Len(t) = Len(s),
         \A k \in 1..Len(s) : t[k] = s[k] \/
           (/\ k \in (l.first + 1)..(l.first + l.count)
            /\ \E m \in (l.first + 1)..(l.first + l.count) : t[k] = s[m])
  PROVE  Ordered(t, q, l)
  <1>a. Len(s) \in Nat /\ l.first \in Nat /\ l.first + l.count \in Nat
    BY ArrayBasics DEF Partitions
  <1>b. PICK n \in Nat : n = Len(s)
    BY <1>a
  <1>c. PICK f \in Nat : f = l.first
    BY <1>a
  <1>d. PICK e \in Nat : e = l.first + l.count
    BY <1>a
  <1>1. n = Len(s) /\ f = l.first /\ e = l.first + l.count /\ e <= n
    BY <1>b, <1>c, <1>d
  <1>2. l # NULL
    BY FileSorterAssumption
  <1>3. SUFFICES ASSUME NEW j \in 1..n, NEW k \in 1..n, j < k, ~ InCall(q, j, k), ~ InLoop(l, j, k)
                 PROVE  t[j] <= t[k]
    BY <1>1 DEF Ordered
  <1>4. \A x \in 1..n : s[x] \in Int
    BY <1>1, ArrayBasics
  <1>5. ~ (j \in (f + 1)..e /\ k \in (f + 1)..e)
    BY <1>1, <1>2, <1>3 DEF InLoop
  <1>6. \A x \in (f + 1)..e : x \in 1..n
    BY <1>1
  <1>7. CASE j \in (f + 1)..e
    <2>1. t[k] = s[k] /\ e < k
      BY <1>1, <1>3, <1>5, <1>7
    <2>2. \A x \in (f + 1)..e : s[x] <= s[k]
      <3> SUFFICES ASSUME NEW x \in (f + 1)..e PROVE s[x] <= s[k]
        OBVIOUS
      <3>1. ~ InCall(q, x, k)
        BY <1>1, <1>2, CallBounds DEF InCall, Apart
      <3>2. ~ InLoop(l, x, k)
        BY <1>1, <2>1 DEF InLoop
      <3> QED BY <1>1, <1>6, <2>1, <3>1, <3>2 DEF Ordered
    <2>3. \E x \in (f + 1)..e : t[j] = s[x]
      BY <1>1, <1>3, <1>7
    <2> QED BY <2>1, <2>2, <2>3
  <1>8. CASE k \in (f + 1)..e /\ j \notin (f + 1)..e
    <2>1. t[j] = s[j] /\ j <= f
      BY <1>1, <1>3, <1>8
    <2>2. \A x \in (f + 1)..e : s[j] <= s[x]
      <3> SUFFICES ASSUME NEW x \in (f + 1)..e PROVE s[j] <= s[x]
        OBVIOUS
      <3>1. ~ InCall(q, j, x)
        BY <1>1, <1>2, <2>1, CallBounds DEF InCall, Apart
      <3>2. ~ InLoop(l, j, x)
        BY <1>1, <2>1 DEF InLoop
      <3> QED BY <1>1, <1>6, <2>1, <3>1, <3>2 DEF Ordered
    <2>3. \E x \in (f + 1)..e : t[k] = s[x]
      BY <1>1, <1>3, <1>8
    <2> QED BY <2>1, <2>2, <2>3
  <1>9. CASE k \notin (f + 1)..e /\ j \notin (f + 1)..e
    <2>1. t[j] = s[j] /\ t[k] = s[k]
      BY <1>1, <1>3, <1>9
    <2> QED BY <1>1, <1>3, <2>1 DEF Ordered
  <1> QED BY <1>7, <1>8, <1>9

\* t is s with the numbers at x and y exchanged.
Swapped(t, s, n, x, y) ==
  /\ t \in [1..n -> Int]
  /\ \A k \in 1..n : t[k] = IF k = y THEN s[x] ELSE IF k = x THEN s[y] ELSE s[k]

\* t is s but for numbers moved inside of the e numbers behind the first f.
Moved(t, s, n, f, e) ==
  \A k \in 1..n :
    t[k] = s[k] \/ (k \in (f + 1)..(f + e) /\ \E m \in (f + 1)..(f + e) : t[k] = s[m])

LEMMA SwappedInside ==
  ASSUME NEW n \in Nat, NEW f \in Nat, NEW e \in Nat, NEW a \in Nat, NEW b \in Nat,
         NEW s \in [1..n -> Int], NEW t, b <= a, a < e,
         Swapped(t, s, n, f + a + 1, f + b + 1)
  PROVE  Moved(t, s, n, f, e)
  <1>1. f + b + 1 \in (f + 1)..(f + e) /\ f + a + 1 \in (f + 1)..(f + e)
    OBVIOUS
  <1>2. SUFFICES ASSUME NEW k \in 1..n
                 PROVE  t[k] = s[k] \/ (/\ k \in (f + 1)..(f + e)
                                        /\ \E m \in (f + 1)..(f + e) : t[k] = s[m])
    BY DEF Moved
  <1>3. CASE k = f + b + 1
    BY <1>1, <1>3 DEF Swapped
  <1>4. CASE k # f + b + 1 /\ k = f + a + 1
    BY <1>1, <1>4 DEF Swapped
  <1>5. CASE k # f + b + 1 /\ k # f + a + 1
    BY <1>5 DEF Swapped
  <1> QED BY <1>3, <1>4, <1>5

LEMMA BelowSplitsNumbers ==
  ASSUME NEW n \in Nat, NEW f \in Nat, NEW e \in Nat, NEW a \in Nat, NEW b \in Nat,
         NEW p \in Int, NEW s \in [1..n -> Int], NEW t \in [1..n -> Int],
         SplitAt(s, n, f, e, a, b, p), a < e, Below(s[f + a + 1], p),
         Swapped(t, s, n, f + a + 1, f + b + 1)
  PROVE  SplitAt(t, n, f, e, a + 1, b + 1, p)
  <1>1. f + e <= n /\ b <= a /\ s[f + e] = p /\ e >= 2 /\ s[f + a + 1] <= p
    BY DEF SplitAt, Below
  <1>2. \A k \in 1..a : s[f + k] <= p <=> k <= b
    BY DEF SplitAt
  <1>2a. \A k \in 1..n : t[k] = IF k = f + b + 1 THEN s[f + a + 1]
                                ELSE IF k = f + a + 1 THEN s[f + b + 1] ELSE s[k]
    BY DEF Swapped
  <1>3. ASSUME NEW k \in 1..(a + 1) PROVE t[f + k] <= p <=> k <= b + 1
    <2>0. f + k \in 1..n
      BY <1>1
    <2>1. CASE k = b + 1
      <3>1. t[f + k] = s[f + a + 1]
        BY <1>2a, <2>0, <2>1
      <3> QED BY <1>1, <2>1, <3>1
    <2>2. CASE k # b + 1 /\ k = a + 1
      <3>1. t[f + k] = s[f + b + 1]
        BY <1>1, <1>2a, <2>0, <2>2
      <3>2. b + 1 \in 1..a /\ ~ (b + 1 <= b)
        BY <1>1, <2>2
      <3>3. ~ (s[f + (b + 1)] <= p)
        BY <1>2, <3>2
      <3>4. f + (b + 1) = f + b + 1
        OBVIOUS
      <3>5. ~ (t[f + k] <= p)
        BY <3>1, <3>3, <3>4
      <3>6. ~ (k <= b + 1)
        BY <1>1, <2>2
      <3> QED BY <3>5, <3>6
    <2>3. CASE k # b + 1 /\ k # a + 1
      <3>1. t[f + k] = s[f + k] /\ k \in 1..a
        BY <1>2a, <2>0, <2>3
      <3>2. s[f + k] <= p <=> k <= b
        BY <1>2, <3>1
      <3>3. k <= b <=> k <= b + 1
        BY <2>3
      <3> QED BY <3>1, <3>2, <3>3
    <2> QED BY <2>1, <2>2, <2>3
  <1>4. a + 1 < e => t[f + e] = p
    <2> SUFFICES ASSUME a + 1 < e PROVE t[f + e] = p
      OBVIOUS
    <2>1. f + e \in 1..n /\ f + e # f + b + 1 /\ f + e # f + a + 1
      BY <1>1
    <2> QED BY <1>1, <1>2a, <2>1
  <1>5. a + 1 = e => t[f + (b + 1)] = p
    <2> SUFFICES ASSUME a + 1 = e PROVE t[f + (b + 1)] = p
      OBVIOUS
    <2>1. f + (b + 1) \in 1..n /\ f + (b + 1) = f + b + 1 /\ f + a + 1 = f + e
      BY <1>1
    <2>2. t[f + (b + 1)] = s[f + a + 1]
      BY <1>2a, <2>1
    <2> QED BY <1>1, <2>1, <2>2
  <1>6. a + 1 \in Nat /\ b + 1 \in Nat /\ b + 1 <= a + 1 /\ a + 1 <= e /\ b + 1 >= 1
    BY <1>1
  <1> QED BY ONLY <1>1, <1>3, <1>4, <1>5, <1>6, n \in Nat, f \in Nat, e \in Nat, p \in Int,
                  t \in [1..n -> Int] DEF SplitAt

\* A number at most the pivot goes to the lower side.
LEMMA BelowSplits ==
  ASSUME NEW s, NEW n, NEW f, NEW e, NEW a, NEW b, NEW p, NEW t,
         SplitAt(s, n, f, e, a, b, p), a < e, Below(s[f + a + 1], p),
         Swapped(t, s, n, f + a + 1, f + b + 1)
  PROVE  SplitAt(t, n, f, e, a + 1, b + 1, p) /\ Moved(t, s, n, f, e)
  <1>1. /\ n \in Nat /\ f \in Nat /\ e \in Nat /\ a \in Nat /\ b \in Nat /\ p \in Int
        /\ s \in [1..n -> Int] /\ t \in [1..n -> Int] /\ b <= a
    BY DEF SplitAt, Swapped
  <1>2. SplitAt(t, n, f, e, a + 1, b + 1, p)
    BY <1>1, BelowSplitsNumbers
  <1>3. Moved(t, s, n, f, e)
    BY <1>1, SwappedInside
  <1> QED BY <1>2, <1>3

LEMMA AboveSplitsNumbers ==
  ASSUME NEW n \in Nat, NEW f \in Nat, NEW e \in Nat, NEW a \in Nat, NEW b \in Nat,
         NEW p \in Int, NEW s \in [1..n -> Int],
         SplitAt(s, n, f, e, a, b, p), a < e, ~ Below(s[f + a + 1], p)
  PROVE  SplitAt(s, n, f, e, a + 1, b, p)
  <1>1. f + e <= n /\ b <= a /\ s[f + e] = p /\ e >= 2 /\ ~ (s[f + a + 1] <= p)
    BY DEF SplitAt, Below
  <1>2. \A k \in 1..a : s[f + k] <= p <=> k <= b
    BY DEF SplitAt
  <1>3. a + 1 # e
    BY <1>1
  <1>4. ASSUME NEW k \in 1..(a + 1) PROVE s[f + k] <= p <=> k <= b
    <2>1. CASE k = a + 1
      BY <1>1, <2>1
    <2>2. CASE k # a + 1
      BY <1>2, <2>2
    <2> QED BY <2>1, <2>2
  <1>5. a + 1 \in Nat /\ b <= a + 1 /\ a + 1 <= e
    BY <1>1
  <1> QED BY ONLY <1>1, <1>3, <1>4, <1>5, n \in Nat, f \in Nat, e \in Nat, b \in Nat, p \in Int,
                  s \in [1..n -> Int] DEF SplitAt

\* A greater one stays where it is; it is not the last, which is the pivot.
LEMMA AboveSplits ==
  ASSUME NEW s, NEW n, NEW f, NEW e, NEW a, NEW b, NEW p,
         SplitAt(s, n, f, e, a, b, p), a < e, ~ Below(s[f + a + 1], p)
  PROVE  SplitAt(s, n, f, e, a + 1, b, p)
  <1>1. /\ n \in Nat /\ f \in Nat /\ e \in Nat /\ a \in Nat /\ b \in Nat /\ p \in Int
        /\ s \in [1..n -> Int]
    BY DEF SplitAt
  <1> QED BY <1>1, AboveSplitsNumbers

LEMMA IterateBelow ==
  ASSUME NEW s \in Arrays, NEW q \in CallLists, NEW l \in Partitions, NEW t,
         Halfway(s, q, l), l.i < l.count, Below(s[l.first + l.i + 1], l.pivot_value),
         t = Exchanged(s, l.first + l.i, l.first + l.pivot_index), NEW l1,
         l1 = [first |-> l.first, count |-> l.count, i |-> l.i + 1,
               pivot_index |-> l.pivot_index + 1, pivot_value |-> l.pivot_value]
  PROVE  t \in Arrays /\ l1 \in Partitions /\ Halfway(t, q, l1)
  <1>1. /\ l # NULL /\ l1 \in Partitions
        /\ l1.first = l.first /\ l1.count = l.count /\ l1.i = l.i + 1
        /\ l1.pivot_index = l.pivot_index + 1 /\ l1.pivot_value = l.pivot_value
    BY FileSorterAssumption DEF Partitions
  <1>2. l1 # NULL
    BY <1>1, FileSorterAssumption
  <1>3. SplitAt(s, Len(s), l.first, l.count, l.i, l.pivot_index, l.pivot_value)
    BY <1>1 DEF Halfway, Split
  <1>4. /\ l.first \in Nat /\ l.count \in Nat /\ l.i \in Nat /\ l.pivot_index \in Nat
        /\ l.first + l.count <= Len(s) /\ l.pivot_index <= l.i /\ Len(s) \in Nat
        /\ l.i < l.count
    BY <1>3 DEF SplitAt
  <1>5. /\ l.first + l.i \in Nat /\ l.first + l.pivot_index \in Nat
        /\ l.first + l.i < Len(s) /\ l.first + l.pivot_index < Len(s)
    BY ONLY <1>4
  <1>6. /\ t \in Arrays /\ Len(t) = Len(s)
        /\ \A k \in 1..Len(s) : t[k] = IF k = l.first + l.pivot_index + 1
                                       THEN s[l.first + l.i + 1]
                                       ELSE IF k = l.first + l.i + 1
                                            THEN s[l.first + l.pivot_index + 1] ELSE s[k]
    BY <1>5, ExchangeKeeps
  <1>7. t \in [1..Len(s) -> Int]
    BY <1>6, ArrayBasics
  <1>8. Swapped(t, s, Len(s), l.first + l.i + 1, l.first + l.pivot_index + 1)
    BY ONLY <1>6, <1>7 DEF Swapped
  <1>8a. /\ SplitAt(t, Len(s), l.first, l.count, l.i + 1, l.pivot_index + 1, l.pivot_value)
         /\ Moved(t, s, Len(s), l.first, l.count)
    BY ONLY <1>3, <1>4, <1>8, BelowSplits, Below(s[l.first + l.i + 1], l.pivot_value)
  <1>8b. \A k \in 1..Len(s) : t[k] = s[k] \/
              (/\ k \in (l.first + 1)..(l.first + l.count)
               /\ \E m \in (l.first + 1)..(l.first + l.count) : t[k] = s[m])
    BY ONLY <1>8a DEF Moved
  <1>9. Ordered(t, q, l)
    BY <1>4, <1>6, <1>8b, OrderInside DEF Halfway
  <1>10. Ordered(t, q, l1)
    BY <1>1, <1>2, <1>9 DEF Ordered, InLoop
  <1>11. Apart(t, q, l1)
    BY <1>1, <1>2, <1>6 DEF Halfway, Apart
  <1>12. Split(t, l1)
    BY <1>1, <1>6, <1>8a DEF Split
  <1> QED BY <1>1, <1>6, <1>10, <1>11, <1>12 DEF Halfway

LEMMA IterateAbove ==
  ASSUME NEW s \in Arrays, NEW q \in CallLists, NEW l \in Partitions,
         Halfway(s, q, l), l.i < l.count, ~ Below(s[l.first + l.i + 1], l.pivot_value), NEW l1,
         l1 = [first |-> l.first, count |-> l.count, i |-> l.i + 1,
               pivot_index |-> l.pivot_index, pivot_value |-> l.pivot_value]
  PROVE  l1 \in Partitions /\ Halfway(s, q, l1)
  <1>1. /\ l # NULL /\ l1 \in Partitions
        /\ l1.first = l.first /\ l1.count = l.count /\ l1.i = l.i + 1
        /\ l1.pivot_index = l.pivot_index /\ l1.pivot_value = l.pivot_value
    BY FileSorterAssumption DEF Partitions
  <1>2. l1 # NULL
    BY <1>1, FileSorterAssumption
  <1>3. SplitAt(s, Len(s), l.first, l.count, l.i, l.pivot_index, l.pivot_value)
    BY <1>1 DEF Halfway, Split
  <1>4. SplitAt(s, Len(s), l.first, l.count, l.i + 1, l.pivot_index, l.pivot_value)
    BY <1>3, AboveSplits
  <1>5. Ordered(s, q, l1) /\ Apart(s, q, l1)
    BY <1>1, <1>2 DEF Halfway, Ordered, InLoop, Apart
  <1>6. Split(s, l1)
    BY <1>1, <1>4 DEF Split
  <1> QED BY <1>1, <1>5, <1>6 DEF Halfway

-----------------------------------------------------------------------------
(***************************************************************************)
(* Calls that begin and return                                             *)
(***************************************************************************)

LEMMA CallIsList ==
  ASSUME NEW x \in Nat, NEW y \in Nat
  PROVE  Call(x, y) \in CallLists
  BY DEF Call, CallLists

LEMMA JoinedLists ==
  ASSUME NEW a \in CallLists, NEW q \in CallLists
  PROVE  /\ a \o q \in CallLists /\ Len(a \o q) = Len(a) + Len(q)
         /\ \A m \in 1..(Len(a) + Len(q)) :
              (a \o q)[m] = IF m <= Len(a) THEN a[m] ELSE q[m - Len(a)]
         /\ a \o <<>> = a
         /\ \A r \in CallLists : (a \o q) \o r = a \o (q \o r)
  <1> DEFINE S == Nat \X Nat
  <1>1. CallLists = Seq(S)
    BY DEF CallLists
  <1> HIDE DEF S
  <1>2. a \in Seq(S) /\ q \in Seq(S)
    BY <1>1
  <1>3. /\ a \o q \in Seq(S) /\ Len(a \o q) = Len(a) + Len(q)
        /\ \A m \in 1..(Len(a) + Len(q)) :
             (a \o q)[m] = IF m <= Len(a) THEN a[m] ELSE q[m - Len(a)]
    BY <1>2, ConcatProperties
  <1>4. a \o <<>> = a
    BY <1>2, ConcatEmptySeq
  <1>5. \A r \in Seq(S) : (a \o q) \o r = a \o (q \o r)
    BY <1>2, ConcatAssociative
  <1> QED BY <1>1, <1>3, <1>4, <1>5

LEMMA JoinAssociative ==
  ASSUME NEW a \in CallLists, NEW b \in CallLists, NEW q \in CallLists
  PROVE  (a \o b) \o q = a \o (b \o q)
  <1>1. \A r \in CallLists : (a \o b) \o r = a \o (b \o r)
    BY JoinedLists
  <1> QED BY <1>1

LEMMA NoCalls ==
  <<>> \in CallLists /\ Len(<<>>) = 0
  BY DEF CallLists

\* A call put before calls that lie to the right of it.
LEMMA PrependCall ==
  ASSUME NEW q \in CallLists, NEW n \in Nat, NEW x \in Nat, NEW y \in Nat, NEW s,
         Len(s) = n, Apart(s, q, NULL), x + y <= n,
         \A m \in 1..Len(q) : x + y <= q[m][1],
         NEW r, r = Call(x, y) \o q
  PROVE  /\ r \in CallLists
         /\ Apart(s, r, NULL)
         /\ \A m \in 1..Len(r) : x <= r[m][1]
         /\ \A j, k \in Nat : j < k /\ x < j /\ k <= x + y => InCall(r, j, k)
         /\ \A j, k : InCall(q, j, k) => InCall(r, j, k)
  <1>q. Len(q) \in Nat /\ \A m \in 1..Len(q) : q[m][1] \in Nat /\ q[m][2] \in Nat
    BY CallBounds
  <1>1. CASE y <= 1
    <2>1. r = q
      BY <1>1, ConcatEmptySeq DEF Call, CallLists
    <2>2. \A m \in 1..Len(q) : x <= q[m][1]
      BY <1>q
    <2>3. \A j, k \in Nat : ~ (j < k /\ x < j /\ k <= x + y)
      BY <1>1
    <2> QED BY <2>1, <2>2, <2>3
  <1>2. CASE ~ (y <= 1)
    <2> DEFINE a == << <<x, y>> >>
    <2>1. r = a \o q
      BY <1>2 DEF Call
    <2>2. a \in CallLists /\ Len(a) = 1 /\ a[1][1] = x /\ a[1][2] = y
      BY DEF CallLists
    <2> HIDE DEF a
    <2>3. /\ r \in CallLists /\ Len(r) = 1 + Len(q)
          /\ \A m \in 1..(1 + Len(q)) : r[m] = IF m <= 1 THEN a[m] ELSE q[m - 1]
      <3>1. /\ a \o q \in CallLists /\ Len(a \o q) = Len(a) + Len(q)
            /\ \A m \in 1..(Len(a) + Len(q)) :
                 (a \o q)[m] = IF m <= Len(a) THEN a[m] ELSE q[m - Len(a)]
        BY <2>2, JoinedLists
      <3> QED BY <2>1, <2>2, <3>1
    <2>4. /\ r[1][1] = x /\ r[1][2] = y
          /\ \A m \in 1..Len(q) : r[m + 1] = q[m]
          /\ \A m \in 1..Len(r) : m = 1 \/ (m - 1 \in 1..Len(q) /\ r[m] = q[m - 1])
      BY <1>q, <2>2, <2>3
    <2>5. \A m \in 1..Len(r) : r[m][2] >= 2 /\ r[m][1] + r[m][2] <= Len(s)
      <3> TAKE m \in 1..Len(r)
      <3>1. CASE m = 1
        BY <1>2, <2>4, <3>1
      <3>2. CASE m # 1
        BY <2>4, <3>2 DEF Apart
      <3> QED BY <3>1, <3>2
    <2>6. ASSUME NEW m1 \in 1..Len(r), NEW m2 \in 1..Len(r), m1 < m2
          PROVE  r[m1][1] + r[m1][2] <= r[m2][1]
      <3>1. CASE m1 = 1
        BY <1>q, <2>3, <2>4, <2>6, <3>1
      <3>2. CASE m1 # 1
        <4>1. /\ m1 - 1 \in 1..Len(q) /\ r[m1] = q[m1 - 1]
              /\ m2 - 1 \in 1..Len(q) /\ r[m2] = q[m2 - 1] /\ m1 - 1 < m2 - 1
          BY <1>q, <2>3, <2>4, <2>6, <3>2
        <4> QED BY <4>1 DEF Apart
      <3> QED BY <3>1, <3>2
    <2>7. Apart(s, r, NULL)
      BY <2>5, <2>6 DEF Apart
    <2>8. \A m \in 1..Len(r) : x <= r[m][1]
      <3> TAKE m \in 1..Len(r)
      <3>1. CASE m = 1
        BY <2>4, <3>1
      <3>2. CASE m # 1
        <4>1. m - 1 \in 1..Len(q) /\ r[m] = q[m - 1]
          BY <2>4, <3>2
        <4>2. x + y <= q[m - 1][1] /\ q[m - 1][1] \in Nat
          BY <1>q, <4>1
        <4> QED BY ONLY <4>1, <4>2, x \in Nat, y \in Nat
      <3> QED BY <3>1, <3>2
    <2>9. \A j, k \in Nat : j < k /\ x < j /\ k <= x + y => InCall(r, j, k)
      <3>1. 1 \in 1..Len(r)
        BY <1>q, <2>3
      <3> QED BY <2>4, <3>1 DEF InCall
    <2>10. ASSUME NEW j, NEW k, InCall(q, j, k) PROVE InCall(r, j, k)
      <3>1. PICK m \in 1..Len(q) : q[m][1] < j /\ k <= q[m][1] + q[m][2]
        BY <2>10 DEF InCall
      <3>2. m + 1 \in 1..Len(r) /\ r[m + 1] = q[m]
        BY <1>q, <2>3, <2>4
      <3> QED BY <3>1, <3>2 DEF InCall
    <2> QED BY <2>3, <2>7, <2>8, <2>9, <2>10
  <1> QED BY <1>1, <1>2

\* A file just read: its one call covers it.
LEMMA WholeArray ==
  ASSUME NEW s \in Arrays
  PROVE  Call(0, Len(s)) \in CallLists /\ Halfway(s, Call(0, Len(s)), NULL)
  <1>1. PICK n \in Nat : n = Len(s)
    BY ArrayBasics
  <1> DEFINE q == Call(0, n)
  <1>2. q = Call(0, n) \o <<>>
    BY <1>1, CallIsList, JoinedLists
  <1>3. Apart(s, <<>>, NULL)
    BY NoCalls DEF Apart
  <1> HIDE DEF q
  <1>4. /\ q \in CallLists /\ Apart(s, q, NULL)
        /\ \A j, k \in Nat : j < k /\ 0 < j /\ k <= 0 + n => InCall(q, j, k)
    <2>1. \A m \in 1..Len(<<>>) : 0 + n <= <<>>[m][1]
      BY NoCalls
    <2>2. 0 + n <= n /\ 0 \in Nat
      OBVIOUS
    <2> QED BY <1>1, <1>2, <1>3, <2>1, <2>2, NoCalls, PrependCall
  <1>5. Ordered(s, q, NULL)
    BY <1>1, <1>4 DEF Ordered
  <1> QED BY <1>1, <1>4, <1>5 DEF Halfway, Split, q

\* The first call becomes the partition under way.
LEMMA StartSplits ==
  ASSUME NEW s \in Arrays, NEW q \in CallLists, q # <<>>, Halfway(s, q, NULL), NEW l,
         l = [first |-> Head(q)[1], count |-> Head(q)[2], i |-> 0, pivot_index |-> 0,
              pivot_value |-> s[Head(q)[1] + Head(q)[2]]]
  PROVE  l \in Partitions /\ Tail(q) \in CallLists /\ Halfway(s, Tail(q), l)
  <1>q. Len(q) \in Nat /\ \A m \in 1..Len(q) : q[m][1] \in Nat /\ q[m][2] \in Nat
    BY CallBounds
  <1>1. /\ Tail(q) \in CallLists /\ Len(Tail(q)) = Len(q) - 1
        /\ \A m \in 1..Len(Tail(q)) : Tail(q)[m] = q[m + 1]
    BY HeadTailProperties DEF CallLists
  <1>2. Head(q) = q[1] /\ Len(q) >= 1
    <2>1. Len(q) # 0
      BY EmptySeq DEF CallLists
    <2> QED BY <1>q, <2>1
  <1> DEFINE f == q[1][1]
             e == q[1][2]
  <1>3. f \in Nat /\ e \in Nat /\ 1 \in 1..Len(q)
    BY <1>q, <1>2
  <1>4. e >= 2 /\ f + e <= Len(s) /\ Len(s) \in Nat
    BY <1>3, ArrayBasics DEF Halfway, Apart
  <1>5. s[f + e] \in Int /\ s \in [1..Len(s) -> Int]
    BY <1>3, <1>4, ArrayBasics
  <1>6. /\ l \in Partitions /\ l.first = f /\ l.count = e /\ l.i = 0 /\ l.pivot_index = 0
        /\ l.pivot_value = s[f + e]
    BY <1>2, <1>3, <1>5 DEF Partitions
  <1>7. l # NULL
    BY <1>6, FileSorterAssumption
  <1> HIDE DEF f, e
  <1>8. Split(s, l)
    <2>1. \A k \in 1..0 : s[f + k] <= s[f + e] <=> k <= 0
      OBVIOUS
    <2>2. SplitAt(s, Len(s), f, e, 0, 0, s[f + e])
      BY <1>3, <1>4, <1>5, <2>1 DEF SplitAt
    <2> QED BY <1>6, <2>2 DEF Split
  <1>9. Apart(s, Tail(q), l)
    <2>1. \A m \in 1..Len(Tail(q)) : /\ m + 1 \in 1..Len(q) /\ 1 < m + 1 /\ m \in Nat
                                     /\ Tail(q)[m] = q[m + 1]
      BY <1>q, <1>1, <1>2
    <2>2. \A m \in 1..Len(Tail(q)) : l.first + l.count <= Tail(q)[m][1]
      BY <1>3, <1>6, <2>1 DEF Halfway, Apart, f, e
    <2>3. \A m1, m2 \in 1..Len(Tail(q)) : m1 < m2 => m1 + 1 < m2 + 1
      OBVIOUS
    <2>4. \A m1, m2 \in 1..Len(Tail(q)) : m1 < m2 =>
             Tail(q)[m1][1] + Tail(q)[m1][2] <= Tail(q)[m2][1]
      BY <2>1, <2>3 DEF Halfway, Apart
    <2>5. \A m \in 1..Len(Tail(q)) : Tail(q)[m][2] >= 2 /\ Tail(q)[m][1] + Tail(q)[m][2] <= Len(s)
      BY <2>1 DEF Halfway, Apart
    <2> QED BY <2>2, <2>4, <2>5 DEF Apart
  <1>10. Ordered(s, Tail(q), l)
    <2>1. SUFFICES ASSUME NEW j \in 1..Len(s), NEW k \in 1..Len(s), j < k,
                          InCall(q, j, k)
                   PROVE  InCall(Tail(q), j, k) \/ InLoop(l, j, k)
      BY DEF Halfway, Ordered, InLoop
    <2>2. PICK m \in 1..Len(q) : q[m][1] < j /\ k <= q[m][1] + q[m][2]
      BY <2>1 DEF InCall
    <2>3. CASE m = 1
      BY <1>6, <1>7, <2>2, <2>3 DEF InLoop, f, e
    <2>4. CASE m # 1
      <3>1. m - 1 \in 1..Len(Tail(q)) /\ Tail(q)[m - 1] = q[m]
        BY <1>q, <1>1, <2>4
      <3> QED BY <2>2, <3>1 DEF InCall
    <2> QED BY <2>3, <2>4
  <1> QED BY <1>1, <1>6, <1>8, <1>9, <1>10 DEF Halfway

\* A whole partition: no number of the lower part is above one of the upper part.
LEMMA PartsOrdered ==
  ASSUME NEW n \in Nat, NEW f \in Nat, NEW e \in Nat, NEW b \in Nat, NEW p \in Int,
         NEW s \in [1..n -> Int], SplitAt(s, n, f, e, e, b, p)
  PROVE  /\ b >= 1 /\ b <= e /\ f + e <= n
         /\ \A j, k \in Nat : f < j /\ j <= f + (b - 1) /\ f + (b - 1) < k /\ k <= f + e
              => s[j] <= s[k]
  <1>1. b >= 1 /\ b <= e /\ f + e <= n /\ s[f + b] = p
    BY DEF SplitAt
  <1>2. \A k \in 1..e : s[f + k] <= p <=> k <= b
    BY DEF SplitAt
  <1>3. ASSUME NEW j \in Nat, NEW k \in Nat, f < j, j <= f + (b - 1), f + (b - 1) < k, k <= f + e
        PROVE  s[j] <= s[k]
    <2>1. j - f \in 1..e /\ j - f <= b /\ f + (j - f) = j /\ j \in 1..n
      BY <1>1, <1>3
    <2>2. s[j] <= p
      BY <1>2, <2>1
    <2>3. k - f \in 1..e /\ f + (k - f) = k /\ k \in 1..n
      BY <1>1, <1>3
    <2>4. CASE k = f + b
      BY <1>1, <2>2, <2>4
    <2>5. CASE k # f + b
      <3>1. ~ (k - f <= b)
        BY <1>1, <1>3, <2>5
      <3>2. ~ (s[k] <= p)
        BY <1>2, <2>3, <3>1
      <3>3. s[j] \in Int /\ s[k] \in Int
        BY <2>1, <2>3
      <3> QED BY <2>2, <3>2, <3>3
    <2> QED BY <2>4, <2>5
  <1> QED BY <1>1, <1>3

\* The partition under way becomes the calls for its two parts.
LEMMA ReturnSplits ==
  ASSUME NEW s \in Arrays, NEW q \in CallLists, NEW l \in Partitions, Halfway(s, q, l),
         l.i = l.count, NEW r, r = Calls(l.first, l.count, l.pivot_index - 1) \o q
  PROVE  r \in CallLists /\ Halfway(s, r, NULL)
  <1>1. l # NULL
    BY FileSorterAssumption
  <1>2. PICK n \in Nat : n = Len(s)
    BY ArrayBasics
  <1>3. PICK f \in Nat : f = l.first
    BY DEF Partitions
  <1>4. PICK e \in Nat : e = l.count
    BY DEF Partitions
  <1>5. PICK b \in Nat : b = l.pivot_index
    BY DEF Partitions
  <1>6. PICK p \in Int : p = l.pivot_value
    BY DEF Partitions
  <1>7. s \in [1..n -> Int] /\ SplitAt(s, n, f, e, e, b, p)
    BY <1>1, <1>2, <1>3, <1>4, <1>5, <1>6, ArrayBasics DEF Halfway, Split
  <1>8. /\ b >= 1 /\ b <= e /\ f + e <= n
        /\ \A j, k \in Nat : f < j /\ j <= f + (b - 1) /\ f + (b - 1) < k /\ k <= f + e
             => s[j] <= s[k]
    BY <1>7, PartsOrdered
  <1>9. PICK x \in Nat : x = b - 1
    BY <1>8
  <1>10. PICK y \in Nat : y = e - x
    BY <1>8, <1>9
  <1>11. PICK g \in Nat : g = f + x
    OBVIOUS
  <1>12. g + y = f + e /\ g <= f + e
    BY <1>10, <1>11
  <1> DEFINE r1 == Call(g, y) \o q
             r2 == Call(f, x) \o r1
  <1>13. /\ r1 \in CallLists /\ Apart(s, r1, NULL)
         /\ \A m \in 1..Len(r1) : g <= r1[m][1]
         /\ \A j, k \in Nat : j < k /\ g < j /\ k <= g + y => InCall(r1, j, k)
         /\ \A j, k : InCall(q, j, k) => InCall(r1, j, k)
    <2>1. Apart(s, q, NULL)
      BY DEF Halfway, Apart
    <2>2. \A m \in 1..Len(q) : g + y <= q[m][1]
      BY <1>1, <1>3, <1>4, <1>12 DEF Halfway, Apart
    <2>3. g + y <= n
      BY <1>8, <1>12
    <2> QED BY <1>2, <2>1, <2>2, <2>3, PrependCall
  <1> HIDE DEF r1
  <1>14. /\ r2 \in CallLists /\ Apart(s, r2, NULL)
         /\ \A j, k \in Nat : j < k /\ f < j /\ k <= f + x => InCall(r2, j, k)
         /\ \A j, k : InCall(r1, j, k) => InCall(r2, j, k)
    <2>1. f + x <= n
      BY <1>8, <1>11, <1>12
    <2>2. \A m \in 1..Len(r1) : f + x <= r1[m][1]
      BY <1>11, <1>13
    <2> QED BY <1>2, <1>13, <2>1, <2>2, PrependCall
  <1>15. r = r2
    <2>1. r = (Call(f, x) \o Call(g, y)) \o q
      BY <1>3, <1>4, <1>5, <1>9, <1>10, <1>11 DEF Calls
    <2>2. Call(f, x) \in CallLists /\ Call(g, y) \in CallLists
      BY CallIsList
    <2>3. (Call(f, x) \o Call(g, y)) \o q = Call(f, x) \o (Call(g, y) \o q)
      <3>1. PICK a \in CallLists : a = Call(f, x)
        BY <2>2
      <3>2. PICK c \in CallLists : c = Call(g, y)
        BY <2>2
      <3>3. (a \o c) \o q = a \o (c \o q)
        BY JoinAssociative
      <3> QED BY ONLY <3>1, <3>2, <3>3
    <2> QED BY <2>1, <2>3 DEF r1, r2
  <1> HIDE DEF r2
  <1>16. ASSUME NEW j \in 1..n, NEW k \in 1..n, j < k
         PROVE  s[j] <= s[k] \/ InCall(r2, j, k)
    <2>1. CASE InCall(q, j, k)
      BY <1>13, <1>14, <2>1
    <2>2. CASE InLoop(l, j, k)
      <3>1. f < j /\ k <= f + e
        BY <1>3, <1>4, <2>2 DEF InLoop
      <3>2. CASE k <= f + x
        BY <1>14, <1>16, <3>1, <3>2
      <3>3. CASE g < j
        <4>1. k <= g + y
          BY <1>12, <3>1
        <4>2. InCall(r1, j, k)
          BY <1>13, <1>16, <3>3, <4>1
        <4> QED BY <1>14, <4>2
      <3>4. CASE ~ (k <= f + x) /\ ~ (g < j)
        <4>1. f < j /\ j <= f + (b - 1) /\ f + (b - 1) < k /\ k <= f + e
          BY <1>9, <1>11, <3>1, <3>4
        <4> QED BY <1>8, <4>1
      <3> QED BY <3>2, <3>3, <3>4
    <2>3. CASE ~ InCall(q, j, k) /\ ~ InLoop(l, j, k)
      BY <1>2, <1>16, <2>3 DEF Halfway, Ordered
    <2> QED BY <2>1, <2>2, <2>3
  <1>17. Ordered(s, r2, NULL)
    BY <1>2, <1>16 DEF Ordered
  <1> QED BY <1>14, <1>15, <1>17 DEF Halfway, Split

\* Without calls and without a partition, the array is sorted.
LEMMA SortedAtEnd ==
  ASSUME NEW s, Halfway(s, <<>>, NULL)
  PROVE  Sorted(s)
  <1>1. \A j, k : ~ InCall(<<>>, j, k) /\ ~ InLoop(NULL, j, k)
    BY NoCalls DEF InCall, InLoop
  <1> QED BY <1>1 DEF Halfway, Ordered, Sorted

-----------------------------------------------------------------------------
(***************************************************************************)
(* The invariant                                                           *)
(***************************************************************************)

SorterTypes ==
  /\ file \in [Files -> Arrays]
  /\ file_ptr \in 0..FILE_COUNT
  /\ sorted_files \in [Files -> Arrays \cup {NULL}]
  /\ working \in [Coros -> Files \cup {NULL}]
  /\ numbers \in [Coros -> Arrays]
  /\ calls \in [Coros -> CallLists]
  /\ loop \in [Coros -> Partitions \cup {NULL}]
  /\ main_pc \in {"create", "wait", "merge", "end"}
  /\ current_number_ptr \in [Files -> Nat]
  /\ output \in Arrays

\* A file that has left the queue and is not stored is with one coroutine.
Queue ==
  /\ \A f \in Files : (\E c \in Coros : working[c] = f) <=> f < file_ptr /\ sorted_files[f] = NULL
  /\ \A c, d \in Coros : working[c] # NULL /\ working[c] = working[d] => c = d
  /\ \A f \in Files : sorted_files[f] # NULL => f < file_ptr

\* Who may run, and when the queue is empty.
Progress ==
  /\ main_pc # "wait" => coro_this_ptr = coro_sched
  /\ \A c \in Coros : working[c] # NULL => c \in allocated \ is_finished
  /\ is_finished # {} => file_ptr = FILE_COUNT
  /\ main_pc # "create" => allocated = Coros \/ file_ptr = FILE_COUNT
  /\ main_pc \in {"merge", "end"} => allocated = {}

SameCounts(s, t) == Len(s) = Len(t) /\ \A v : Count(s, v) = Count(t, v)

\* A coroutine's file w, array n, pending calls q and partition l under way; the disk
\* holds d.
HalfSorted(d, w, n, q, l) ==
  /\ w = NULL => l = NULL /\ q = <<>>
  /\ w # NULL => SameCounts(n, d[w]) /\ Halfway(n, q, l)

Sorting == \A c \in Coros : HalfSorted(file, working[c], numbers[c], calls[c], loop[c])

Stored ==
  \A f \in Files : sorted_files[f] # NULL =>
    Sorted(sorted_files[f]) /\ SameCounts(sorted_files[f], file[f])

\* What the merge has taken of the number v.
TakenAs(v) ==
  {p \in Files \X (1..Len(output)) :
     p[2] <= current_number_ptr[p[1]] /\ sorted_files[p[1]][p[2]] = v}

Merging ==
  /\ main_pc \in {"create", "wait"} =>
       output = <<>> /\ current_number_ptr = [f \in Files |-> 0]
  /\ main_pc \in {"merge", "end"} =>
       /\ Sorted(output)
       /\ \A f \in Files : /\ current_number_ptr[f] <= Len(sorted_files[f])
                           /\ current_number_ptr[f] <= Len(output)
       /\ \A f \in Left : \A k \in 1..Len(output) : output[k] <= Current(f)
       /\ \A v : Count(output, v) = Cardinality(TakenAs(v))
  /\ main_pc = "end" => Left = {}

SorterInv ==
  SorterTypes /\ Queue /\ Progress /\ Sorting /\ Stored /\ Merging /\ CP!CoroInv

-----------------------------------------------------------------------------
LEMMA CoroHolds == CP!CoroAssumption
  BY FileSorterAssumption DEF CP!CoroAssumption, IsFiniteSet, CP!IsFiniteSet

LEMMA FilesNotNull == NULL \notin Files /\ \A f \in Files : f \in Nat /\ f < FILE_COUNT
  BY FileSorterAssumption DEF Files

LEMMA ArraysNotNull == NULL \notin Arrays
  BY FileSorterAssumption DEF Arrays

LEMMA InitSorter == Init => SorterInv
  <1> SUFFICES ASSUME Init PROVE SorterInv
    OBVIOUS
  <1> USE DEF Init
  <1>1. <<>> \in Arrays /\ <<>> \in CallLists /\ \A f \in Files : file[f] \in Arrays
    BY FileSorterAssumption DEF Arrays, CallLists
  <1>2. SorterTypes
    BY <1>1, FileSorterAssumption DEF SorterTypes
  <1>3. Queue
    BY FilesNotNull DEF Queue
  <1>4. Sorting
    BY DEF Sorting, HalfSorted
  <1>5. Stored
    BY DEF Stored
  <1>6. Merging
    BY DEF Merging
  <1>7. CP!Init
    BY DEF C!Init, CP!Init
  <1>8. CP!CoroInv
    BY <1>7, CoroHolds, CP!InitCoro
  <1>9. Progress
    BY <1>7 DEF Progress, CP!Init
  <1> QED BY <1>2, <1>3, <1>4, <1>5, <1>6, <1>8, <1>9 DEF SorterInv

-----------------------------------------------------------------------------
(***************************************************************************)
(* What a step leaves alone                                                *)
(***************************************************************************)

LEMMA SameCoros ==
  ASSUME UNCHANGED coroVars
  PROVE  UNCHANGED CP!vars
  BY DEF CP!vars, CP!listVars

\* The coroutine that runs has not finished, and main waits.
LEMMA Running ==
  ASSUME SorterInv, NEW c \in Coros, coro_this_ptr = c
  PROVE  main_pc = "wait" /\ c \in allocated \ is_finished
  <1>1. c # coro_sched
    BY FileSorterAssumption
  <1>2. c \in CP!Live /\ CP!Live \cap is_finished = {}
    BY DEF SorterInv, CP!CoroInv, CP!OneRuns, CP!FinishedCaught
  <1> QED BY <1>1, <1>2 DEF SorterInv, Progress, CP!Live

LEMMA SameStored ==
  ASSUME Stored, UNCHANGED <<file, sorted_files>>
  PROVE  Stored'
  BY DEF Stored

LEMMA SameQueue ==
  ASSUME Queue, UNCHANGED <<file_ptr, sorted_files, working>>
  PROVE  Queue'
  BY DEF Queue

\* The other coroutines' sorts stand still.
LEMMA OthersSort ==
  ASSUME Sorting, UNCHANGED file, NEW c \in Coros,
         \A d \in Coros : d # c => /\ working'[d] = working[d] /\ numbers'[d] = numbers[d]
                                   /\ calls'[d] = calls[d] /\ loop'[d] = loop[d],
         HalfSorted(file, working'[c], numbers'[c], calls'[c], loop'[c])
  PROVE  Sorting'
  BY DEF Sorting

LEMMA SameSorting ==
  ASSUME Sorting, UNCHANGED <<file, sortVars>>
  PROVE  Sorting'
  BY DEF Sorting

\* Before the merge, nothing has been taken.
LEMMA NotMerging ==
  ASSUME Merging, main_pc \in {"create", "wait"}, main_pc' \in {"create", "wait"},
         UNCHANGED mergeVars
  PROVE  Merging'
  BY DEF Merging

-----------------------------------------------------------------------------
(***************************************************************************)
(* Every step is one of the library or leaves its state alone              *)
(***************************************************************************)

LEMMA YieldIsStep ==
  ASSUME NEW c \in Coros, YieldOrNot(c)
  PROVE  [CP!Next]_(CP!vars)
  <1>1. CASE C!coro_yield(c)
    <2>1. C!NextAfter(c) = CP!NextAfter(c)
      BY DEF C!NextAfter, CP!NextAfter
    <2>2. CP!coro_yield(c)
      BY <1>1, <2>1 DEF C!coro_yield, CP!coro_yield, C!coro_yield_to, CP!coro_yield_to,
                        C!listVars, CP!listVars
    <2> QED BY <2>2 DEF CP!Next
  <1>2. CASE UNCHANGED coroVars
    BY <1>2, SameCoros
  <1> QED BY <1>1, <1>2 DEF YieldOrNot

LEMMA NewIsStep ==
  ASSUME NEW c \in Coros, C!coro_new(c)
  PROVE  CP!Next
  <1>1. C!coro_list_add(c) => CP!coro_list_add(c)
    BY DEF C!coro_list_add, CP!coro_list_add
  <1>2. CP!coro_new(c)
    BY <1>1 DEF C!coro_new, CP!coro_new, C!InUserCode, CP!InUserCode
  <1> QED BY <1>2 DEF CP!Next

LEMMA FinishIsStep ==
  ASSUME NEW c \in Coros, C!coro_finish(c)
  PROVE  CP!Next
  <1>1. CP!coro_finish(c)
    BY DEF C!coro_finish, CP!coro_finish, C!FinishToScheduler, CP!FinishToScheduler,
           C!listVars, CP!listVars
  <1> QED BY <1>1 DEF CP!Next

LEMMA DeleteIsStep ==
  ASSUME NEW c \in Coros, C!coro_delete(c)
  PROVE  CP!Next
  <1>1. CP!coro_delete(c)
    BY DEF C!coro_delete, CP!coro_delete
  <1> QED BY <1>1 DEF CP!Next

LEMMA SameSearch == C!FirstFinished = CP!FirstFinished
  <1>1. C!At = CP!At
    BY DEF C!At, CP!At
  <1>2. C!Cardinality(Coros) = CP!Cardinality(Coros)
    BY DEF C!Cardinality, CP!Cardinality
  <1> QED BY <1>1, <1>2 DEF C!FirstFinished, CP!FirstFinished

LEMMA WaitIsStep ==
  ASSUME C!coro_sched_wait
  PROVE  CP!Next
  <1>1. \A c : C!coro_list_delete(c) => CP!coro_list_delete(c)
    BY DEF C!coro_list_delete, CP!coro_list_delete
  <1>2. C!coro_yield_to(coro_sched, coro_list) => CP!coro_yield_to(coro_sched, coro_list)
    BY DEF C!coro_yield_to, CP!coro_yield_to
  <1>3. CP!coro_sched_wait
    BY <1>1, <1>2, SameSearch DEF C!coro_sched_wait, CP!coro_sched_wait, C!listVars, CP!listVars
  <1> QED BY <1>3 DEF CP!Next

LEMMA CoroKept ==
  ASSUME SorterInv, [CP!Next]_(CP!vars)
  PROVE  CP!CoroInv'
  BY CoroHolds, CP!NextCoro DEF SorterInv

-----------------------------------------------------------------------------
(***************************************************************************)
(* main before the merge                                                   *)
(***************************************************************************)

LEMMA CreateKeeps ==
  ASSUME SorterInv, Create
  PROVE  SorterInv'
  <1> USE DEF SorterInv
  <1>1. /\ main_pc = "create" /\ main_pc' \in {"create", "wait"}
        /\ UNCHANGED <<file, file_ptr, sorted_files, sortVars, mergeVars>>
    BY DEF Create
  <1>2. SorterTypes'
    BY <1>1 DEF SorterTypes
  <1>3. Queue' /\ Sorting' /\ Stored' /\ Merging'
    BY <1>1, SameQueue, SameSorting, SameStored, NotMerging
  <1>4. CASE main_pc' = main_pc /\ \E c \in Coros : C!coro_new(c)
    <2>1. PICK c \in Coros : C!coro_new(c)
      BY <1>4
    <2>2. CP!CoroInv'
      BY <2>1, NewIsStep, CoroKept
    <2>3. /\ c \notin allocated /\ allocated' = allocated \cup {c}
          /\ is_finished' = is_finished \ {c} /\ UNCHANGED coro_this_ptr
      BY <2>1 DEF C!coro_new
    <2>4. Progress'
      BY <1>1, <1>4, <2>3 DEF Progress
    <2> QED BY <1>2, <1>3, <2>2, <2>4
  <1>5. CASE allocated = Coros /\ main_pc' = "wait" /\ UNCHANGED coroVars
    <2>1. CP!CoroInv'
      BY <1>5, SameCoros, CoroKept
    <2>2. Progress'
      BY <1>1, <1>5 DEF Progress
    <2> QED BY <1>2, <1>3, <2>1, <2>2
  <1> QED BY <1>4, <1>5 DEF Create

\* When the list is empty, no coroutine is left.
LEMMA EmptyList ==
  ASSUME SorterInv, coro_list = NULL, returned = {}
  PROVE  allocated = {}
  <1>1. PICK n \in Nat : \E l \in [1..n -> Coros] : CP!IsList(n, l)
    BY DEF SorterInv, CP!CoroInv, CP!Listed
  <1>2. PICK l \in [1..n -> Coros] : CP!IsList(n, l)
    BY <1>1
  <1>3. n = 0
    <2> SUFFICES ASSUME n # 0 PROVE FALSE
      OBVIOUS
    <2>1. coro_list = l[1] /\ 1 \in 1..n
      BY <1>2 DEF CP!IsList
    <2> QED BY <2>1, FileSorterAssumption
  <1>4. CP!Live = {}
    BY <1>2, <1>3 DEF CP!IsList
  <1> QED BY <1>4 DEF CP!Live

LEMMA MergeNotStarted ==
  ASSUME SorterInv, main_pc = "wait", allocated = {}
  PROVE  \A f \in Files : sorted_files[f] # NULL
  <1>1. file_ptr = FILE_COUNT
    BY FileSorterAssumption DEF SorterInv, Progress
  <1> SUFFICES ASSUME NEW f \in Files, sorted_files[f] = NULL PROVE FALSE
    OBVIOUS
  <1>2. PICK c \in Coros : working[c] = f
    BY <1>1, FilesNotNull DEF SorterInv, Queue
  <1> QED BY <1>2, FilesNotNull DEF SorterInv, Progress

\* Nothing is taken when the merge begins.
LEMMA MergeStarts ==
  ASSUME SorterInv, main_pc = "wait", main_pc' = "merge", allocated = {},
         UNCHANGED <<sorted_files, mergeVars>>
  PROVE  Merging'
  <1>1. output = <<>> /\ current_number_ptr = [f \in Files |-> 0]
    BY DEF SorterInv, Merging
  <1>2. \A f \in Files : sorted_files[f] \in Arrays /\ Len(sorted_files[f]) \in Nat
    BY MergeNotStarted, ArrayBasics DEF SorterInv, SorterTypes
  <1>3. Len(<<>>) = 0 /\ 1..0 = {}
    OBVIOUS
  <1>4. Sorted(output)
    BY <1>1, <1>3 DEF Sorted
  <1>5. \A f \in Files : /\ current_number_ptr[f] <= Len(sorted_files[f])
                         /\ current_number_ptr[f] <= Len(output)
    BY <1>1, <1>2, <1>3
  <1>6. \A v : Count(output, v) = Cardinality(TakenAs(v))
    <2> TAKE v
    <2>1. {i \in 1..Len(output) : output[i] = v} = {}
      BY <1>1, <1>3
    <2>2. TakenAs(v) = {}
      BY <1>1, <1>3 DEF TakenAs
    <2> QED BY <2>1, <2>2 DEF Count
  <1>7. \A f \in Left : \A k \in 1..Len(output) : output[k] <= Current(f)
    BY <1>1, <1>3
  <1>8. /\ UNCHANGED <<Sorted(output), Left>>
        /\ \A v : TakenAs(v)' = TakenAs(v)
        /\ \A f : Current(f)' = Current(f)
    BY DEF Sorted, Left, TakenAs, Current
  <1> QED BY <1>4, <1>5, <1>6, <1>7, <1>8 DEF Merging

LEMMA WaitKeeps ==
  ASSUME SorterInv, Wait
  PROVE  SorterInv'
  <1> USE DEF SorterInv
  <1>1. /\ main_pc = "wait" /\ main_pc' \in {"wait", "merge"}
        /\ UNCHANGED <<file, file_ptr, sorted_files, sortVars, mergeVars>>
    BY DEF Wait
  <1>2. SorterTypes'
    BY <1>1 DEF SorterTypes
  <1>3. Queue' /\ Sorting' /\ Stored'
    BY <1>1, SameQueue, SameSorting, SameStored
  <1>4. CASE /\ returned = {} /\ C!coro_sched_wait
             /\ main_pc' = IF WaitedForAll THEN "merge" ELSE main_pc
    <2>1. CP!CoroInv'
      BY <1>4, WaitIsStep, CoroKept
    <2>2. /\ UNCHANGED <<allocated, is_finished>>
          /\ coro_this_ptr = coro_sched /\ (coro_list = NULL => UNCHANGED coro_this_ptr)
      BY <1>4 DEF C!coro_sched_wait
    <2>3. CASE WaitedForAll
      <3>1. allocated = {} /\ main_pc' = "merge"
        BY <1>4, <2>3, EmptyList DEF WaitedForAll
      <3>2. Progress'
        BY <1>1, <2>2, <2>3, <3>1 DEF Progress, WaitedForAll
      <3>3. Merging'
        BY <1>1, <3>1, MergeStarts
      <3> QED BY <1>2, <1>3, <2>1, <3>2, <3>3
    <2>4. CASE ~ WaitedForAll
      <3>1. Progress'
        BY <1>1, <1>4, <2>2, <2>4 DEF Progress
      <3>2. Merging'
        BY <1>1, <1>4, <2>4, NotMerging
      <3> QED BY <1>2, <1>3, <2>1, <3>1, <3>2
    <2> QED BY <2>3, <2>4
  <1>5. CASE main_pc' = main_pc /\ \E c \in Coros : C!coro_delete(c)
    <2>1. PICK c \in Coros : C!coro_delete(c)
      BY <1>5
    <2>2. CP!CoroInv'
      BY <2>1, DeleteIsStep, CoroKept
    <2>3. /\ c \in returned /\ allocated' = allocated \ {c} /\ is_finished' = is_finished \ {c}
          /\ UNCHANGED coro_this_ptr
      BY <2>1 DEF C!coro_delete
    <2>4. c \in is_finished
      BY <2>3 DEF CP!CoroInv, CP!CoroTypes
    <2>5. Progress'
      BY <1>1, <1>5, <2>3, <2>4 DEF Progress
    <2>6. Merging'
      BY <1>1, <1>5, NotMerging
    <2> QED BY <1>2, <1>3, <2>2, <2>5, <2>6
  <1> QED BY <1>4, <1>5 DEF Wait

-----------------------------------------------------------------------------
(***************************************************************************)
(* The coroutines                                                          *)
(***************************************************************************)

\* A step of the sort touches neither the queue nor who is alive.
LEMMA SortStepKeeps ==
  ASSUME SorterInv, NEW c \in Coros, coro_this_ptr = c,
         UNCHANGED <<allocated, is_finished, file, file_ptr, sorted_files, working, main_pc,
                     mergeVars>>,
         [CP!Next]_(CP!vars), Sorting',
         numbers' \in [Coros -> Arrays], calls' \in [Coros -> CallLists],
         loop' \in [Coros -> Partitions \cup {NULL}]
  PROVE  SorterInv'
  <1> USE DEF SorterInv
  <1>1. main_pc = "wait"
    BY Running
  <1>2. SorterTypes'
    BY DEF SorterTypes
  <1>3. Queue' /\ Stored' /\ Merging'
    BY <1>1, SameQueue, SameStored, NotMerging
  <1>4. Progress'
    BY <1>1 DEF Progress
  <1>5. CP!CoroInv'
    BY CoroKept
  <1> QED BY <1>2, <1>3, <1>4, <1>5

LEMMA TakeFileKeeps ==
  ASSUME SorterInv, NEW c \in Coros, TakeFile(c)
  PROVE  SorterInv'
  <1> USE DEF SorterInv
  <1>1. /\ coro_this_ptr = c /\ working[c] = NULL /\ file_ptr < FILE_COUNT
        /\ working' = [working EXCEPT ![c] = file_ptr]
        /\ numbers' = [numbers EXCEPT ![c] = file[file_ptr]]
        /\ calls' = [calls EXCEPT ![c] = Call(0, Len(file[file_ptr]))]
        /\ file_ptr' = file_ptr + 1
        /\ UNCHANGED <<coroVars, file, sorted_files, loop, main_pc, mergeVars>>
    BY DEF TakeFile, AdvanceQueue
  <1>2. file_ptr \in Files /\ file_ptr + 1 \in 0..FILE_COUNT /\ file_ptr \in Nat
    BY <1>1, FileSorterAssumption DEF SorterTypes, Files
  <1>3. main_pc = "wait" /\ c \in allocated \ is_finished
    BY <1>1, Running
  <1>4. PICK s \in Arrays : s = file[file_ptr]
    BY <1>2 DEF SorterTypes
  <1>5. Call(0, Len(s)) \in CallLists /\ Halfway(s, Call(0, Len(s)), NULL)
    BY WholeArray
  <1>6. /\ working'[c] = file_ptr /\ numbers'[c] = s /\ calls'[c] = Call(0, Len(s))
        /\ loop'[c] = NULL
    BY <1>1, <1>4 DEF SorterTypes, Sorting, HalfSorted
  <1>7. SorterTypes'
    BY <1>1, <1>2, <1>4, <1>5 DEF SorterTypes
  <1>8. Queue'
    <2>1. \A d \in Coros : working'[d] = IF d = c THEN file_ptr ELSE working[d]
      BY <1>1 DEF SorterTypes
    <2>2. \A d \in Coros : working[d] # file_ptr
      BY <1>2 DEF Queue
    <2>3. sorted_files[file_ptr] = NULL
      BY <1>2 DEF Queue
    <2>4. ASSUME NEW f \in Files
          PROVE  (\E d \in Coros : working'[d] = f) <=> f < file_ptr' /\ sorted_files'[f] = NULL
      <3>1. CASE f = file_ptr
        BY <1>1, <1>2, <2>1, <2>3, <3>1
      <3>2. CASE f # file_ptr
        <4>1. f < file_ptr' <=> f < file_ptr
          BY <1>1, <1>2, <3>2, FilesNotNull
        <4>2. (\E d \in Coros : working'[d] = f) <=> (\E d \in Coros : working[d] = f)
          BY <1>1, <2>1, <3>2, FilesNotNull
        <4> QED BY <1>1, <4>1, <4>2 DEF Queue
      <3> QED BY <3>1, <3>2
    <2>5. \A d, e \in Coros : working'[d] # NULL /\ working'[d] = working'[e] => d = e
      BY <2>1, <2>2 DEF Queue
    <2>6. \A f \in Files : sorted_files'[f] # NULL => f < file_ptr'
      BY <1>1, <1>2, FilesNotNull DEF Queue
    <2> QED BY <2>4, <2>5, <2>6 DEF Queue
  <1>9. Progress'
    BY <1>1, <1>2, <1>3 DEF Progress, SorterTypes
  <1>10. Sorting'
    <2>1. HalfSorted(file, working'[c], numbers'[c], calls'[c], loop'[c])
      BY <1>2, <1>4, <1>5, <1>6, FilesNotNull DEF HalfSorted, SameCounts
    <2>2. \A d \in Coros : d # c => /\ working'[d] = working[d] /\ numbers'[d] = numbers[d]
                                    /\ calls'[d] = calls[d] /\ loop'[d] = loop[d]
      BY <1>1 DEF SorterTypes
    <2> QED BY <1>1, <2>1, <2>2, OthersSort
  <1>11. Stored' /\ Merging' /\ CP!CoroInv'
    BY <1>1, <1>3, SameStored, NotMerging, SameCoros, CoroKept
  <1> QED BY <1>7, <1>8, <1>9, <1>10, <1>11

\* What is known of a coroutine with calls or a partition.
LEMMA AtWork ==
  ASSUME SorterInv, NEW c \in Coros, calls[c] # <<>> \/ loop[c] # NULL
  PROVE  /\ working[c] # NULL
         /\ SameCounts(numbers[c], file[working[c]])
         /\ Halfway(numbers[c], calls[c], loop[c])
         /\ numbers[c] \in Arrays /\ calls[c] \in CallLists
         /\ loop[c] # NULL => loop[c] \in Partitions
  BY DEF SorterInv, Sorting, HalfSorted, SorterTypes

LEMMA PartitionStartKeeps ==
  ASSUME SorterInv, NEW c \in Coros, PartitionStart(c)
  PROVE  SorterInv'
  <1> DEFINE l == [first |-> Head(calls[c])[1], count |-> Head(calls[c])[2], i |-> 0,
                   pivot_index |-> 0,
                   pivot_value |-> numbers[c][Head(calls[c])[1] + Head(calls[c])[2]]]
  <1>1. /\ coro_this_ptr = c /\ loop[c] = NULL /\ calls[c] # <<>>
        /\ loop' = [loop EXCEPT ![c] = l]
        /\ calls' = [calls EXCEPT ![c] = Tail(@)]
        /\ UNCHANGED <<coroVars, file, file_ptr, sorted_files, working, numbers, main_pc,
                       mergeVars>>
    BY DEF PartitionStart
  <1>2. SorterTypes /\ Sorting
    BY DEF SorterInv
  <1>3. PICK s \in Arrays : s = numbers[c]
    BY <1>2 DEF SorterTypes
  <1>4. PICK q \in CallLists : q = calls[c]
    BY <1>2 DEF SorterTypes
  <1>5. Halfway(s, q, NULL) /\ q # <<>>
    BY <1>1, <1>3, <1>4, AtWork
  <1>6. l = [first |-> Head(q)[1], count |-> Head(q)[2], i |-> 0, pivot_index |-> 0,
             pivot_value |-> s[Head(q)[1] + Head(q)[2]]]
    BY <1>3, <1>4
  <1> HIDE DEF l
  <1>7. l \in Partitions /\ Tail(q) \in CallLists /\ Halfway(s, Tail(q), l)
    BY <1>5, <1>6, StartSplits
  <1>8. /\ numbers' \in [Coros -> Arrays] /\ calls' \in [Coros -> CallLists]
        /\ loop' \in [Coros -> Partitions \cup {NULL}]
        /\ working'[c] = working[c] /\ numbers'[c] = s /\ calls'[c] = Tail(q) /\ loop'[c] = l
    BY <1>1, <1>2, <1>3, <1>4, <1>7 DEF SorterTypes
  <1>9. Sorting'
    <2>1. HalfSorted(file, working'[c], numbers'[c], calls'[c], loop'[c])
      BY <1>1, <1>3, <1>7, <1>8, AtWork DEF HalfSorted
    <2>2. \A d \in Coros : d # c => /\ working'[d] = working[d] /\ numbers'[d] = numbers[d]
                                    /\ calls'[d] = calls[d] /\ loop'[d] = loop[d]
      BY <1>1, <1>2 DEF SorterTypes
    <2> QED BY <1>1, <1>2, <2>1, <2>2, OthersSort
  <1> QED BY <1>1, <1>8, <1>9, SameCoros, SortStepKeeps

LEMMA PartitionReturnKeeps ==
  ASSUME SorterInv, NEW c \in Coros, PartitionReturn(c)
  PROVE  SorterInv'
  <1>1. /\ coro_this_ptr = c /\ loop[c] # NULL /\ loop[c].i = loop[c].count
        /\ calls' = [calls EXCEPT ![c] =
             Calls(loop[c].first, loop[c].count, loop[c].pivot_index - 1) \o @]
        /\ loop' = [loop EXCEPT ![c] = NULL]
        /\ UNCHANGED <<coroVars, file, file_ptr, sorted_files, working, numbers, main_pc,
                       mergeVars>>
    BY DEF PartitionReturn
  <1>2. SorterTypes /\ Sorting
    BY DEF SorterInv
  <1>3. PICK s \in Arrays : s = numbers[c]
    BY <1>2 DEF SorterTypes
  <1>4. PICK q \in CallLists : q = calls[c]
    BY <1>2 DEF SorterTypes
  <1>5. PICK l \in Partitions : l = loop[c]
    BY <1>1, <1>2 DEF SorterTypes
  <1>6. PICK r : r = Calls(l.first, l.count, l.pivot_index - 1) \o q
    OBVIOUS
  <1>7. Halfway(s, q, l) /\ l.i = l.count
    BY <1>1, <1>3, <1>4, <1>5, AtWork
  <1>8. r \in CallLists /\ Halfway(s, r, NULL)
    BY <1>6, <1>7, ReturnSplits
  <1>9. calls' = [calls EXCEPT ![c] = r]
    BY <1>1, <1>4, <1>5, <1>6
  <1>10. /\ numbers' \in [Coros -> Arrays] /\ calls' \in [Coros -> CallLists]
         /\ loop' \in [Coros -> Partitions \cup {NULL}]
         /\ working'[c] = working[c] /\ numbers'[c] = s /\ calls'[c] = r /\ loop'[c] = NULL
    BY <1>1, <1>2, <1>3, <1>8, <1>9 DEF SorterTypes
  <1>11. Sorting'
    <2>1. HalfSorted(file, working'[c], numbers'[c], calls'[c], loop'[c])
      BY <1>1, <1>3, <1>8, <1>10, AtWork DEF HalfSorted
    <2>2. \A d \in Coros : d # c => /\ working'[d] = working[d] /\ numbers'[d] = numbers[d]
                                    /\ calls'[d] = calls[d] /\ loop'[d] = loop[d]
      BY <1>1, <1>2, <1>9 DEF SorterTypes
    <2> QED BY <1>1, <1>2, <2>1, <2>2, OthersSort
  <1> QED BY <1>1, <1>10, <1>11, SameCoros, SortStepKeeps

LEMMA PartitionIterateKeeps ==
  ASSUME SorterInv, NEW c \in Coros, PartitionIterate(c)
  PROVE  SorterInv'
  <1>1. /\ coro_this_ptr = c /\ loop[c] # NULL /\ loop[c].i < loop[c].count
        /\ YieldOrNot(c)
        /\ UNCHANGED <<file, file_ptr, sorted_files, working, calls, main_pc, mergeVars>>
    BY DEF PartitionIterate
  <1>2. SorterTypes /\ Sorting
    BY DEF SorterInv
  <1>3. PICK s \in Arrays : s = numbers[c]
    BY <1>2 DEF SorterTypes
  <1>4. PICK q \in CallLists : q = calls[c]
    BY <1>2 DEF SorterTypes
  <1>5. PICK l \in Partitions : l = loop[c]
    BY <1>1, <1>2 DEF SorterTypes
  <1>6. Halfway(s, q, l) /\ l.i < l.count
    BY <1>1, <1>3, <1>4, <1>5, AtWork
  <1>7. UNCHANGED <<allocated, is_finished>>
    BY <1>1 DEF YieldOrNot, C!coro_yield
  <1>8. ASSUME NEW t \in Arrays, NEW l1 \in Partitions, Halfway(t, q, l1),
               SameCounts(t, s),
               numbers' = [numbers EXCEPT ![c] = t], loop' = [loop EXCEPT ![c] = l1]
        PROVE  SorterInv'
    <2>1. /\ numbers' \in [Coros -> Arrays] /\ calls' \in [Coros -> CallLists]
          /\ loop' \in [Coros -> Partitions \cup {NULL}]
          /\ working'[c] = working[c] /\ numbers'[c] = t /\ calls'[c] = q /\ loop'[c] = l1
      BY <1>1, <1>2, <1>4, <1>8 DEF SorterTypes
    <2>2. HalfSorted(file, working'[c], numbers'[c], calls'[c], loop'[c])
      BY <1>1, <1>3, <1>8, <2>1, AtWork DEF HalfSorted, SameCounts
    <2>3. \A d \in Coros : d # c => /\ working'[d] = working[d] /\ numbers'[d] = numbers[d]
                                    /\ calls'[d] = calls[d] /\ loop'[d] = loop[d]
      BY <1>1, <1>2, <1>8 DEF SorterTypes
    <2>4. Sorting'
      BY <1>1, <1>2, <2>2, <2>3, OthersSort
    <2> QED BY <1>1, <1>7, <2>1, <2>4, YieldIsStep, SortStepKeeps
  <1>9. CASE /\ Below(s[l.first + l.i + 1], l.pivot_value)
             /\ numbers' = [numbers EXCEPT ![c] =
                              Exchanged(@, l.first + l.i, l.first + l.pivot_index)]
             /\ loop' = [loop EXCEPT ![c].i = @ + 1, ![c].pivot_index = @ + 1]
    <2>1. PICK t : t = Exchanged(s, l.first + l.i, l.first + l.pivot_index)
      OBVIOUS
    <2>2. PICK l1 : l1 = [first |-> l.first, count |-> l.count, i |-> l.i + 1,
                          pivot_index |-> l.pivot_index + 1, pivot_value |-> l.pivot_value]
      OBVIOUS
    <2>3. t \in Arrays /\ l1 \in Partitions /\ Halfway(t, q, l1)
      BY <1>6, <1>9, <2>1, <2>2, IterateBelow
    <2>4. SameCounts(t, s)
      <3>1. /\ l.first + l.i \in Nat /\ l.first + l.pivot_index \in Nat
            /\ l.first + l.i < Len(s) /\ l.first + l.pivot_index < Len(s)
        <4>1. SplitAt(s, Len(s), l.first, l.count, l.i, l.pivot_index, l.pivot_value)
          BY <1>1, <1>5, <1>6 DEF Halfway, Split
        <4>2. /\ l.first \in Nat /\ l.count \in Nat /\ l.i \in Nat /\ l.pivot_index \in Nat
              /\ l.first + l.count <= Len(s) /\ l.pivot_index <= l.i /\ Len(s) \in Nat
              /\ l.i < l.count
          BY <1>6, <4>1 DEF SplitAt
        <4> QED BY ONLY <4>2
      <3> QED BY <2>1, <3>1, ExchangeKeeps DEF SameCounts
    <2>5. numbers' = [numbers EXCEPT ![c] = t]
      BY <1>3, <1>9, <2>1
    <2>6. loop' = [loop EXCEPT ![c] = l1]
      <3>1. loop \in [Coros -> Partitions \cup {NULL}]
        BY <1>2 DEF SorterTypes
      <3>2. loop'[c] = [first |-> l.first, count |-> l.count, i |-> l.i + 1,
                        pivot_index |-> l.pivot_index + 1, pivot_value |-> l.pivot_value]
        BY <1>1, <1>5, <1>9, <3>1 DEF Partitions
      <3>3. /\ loop' = [d \in Coros |-> loop'[d]]
            /\ \A d \in Coros : d # c => loop'[d] = loop[d]
        BY <1>9, <3>1
      <3> QED BY <2>2, <3>1, <3>2, <3>3
    <2> QED BY <1>8, <2>3, <2>4, <2>5, <2>6
  <1>10. CASE /\ ~ Below(s[l.first + l.i + 1], l.pivot_value)
              /\ loop' = [loop EXCEPT ![c].i = @ + 1]
              /\ UNCHANGED numbers
    <2>1. PICK l1 : l1 = [first |-> l.first, count |-> l.count, i |-> l.i + 1,
                          pivot_index |-> l.pivot_index, pivot_value |-> l.pivot_value]
      OBVIOUS
    <2>2. l1 \in Partitions /\ Halfway(s, q, l1)
      BY <1>6, <1>10, <2>1, IterateAbove
    <2>3. numbers' = [numbers EXCEPT ![c] = s] /\ SameCounts(s, s)
      BY <1>2, <1>3, <1>10 DEF SorterTypes, SameCounts
    <2>4. loop' = [loop EXCEPT ![c] = l1]
      <3>1. l1 = [l EXCEPT !.i = @ + 1]
        BY <2>1 DEF Partitions
      <3> QED BY <1>5, <1>10, <3>1
    <2> QED BY <1>8, <2>2, <2>3, <2>4
  <1> QED BY <1>3, <1>5, <1>9, <1>10 DEF PartitionIterate

LEMMA StoreFileKeeps ==
  ASSUME SorterInv, NEW c \in Coros, StoreFile(c)
  PROVE  SorterInv'
  <1> USE DEF SorterInv
  <1>1. /\ coro_this_ptr = c /\ working[c] # NULL /\ loop[c] = NULL /\ calls[c] = <<>>
        /\ sorted_files' = [sorted_files EXCEPT ![working[c]] = numbers[c]]
        /\ working' = [working EXCEPT ![c] = NULL]
        /\ numbers' = [numbers EXCEPT ![c] = <<>>]
        /\ UNCHANGED <<coroVars, file, file_ptr, calls, loop, main_pc, mergeVars>>
    BY DEF StoreFile
  <1>2. main_pc = "wait" /\ c \in allocated \ is_finished
    BY <1>1, Running
  <1>3. PICK f \in Files : f = working[c]
    BY <1>1 DEF SorterTypes
  <1>4. PICK s \in Arrays : s = numbers[c]
    BY DEF SorterTypes
  <1>5. SameCounts(s, file[f]) /\ Halfway(s, <<>>, NULL)
    BY <1>1, <1>3, <1>4 DEF Sorting, HalfSorted
  <1>6. Sorted(s)
    BY <1>5, SortedAtEnd
  <1>7. \A g \in Files : sorted_files'[g] = IF g = f THEN s ELSE sorted_files[g]
    BY <1>1, <1>3, <1>4 DEF SorterTypes
  <1>8. \A d \in Coros : working'[d] = IF d = c THEN NULL ELSE working[d]
    BY <1>1 DEF SorterTypes
  <1>9. SorterTypes'
    <2>1. <<>> \in Arrays
      BY DEF Arrays
    <2> QED BY <1>1, <1>3, <1>4, <2>1 DEF SorterTypes
  <1>10. Queue'
    <2>1. ASSUME NEW g \in Files
          PROVE  (\E d \in Coros : working'[d] = g) <=> g < file_ptr' /\ sorted_files'[g] = NULL
      <3>1. CASE g = f
        <4>1. ~ \E d \in Coros : working'[d] = f
          BY <1>1, <1>3, <1>8, FilesNotNull DEF Queue
        <4> QED BY <1>7, <3>1, <4>1, ArraysNotNull
      <3>2. CASE g # f
        <4>1. (\E d \in Coros : working'[d] = g) <=> (\E d \in Coros : working[d] = g)
          BY <1>3, <1>8, <3>2, FilesNotNull
        <4> QED BY <1>1, <1>7, <3>2, <4>1 DEF Queue
      <3> QED BY <3>1, <3>2
    <2>2. \A d, e \in Coros : working'[d] # NULL /\ working'[d] = working'[e] => d = e
      BY <1>8 DEF Queue
    <2>3. \A g \in Files : sorted_files'[g] # NULL => g < file_ptr'
      BY <1>1, <1>3, <1>7 DEF Queue
    <2> QED BY <2>1, <2>2, <2>3 DEF Queue
  <1>11. Progress'
    BY <1>1, <1>2, <1>8 DEF Progress
  <1>12. Sorting'
    <2>1. HalfSorted(file, working'[c], numbers'[c], calls'[c], loop'[c])
      BY <1>1, <1>8 DEF HalfSorted
    <2>2. \A d \in Coros : d # c => /\ working'[d] = working[d] /\ numbers'[d] = numbers[d]
                                    /\ calls'[d] = calls[d] /\ loop'[d] = loop[d]
      BY <1>1 DEF SorterTypes
    <2> QED BY <1>1, <2>1, <2>2, OthersSort
  <1>13. Stored'
    BY <1>1, <1>5, <1>6, <1>7 DEF Stored
  <1>14. Merging' /\ CP!CoroInv'
    BY <1>1, <1>2, NotMerging, SameCoros, CoroKept
  <1> QED BY <1>9, <1>10, <1>11, <1>12, <1>13, <1>14

LEMMA ExitKeeps ==
  ASSUME SorterInv, NEW c \in Coros, Exit(c)
  PROVE  SorterInv'
  <1> USE DEF SorterInv
  <1>1. /\ coro_this_ptr = c /\ working[c] = NULL /\ file_ptr >= FILE_COUNT
        /\ C!coro_finish(c)
        /\ UNCHANGED <<file, file_ptr, sorted_files, sortVars, main_pc, mergeVars>>
    BY DEF Exit
  <1>2. main_pc = "wait" /\ file_ptr = FILE_COUNT
    BY <1>1, Running, FileSorterAssumption DEF SorterTypes
  <1>3. is_finished' = is_finished \cup {c} /\ UNCHANGED allocated
    BY <1>1 DEF C!coro_finish
  <1>4. SorterTypes'
    BY <1>1 DEF SorterTypes
  <1>5. Queue' /\ Sorting' /\ Stored' /\ Merging'
    BY <1>1, <1>2, SameQueue, SameSorting, SameStored, NotMerging
  <1>6. Progress'
    BY <1>1, <1>2, <1>3 DEF Progress
  <1>7. CP!CoroInv'
    BY <1>1, FinishIsStep, CoroKept
  <1> QED BY <1>4, <1>5, <1>6, <1>7

-----------------------------------------------------------------------------
(***************************************************************************)
(* The merge                                                               *)
(***************************************************************************)

LEMMA AppendCounts ==
  ASSUME NEW s \in Arrays, NEW x \in Int
  PROVE  /\ Append(s, x) \in Arrays /\ Len(Append(s, x)) = Len(s) + 1
         /\ \A k \in 1..Len(s) : Append(s, x)[k] = s[k]
         /\ Append(s, x)[Len(s) + 1] = x
         /\ Count(Append(s, x), x) = Count(s, x) + 1
         /\ \A v : v # x => Count(Append(s, x), v) = Count(s, v)
  <1> DEFINE t == Append(s, x)
  <1>1. PICK n \in Nat : n = Len(s)
    BY ArrayBasics
  <1>2. /\ t \in Arrays /\ Len(t) = n + 1
        /\ \A k \in 1..n : t[k] = s[k]
        /\ t[n + 1] = x
    <2>1. t \in Seq(Int) /\ Len(t) = Len(s) + 1 /\ \A k \in 1..(Len(s) + 1) :
             t[k] = IF k <= Len(s) THEN s[k] ELSE x
      BY AppendProperties DEF Arrays
    <2>2. t \in Arrays
      BY <2>1 DEF Arrays
    <2>3. n + 1 \in 1..(n + 1) /\ ~ (n + 1 <= n) /\ \A k \in 1..n : k \in 1..(n + 1) /\ k <= n
      OBVIOUS
    <2> QED BY <1>1, <2>1, <2>2, <2>3
  <1> HIDE DEF t
  <1> DEFINE In(v) == {k \in 1..n : s[k] = v}
  <1>3. \A v : IsFiniteSet(In(v)) /\ Count(s, v) = Cardinality(In(v))
    <2> TAKE v
    <2>1. IsFiniteSet(1..n)
      BY FS_Interval
    <2> QED BY <1>1, <2>1, FS_Subset DEF Count
  <1>4. 1..(n + 1) = (1..n) \cup {n + 1} /\ n + 1 \notin 1..n
    OBVIOUS
  <1>5. Count(t, x) = Count(s, x) + 1
    <2>1. {k \in 1..(n + 1) : t[k] = x} = In(x) \cup {n + 1} /\ n + 1 \notin In(x)
      BY <1>2, <1>4
    <2> HIDE DEF In
    <2>2. Cardinality(In(x) \cup {n + 1}) = Cardinality(In(x)) + 1
      BY <1>3, <2>1, FS_AddElement
    <2> QED BY <1>2, <1>3, <2>1, <2>2 DEF Count
  <1>6. ASSUME NEW v, v # x PROVE Count(t, v) = Count(s, v)
    <2>1. {k \in 1..(n + 1) : t[k] = v} = In(v)
      BY <1>2, <1>4, <1>6
    <2> HIDE DEF In
    <2> QED BY <1>2, <1>3, <2>1 DEF Count
  <1> QED BY <1>1, <1>2, <1>5, <1>6 DEF t

\* Taking the next number of a file.
LEMMA TakeCounts ==
  ASSUME SorterInv, NEW f \in Files, NEW x \in Int, x = Current(f),
         current_number_ptr' = [current_number_ptr EXCEPT ![f] = @ + 1],
         UNCHANGED sorted_files, Len(output') = Len(output) + 1,
         \A g \in Files : current_number_ptr[g] <= Len(output)
  PROVE  /\ Cardinality(TakenAs(x)') = Cardinality(TakenAs(x)) + 1
         /\ \A v : v # x => TakenAs(v)' = TakenAs(v)
  <1>1. PICK n \in Nat : n = Len(output)
    BY ArrayBasics DEF SorterInv, SorterTypes
  <1>2. \A g \in Files : current_number_ptr[g] \in Nat /\ current_number_ptr[g] <= n
    BY <1>1 DEF SorterInv, SorterTypes
  <1>3. PICK m \in Nat : m = current_number_ptr[f]
    BY <1>2
  <1>4. \A g \in Files : current_number_ptr'[g] = IF g = f THEN m + 1 ELSE current_number_ptr[g]
    BY <1>3 DEF SorterInv, SorterTypes
  <1>5. x = sorted_files[f][m + 1] /\ m <= n /\ Len(output') = n + 1
    BY <1>1, <1>2, <1>3 DEF Current
  <1>6. \A g \in Files : \A k \in 1..(n + 1) :
           k <= current_number_ptr'[g] <=>
             (k \in 1..n /\ k <= current_number_ptr[g]) \/ (g = f /\ k = m + 1)
    <2> SUFFICES ASSUME NEW g \in Files, NEW k \in 1..(n + 1)
                 PROVE  k <= current_number_ptr'[g] <=>
                          (k \in 1..n /\ k <= current_number_ptr[g]) \/ (g = f /\ k = m + 1)
      OBVIOUS
    <2>1. CASE g = f
      BY <1>3, <1>4, <1>5, <2>1
    <2>2. CASE g # f
      BY <1>2, <1>4, <2>2
    <2> QED BY <2>1, <2>2
  <1> DEFINE Was(v) == {p \in Files \X (1..n) :
                          p[2] <= current_number_ptr[p[1]] /\ sorted_files[p[1]][p[2]] = v}
             Is(v) == {p \in Files \X (1..(n + 1)) :
                          p[2] <= current_number_ptr'[p[1]] /\ sorted_files[p[1]][p[2]] = v}
  <1>7. \A v : TakenAs(v) = Was(v) /\ TakenAs(v)' = Is(v)
    BY <1>1, <1>5 DEF TakenAs
  <1>8. Is(x) = Was(x) \cup {<<f, m + 1>>} /\ <<f, m + 1>> \notin Was(x)
    <2>1. <<f, m + 1>> \in Files \X (1..(n + 1))
      BY <1>5
    <2>2. ~ (m + 1 <= current_number_ptr[f])
      BY <1>3
    <2>3. \A k \in 1..n : k \in 1..(n + 1)
      OBVIOUS
    <2>4. \A p \in Is(x) : p \in Was(x) \cup {<<f, m + 1>>}
      BY <1>5, <1>6
    <2>5. \A p \in Was(x) : p \in Is(x)
      BY <1>6, <2>3
    <2>6. <<f, m + 1>> \in Is(x)
      BY <1>5, <1>6, <2>1
    <2> QED BY <2>2, <2>4, <2>5, <2>6
  <1>9. \A v : v # x => Is(v) = Was(v)
    <2> SUFFICES ASSUME NEW v, v # x PROVE Is(v) = Was(v)
      OBVIOUS
    <2>1. \A k \in 1..n : k \in 1..(n + 1)
      OBVIOUS
    <2>2. \A p \in Is(v) : p \in Was(v)
      BY <1>5, <1>6
    <2>3. \A p \in Was(v) : p \in Is(v)
      BY <1>6, <2>1
    <2> QED BY <2>2, <2>3
  <1>10. \A v : IsFiniteSet(Was(v))
    <2>1. IsFiniteSet(Files) /\ IsFiniteSet(1..n)
      <3>1. 0 \in Int /\ 1 \in Int /\ FILE_COUNT - 1 \in Int
        BY FileSorterAssumption
      <3>2. IsFiniteSet(0..(FILE_COUNT - 1)) /\ IsFiniteSet(1..n)
        BY <3>1, FS_Interval
      <3> QED BY <3>2 DEF Files
    <2>2. IsFiniteSet(Files \X (1..n))
      BY <2>1, FS_Product
    <2> QED BY <2>2, FS_Subset
  <1> HIDE DEF Was, Is
  <1> QED BY <1>7, <1>8, <1>9, <1>10, FS_AddElement

LEMMA MergeKeeps ==
  ASSUME SorterInv, Merge
  PROVE  SorterInv'
  <1> USE DEF SorterInv
  <1>1. /\ main_pc = "merge" /\ main_pc' \in {"merge", "end"}
        /\ UNCHANGED <<coroVars, file, file_ptr, sorted_files, sortVars>>
    BY DEF Merge
  <1>2. Queue' /\ Sorting' /\ Stored' /\ CP!CoroInv'
    BY <1>1, SameQueue, SameSorting, SameStored, SameCoros, CoroKept
  <1>3. Progress'
    BY <1>1 DEF Progress
  <1>4. allocated = {} /\ file_ptr = FILE_COUNT
    BY <1>1, FileSorterAssumption DEF Progress
  <1>5. \A f \in Files : sorted_files[f] \in Arrays /\ Sorted(sorted_files[f])
    <2> SUFFICES ASSUME NEW f \in Files, sorted_files[f] = NULL PROVE FALSE
      BY DEF SorterTypes, Stored
    <2>1. PICK c \in Coros : working[c] = f
      BY <1>4, FilesNotNull DEF Queue
    <2> QED BY <1>4, <2>1, FilesNotNull DEF Progress
  <1>6. /\ Sorted(output)
        /\ \A f \in Files : /\ current_number_ptr[f] <= Len(sorted_files[f])
                            /\ current_number_ptr[f] <= Len(output)
        /\ \A f \in Left : \A k \in 1..Len(output) : output[k] <= Current(f)
        /\ \A v : Count(output, v) = Cardinality(TakenAs(v))
    BY <1>1 DEF Merging
  <1>7. CASE Left = {} /\ main_pc' = "end" /\ UNCHANGED mergeVars
    <2>1. SorterTypes'
      BY <1>1, <1>7 DEF SorterTypes
    <2>2. /\ UNCHANGED <<Sorted(output), Left>>
          /\ \A v : TakenAs(v)' = TakenAs(v) /\ Count(output, v)' = Count(output, v)
      BY <1>1, <1>7 DEF Sorted, Left, TakenAs, Count
    <2>3. Merging'
      BY <1>1, <1>6, <1>7, <2>2 DEF Merging
    <2> QED BY <1>2, <1>3, <2>1, <2>3
  <1>8. ASSUME NEW f \in Left, SmallestFirst(f), output' = Append(output, Current(f)),
               current_number_ptr' = [current_number_ptr EXCEPT ![f] = @ + 1],
               main_pc' = main_pc
        PROVE  SorterInv'
    <2>1. PICK n \in Nat : n = Len(output)
      BY ArrayBasics DEF SorterTypes
    <2>2. \A g \in Files : current_number_ptr[g] \in Nat /\ Len(sorted_files[g]) \in Nat
      BY <1>5, ArrayBasics DEF SorterTypes
    <2>3. f \in Files /\ current_number_ptr[f] < Len(sorted_files[f])
      BY DEF Left
    <2>4. \A g \in Left : Current(g) \in Int
      <3> TAKE g \in Left
      <3>1. g \in Files /\ current_number_ptr[g] < Len(sorted_files[g])
        BY DEF Left
      <3>2. current_number_ptr[g] + 1 \in 1..Len(sorted_files[g])
        BY <2>2, <3>1
      <3> QED BY <1>5, <3>1, <3>2, ArrayBasics DEF Current
    <2>5. PICK x \in Int : x = Current(f)
      BY <2>4
    <2>6. output \in Arrays
      BY DEF SorterTypes
    <2>7. /\ output' \in Arrays /\ Len(output') = n + 1
          /\ \A k \in 1..n : output'[k] = output[k]
          /\ output'[n + 1] = x
          /\ Count(output', x) = Count(output, x) + 1
          /\ \A v : v # x => Count(output', v) = Count(output, v)
      BY <1>8, <2>1, <2>5, <2>6, AppendCounts
    <2>8. \A g \in Files : current_number_ptr'[g] =
             IF g = f THEN current_number_ptr[g] + 1 ELSE current_number_ptr[g]
      BY <1>8 DEF SorterTypes
    <2>9. SorterTypes'
      <3>1. current_number_ptr' \in [Files -> Nat]
        BY <1>8, <2>2, <2>3 DEF SorterTypes
      <3> QED BY <1>1, <1>8, <2>7, <3>1 DEF SorterTypes
    <2>10. \A k \in 1..n : output[k] <= x
      BY <1>6, <2>1, <2>5
    <2>11. \A k \in 1..n : output[k] \in Int
      BY <2>1, <2>6, ArrayBasics
    <2>12. Sorted(output)'
      <3>1. ASSUME NEW j \in 1..(n + 1), NEW k \in 1..(n + 1), j < k
            PROVE  output'[j] <= output'[k]
        <4>1. j \in 1..n
          BY <3>1
        <4>2. CASE k = n + 1
          BY <2>7, <2>10, <4>1, <4>2
        <4>3. CASE k # n + 1
          <5>1. k \in 1..n
            BY <4>3
          <5> QED BY <1>6, <2>1, <2>7, <3>1, <4>1, <5>1 DEF Sorted
        <4> QED BY <4>2, <4>3
      <3> QED BY <2>7, <3>1 DEF Sorted
    <2>13. \A g \in Files : /\ current_number_ptr'[g] <= Len(sorted_files'[g])
                            /\ current_number_ptr'[g] <= Len(output')
      <3> TAKE g \in Files
      <3>1. current_number_ptr[g] <= Len(sorted_files[g]) /\ current_number_ptr[g] <= n
        BY <1>6, <2>1
      <3>2. sorted_files'[g] = sorted_files[g]
        BY <1>1
      <3>3. CASE g = f
        BY <2>2, <2>3, <2>7, <2>8, <3>1, <3>2, <3>3
      <3>4. CASE g # f
        BY <2>2, <2>7, <2>8, <3>1, <3>2, <3>4
      <3> QED BY <3>3, <3>4
    <2>14. ASSUME NEW g \in Left' PROVE x <= Current(g)' /\ Current(g)' \in Int
      <3>1. g \in Files /\ current_number_ptr'[g] < Len(sorted_files[g])
        BY <1>1 DEF Left
      <3>2. Current(g)' = sorted_files[g][current_number_ptr'[g] + 1]
        BY <1>1 DEF Current
      <3>3. CASE g # f
        <4>1. g \in Left /\ Current(g)' = Current(g)
          BY <2>8, <3>1, <3>2, <3>3 DEF Left, Current
        <4>2. Current(f) <= Current(g)
          BY <1>8, <2>4, <4>1 DEF SmallestFirst
        <4> QED BY <2>4, <2>5, <4>1, <4>2
      <3>4. CASE g = f
        <4>1. PICK m \in Nat : m = current_number_ptr[f]
          BY <2>2, <2>3
        <4>2. PICK s \in Arrays : s = sorted_files[f]
          BY <1>5, <2>3
        <4>3. PICK e \in Nat : e = Len(s)
          BY ArrayBasics
        <4>4. m + 1 < e /\ Current(g)' = s[(m + 1) + 1] /\ x = s[m + 1]
          BY <2>3, <2>5, <2>8, <3>1, <3>2, <3>4, <4>1, <4>2, <4>3 DEF Current
        <4>5. m + 1 \in 1..e /\ (m + 1) + 1 \in 1..e /\ m + 1 < (m + 1) + 1
          BY <4>4
        <4>6. s[m + 1] <= s[(m + 1) + 1]
          BY <1>5, <2>3, <4>2, <4>3, <4>5 DEF Sorted
        <4>7. s[(m + 1) + 1] \in Int
          BY <4>3, <4>5, ArrayBasics
        <4> QED BY <4>4, <4>6, <4>7
      <3> QED BY <3>3, <3>4
    <2>15. ASSUME NEW g \in Left', NEW k \in 1..Len(output')
           PROVE  output'[k] <= Current(g)'
      <3>1. x <= Current(g)' /\ Current(g)' \in Int
        BY <2>14
      <3>2. CASE k = n + 1
        BY <2>7, <3>1, <3>2
      <3>3. CASE k # n + 1
        <4>1. k \in 1..n
          BY <2>7, <3>3
        <4> QED BY <2>7, <2>10, <2>11, <3>1, <4>1
      <3> QED BY <3>2, <3>3
    <2>16. /\ Cardinality(TakenAs(x)') = Cardinality(TakenAs(x)) + 1
           /\ \A v : v # x => TakenAs(v)' = TakenAs(v)
      BY <1>1, <1>6, <1>8, <2>1, <2>3, <2>5, <2>7, TakeCounts
    <2>17. \A v : Count(output', v) = Cardinality(TakenAs(v)')
      <3> TAKE v
      <3>1. CASE v = x
        BY <1>6, <2>7, <2>16, <3>1
      <3>2. CASE v # x
        BY <1>6, <2>7, <2>16, <3>2
      <3> QED BY <3>1, <3>2
    <2>18. Merging'
      BY <1>1, <1>8, <2>12, <2>13, <2>15, <2>17 DEF Merging
    <2> QED BY <1>2, <1>3, <2>9, <2>18
  <1> QED BY <1>1, <1>7, <1>8 DEF Merge

-----------------------------------------------------------------------------
(***************************************************************************)
(* The theorems                                                            *)
(***************************************************************************)

LEMMA NextSorter == SorterInv /\ [Next]_vars => SorterInv'
  <1> SUFFICES ASSUME SorterInv, [Next]_vars PROVE SorterInv'
    OBVIOUS
  <1>1. CASE Create
    BY <1>1, CreateKeeps
  <1>2. ASSUME NEW c \in Coros, CoroutineStep(c) PROVE SorterInv'
    BY <1>2, TakeFileKeeps, PartitionStartKeeps, PartitionIterateKeeps, PartitionReturnKeeps,
       StoreFileKeeps, ExitKeeps DEF CoroutineStep
  <1>3. CASE Wait
    BY <1>3, WaitKeeps
  <1>4. CASE Merge
    BY <1>4, MergeKeeps
  <1>5. CASE UNCHANGED vars
    <2>1. SorterTypes' /\ Progress'
      BY <1>5 DEF SorterInv, SorterTypes, Progress
    <2>2. /\ UNCHANGED <<Sorted(output), Left>>
          /\ \A f : Current(f)' = Current(f)
          /\ \A v : TakenAs(v)' = TakenAs(v) /\ Count(output, v)' = Count(output, v)
      BY <1>5 DEF Sorted, Left, Current, TakenAs, Count
    <2>3. Merging'
      BY <1>5, <2>2 DEF SorterInv, Merging
    <2> QED BY <1>5, <2>1, <2>3, SameQueue, SameSorting, SameStored, SameCoros, CoroKept
            DEF SorterInv
  <1> QED BY <1>1, <1>2, <1>3, <1>4, <1>5 DEF Next

LEMMA InvTakenOnce ==
  ASSUME SorterInv
  PROVE  TakenOnce
  <1> SUFFICES ASSUME NEW f \in Files
               PROVE  Cardinality({c \in Coros : working[c] = f})
                        = IF f < file_ptr /\ sorted_files[f] = NULL THEN 1 ELSE 0
    BY DEF TakenOnce
  <1> DEFINE S == {c \in Coros : working[c] = f}
  <1>1. S # {} <=> f < file_ptr /\ sorted_files[f] = NULL
    BY DEF SorterInv, Queue
  <1>2. \A c, d \in S : c = d
    BY FilesNotNull DEF SorterInv, Queue
  <1>3. CASE S = {}
    BY <1>1, <1>3, FS_EmptySet
  <1>4. CASE S # {}
    <2>1. PICK c : S = {c}
      BY <1>2, <1>4
    <2>2. Cardinality(S) = 1
      BY <2>1, FS_Singleton
    <2> QED BY <1>1, <1>4, <2>2
  <1> QED BY <1>3, <1>4

LEMMA InvMergeReady ==
  ASSUME SorterInv
  PROVE  MergeReady
  <1> SUFFICES ASSUME main_pc \in {"merge", "end"}
               PROVE  (\A f \in Files : sorted_files[f] # NULL) /\ allocated = {}
    BY DEF MergeReady
  <1>1. allocated = {} /\ file_ptr = FILE_COUNT
    BY FileSorterAssumption DEF SorterInv, Progress
  <1>2. ASSUME NEW f \in Files, sorted_files[f] = NULL PROVE FALSE
    <2>1. PICK c \in Coros : working[c] = f
      BY <1>1, <1>2, FilesNotNull DEF SorterInv, Queue
    <2> QED BY <1>1, <2>1, FilesNotNull DEF SorterInv, Progress
  <1> QED BY <1>1, <1>2

LEMMA InvPartitionSplits ==
  ASSUME SorterInv
  PROVE  PartitionSplits
  <1> SUFFICES
        ASSUME NEW c \in Coros, working[c] # NULL
        PROVE  LET l == loop[c]
                   n == numbers[c]
               IN  /\ SameNumbers(n, file[working[c]])
                   /\ \A k \in 1..Len(calls[c]) : calls[c][k][1] + calls[c][k][2] <= Len(n)
                   /\ l # NULL =>
                        /\ l.pivot_index <= l.i /\ l.i <= l.count /\ l.first + l.count <= Len(n)
                        /\ \A k \in 1..l.i :
                             n[l.first + k] <= l.pivot_value <=> k <= l.pivot_index
    BY DEF PartitionSplits
  <1>1. SameCounts(numbers[c], file[working[c]]) /\ Halfway(numbers[c], calls[c], loop[c])
    BY DEF SorterInv, Sorting, HalfSorted
  <1>2. SameNumbers(numbers[c], file[working[c]])
    BY <1>1 DEF SameNumbers, SameCounts
  <1>3. \A k \in 1..Len(calls[c]) : calls[c][k][1] + calls[c][k][2] <= Len(numbers[c])
    BY <1>1 DEF Halfway, Apart
  <1>4. ASSUME loop[c] # NULL
        PROVE  /\ loop[c].pivot_index <= loop[c].i /\ loop[c].i <= loop[c].count
               /\ loop[c].first + loop[c].count <= Len(numbers[c])
               /\ \A k \in 1..loop[c].i :
                    numbers[c][loop[c].first + k] <= loop[c].pivot_value
                      <=> k <= loop[c].pivot_index
    BY <1>1, <1>4 DEF Halfway, Split, SplitAt
  <1> QED BY <1>2, <1>3, <1>4

LEMMA InvStoredSorted ==
  ASSUME SorterInv
  PROVE  StoredSorted
  BY DEF SorterInv, Stored, StoredSorted, SameNumbers, SameCounts

\* When all is taken, each number has been taken as often as the files hold it.
LEMMA AllTaken ==
  ASSUME SorterInv, main_pc = "end", NEW v
  PROVE  Cardinality(TakenAs(v))
           = Cardinality({p \in Files \X (1..Len(output)) :
                            p[2] <= Len(file[p[1]]) /\ file[p[1]][p[2]] = v})
  <1> DEFINE S(f) == {i \in 1..Len(sorted_files[f]) : sorted_files[f][i] = v}
             F(f) == {i \in 1..Len(file[f]) : file[f][i] = v}
             g == [f \in Files |-> CHOOSE h : h \in Bijection(S(f), F(f))]
             T == {p \in Files \X (1..Len(output)) :
                     p[2] <= Len(file[p[1]]) /\ file[p[1]][p[2]] = v}
             b == [p \in TakenAs(v) |-> <<p[1], g[p[1]][p[2]]>>]
  <1>1. \A f \in Files : /\ sorted_files[f] \in Arrays /\ file[f] \in Arrays
                         /\ SameCounts(sorted_files[f], file[f])
    BY InvMergeReady DEF SorterInv, SorterTypes, Stored, MergeReady
  <1>2. Len(output) \in Nat /\ \A f \in Files : /\ Len(sorted_files[f]) \in Nat
                                                /\ Len(file[f]) = Len(sorted_files[f])
                                                /\ current_number_ptr[f] \in Nat
    BY <1>1, ArrayBasics DEF SorterInv, SorterTypes, SameCounts
  <1>3. \A f \in Files : /\ current_number_ptr[f] = Len(sorted_files[f])
                         /\ Len(sorted_files[f]) <= Len(output)
    <2> TAKE f \in Files
    <2>1. current_number_ptr[f] <= Len(sorted_files[f]) /\ current_number_ptr[f] <= Len(output)
      BY DEF SorterInv, Merging
    <2>2. ~ (current_number_ptr[f] < Len(sorted_files[f]))
      BY DEF SorterInv, Merging, Left
    <2> QED BY <1>2, <2>1, <2>2
  <1>4. ASSUME NEW f \in Files PROVE g[f] \in Bijection(S(f), F(f))
    <2>1. IsFiniteSet(S(f)) /\ IsFiniteSet(F(f))
      <3>1. IsFiniteSet(1..Len(sorted_files[f])) /\ IsFiniteSet(1..Len(file[f]))
        BY <1>2, FS_Interval
      <3> QED BY <3>1, FS_Subset
    <2>2. Cardinality(S(f)) = Cardinality(F(f))
      BY <1>1 DEF SameCounts, Count
    <2> HIDE DEF S, F
    <2>3. \E h : h \in Bijection(S(f), F(f))
      BY <2>1, <2>2, FS_SameCardinalityBij DEF ExistsBijection
    <2> QED BY <2>3
  <1> HIDE DEF g
  <1>5. ASSUME NEW f \in Files
        PROVE  /\ \A i \in S(f) : g[f][i] \in F(f)
               /\ \A i, j \in S(f) : g[f][i] = g[f][j] => i = j
               /\ \A k \in F(f) : \E i \in S(f) : g[f][i] = k
    <2> HIDE DEF S, F
    <2> QED BY <1>4 DEF Bijection, Injection, IsInjective, Surjection
  <1>6. \A p \in TakenAs(v) : p[1] \in Files /\ p[2] \in S(p[1]) /\ p = <<p[1], p[2]>>
    BY <1>2, <1>3 DEF TakenAs
  <1>7. \A f \in Files : \A i \in S(f) : <<f, i>> \in TakenAs(v)
    BY <1>2, <1>3 DEF TakenAs
  <1>8. \A f \in Files : \A k \in F(f) : <<f, k>> \in T
    BY <1>2, <1>3
  <1>9. \A p \in T : p[1] \in Files /\ p[2] \in F(p[1]) /\ p = <<p[1], p[2]>>
    BY <1>2
  <1> HIDE DEF S, F, T
  <1>10. b \in [TakenAs(v) -> T]
    BY <1>5, <1>6, <1>8
  <1>11. \A p, q \in TakenAs(v) : b[p] = b[q] => p = q
    <2> SUFFICES ASSUME NEW p \in TakenAs(v), NEW q \in TakenAs(v), b[p] = b[q] PROVE p = q
      OBVIOUS
    <2>1. p[1] = q[1] /\ g[p[1]][p[2]] = g[q[1]][q[2]]
      OBVIOUS
    <2>2. p[2] = q[2]
      BY <1>5, <1>6, <2>1
    <2> QED BY <1>6, <2>1, <2>2
  <1>12. \A t \in T : \E p \in TakenAs(v) : b[p] = t
    <2> SUFFICES ASSUME NEW t \in T PROVE \E p \in TakenAs(v) : b[p] = t
      OBVIOUS
    <2>1. t[1] \in Files /\ t[2] \in F(t[1]) /\ t = <<t[1], t[2]>>
      BY <1>9
    <2>2. PICK i \in S(t[1]) : g[t[1]][i] = t[2]
      BY <1>5, <2>1
    <2>3. <<t[1], i>> \in TakenAs(v)
      BY <1>7, <2>1, <2>2
    <2>4. b[<<t[1], i>>] = t
      BY <2>1, <2>2, <2>3
    <2> QED BY <2>3, <2>4
  <1> HIDE DEF b
  <1>13. b \in Bijection(TakenAs(v), T)
    BY <1>10, <1>11, <1>12, Fun_IsBij
  <1>14. IsFiniteSet(TakenAs(v))
    <2>1. 0 \in Int /\ 1 \in Int /\ FILE_COUNT - 1 \in Int /\ Len(output) \in Int
      BY <1>2, FileSorterAssumption
    <2>2. IsFiniteSet(0..(FILE_COUNT - 1)) /\ IsFiniteSet(1..Len(output))
      BY <2>1, FS_Interval
    <2>3. IsFiniteSet(Files \X (1..Len(output)))
      BY <2>2, FS_Product DEF Files
    <2> QED BY <2>3, FS_Subset DEF TakenAs
  <1>15. Cardinality(TakenAs(v)) = Cardinality(T)
    BY <1>13, <1>14, FS_Bijection DEF ExistsBijection
  <1> QED BY <1>15 DEF T

LEMMA InvOutputMerged ==
  ASSUME SorterInv
  PROVE  OutputMerged
  <1>1. Sorted(output)
    <2>1. CASE main_pc \in {"create", "wait"}
      <3>1. output = <<>>
        BY <2>1 DEF SorterInv, Merging
      <3> QED BY <3>1 DEF Sorted
    <2>2. CASE main_pc \in {"merge", "end"}
      BY <2>2 DEF SorterInv, Merging
    <2> QED BY <2>1, <2>2 DEF SorterInv, SorterTypes
  <1>2. ASSUME main_pc = "end", NEW v
        PROVE  Count(output, v) =
                 Cardinality({p \in Files \X (1..Len(output)) :
                                p[2] <= Len(file[p[1]]) /\ file[p[1]][p[2]] = v})
    <2>1. Count(output, v) = Cardinality(TakenAs(v))
      BY <1>2 DEF SorterInv, Merging
    <2> QED BY <1>2, <2>1, AllTaken
  <1> QED BY <1>1, <1>2 DEF OutputMerged

\* coroutine_func_f and main of 1/solution.c, for every number of coroutines and files
\* and however the coroutines yield: each file that has left the queue is with exactly
\* one coroutine or stored, and main merges when all are stored and every coroutine is
\* gone.
THEOREM FilesSortedOnce == Spec => []SortedOnce
  <1>1. SorterInv => SortedOnce
    BY InvTakenOnce, InvMergeReady DEF SortedOnce
  <1> QED BY InitSorter, NextSorter, <1>1, PTL DEF Spec

\* quick_sort_partition and its caller: across yields the array keeps the numbers of its
\* file, the partition splits at its pivot, no call leaves the array, and what is stored
\* is the file, sorted.
THEOREM YieldsKeepSort == Spec => []SortCorrect
  <1>1. SorterInv => SortCorrect
    BY InvPartitionSplits, InvStoredSorted DEF SortCorrect
  <1> QED BY InitSorter, NextSorter, <1>1, PTL DEF Spec

\* output_merged_sorted_numbers_to_file: what is written is sorted all the time and, in
\* the end, holds each number as often as the files did.
THEOREM FilesMerged == Spec => []OutputMerged
  <1>1. SorterInv => OutputMerged
    BY InvOutputMerged
  <1> QED BY InitSorter, NextSorter, <1>1, PTL DEF Spec

\* The coroutines of the sorter are used as the library allows: its own invariants hold.
THEOREM SorterKeepsLibrary == Spec => [](C!ListExact /\ C!OneRuns /\ C!FinishedCaught)
  <1>1. SorterInv => CP!ListExact /\ CP!OneRuns /\ CP!FinishedCaught
    BY CoroHolds, CP!ListedExact DEF SorterInv, CP!CoroInv
  <1>2. CP!ListExact /\ CP!OneRuns /\ CP!FinishedCaught
          => C!ListExact /\ C!OneRuns /\ C!FinishedCaught
    <2>1. C!At = CP!At
      BY DEF C!At, CP!At
    <2>2. C!Live = CP!Live
      BY DEF C!Live, CP!Live
    <2>3. C!Cardinality(C!Live) = CP!Cardinality(CP!Live)
      BY <2>2 DEF C!Cardinality, CP!Cardinality
    <2>4. CP!ListExact => C!ListExact
      BY <2>1, <2>2, <2>3 DEF C!ListExact, CP!ListExact
    <2> QED BY <2>2, <2>4 DEF C!OneRuns, CP!OneRuns, C!FinishedCaught, CP!FinishedCaught
  <1> QED BY InitSorter, NextSorter, <1>1, <1>2, PTL DEF Spec
=============================================================================
